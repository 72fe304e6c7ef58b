----------------------------- MODULE Enrolment -----------------------------
(***************************************************************************)
(* One admission of one candidate from the command line or by a tick, read *)
(* by read and write by write (membership.rs, membership/execution.rs and  *)
(* expected_admission.rs).  Membership has several commands over a fleet;  *)
(* here there is one, which may create the pull request, may be bound to   *)
(* facts that its caller reviewed, and may go on to a native Stack.  The   *)
(* caravan it joins is one pull request, tail and root at once.            *)
(*                                                                         *)
(* A branch has a generation.  The candidate's head also has the author's  *)
(* content and the branch generation that it stands on.  The writer guard  *)
(* keeps other commands away; people and other tools do as they like.      *)
(***************************************************************************)
EXTENDS Naturals, Sequences, SequencesExt

CONSTANTS Requests,    \* [join, create, bound, mode, arm]: mode is physical, metadata or native
          Arrivals,  \* the candidate when the command is given
          Lags,        \* whether the tail may stand on an old default branch
          MaxOutside,  \* bound: what other people do
          MaxFaults    \* bound: deaths, failed writes, lost answers

EnrolmentBounds ==
  /\ {MaxOutside, MaxFaults} \subseteq Nat /\ Lags \subseteq BOOLEAN
  /\ \A q \in Requests : q.mode \in {"physical", "metadata", "native"} /\ (q.bound => ~q.create)

VARIABLES
  repo,        \* the repository: branches, the candidate and what is judged of it
  checkpoint,  \* a pending native continuation is on disk
  op,          \* the command
  outside, faults

enrolmentVars == <<repo, checkpoint, op, outside, faults>>

Gen(r, branch) == IF branch = "main" THEN r.tip ELSE r.tail

Ended(o, report) == [o EXCEPT !.pc = "ended", !.report = report]

EnrolmentInit ==
  /\ \E q \in Requests, c \in Arrivals, lag \in Lags :
       /\ repo = [tip |-> 1, tail |-> 1, tailOn |-> IF lag THEN 0 ELSE 1, c |-> c,
                  superseded |-> FALSE, policy |-> TRUE, config |-> 1, stacked |-> FALSE]
       /\ c.open \/ q.create
       /\ op = [pc |-> "asked", ask |-> q, binding |-> repo, status |-> repo, first |-> repo, current |-> c,
                pushed |-> 0, todo |-> <<>>, done |-> <<>>, expectBase |-> c.base, did |-> {}, lost |-> {},
                drifted |-> FALSE, late |-> 0, report |-> "none"]
  /\ checkpoint = FALSE /\ outside = 0 /\ faults = 0

-----------------------------------------------------------------------------
(* What is asked, and what was found.                                      *)

Branch == IF op.ask.join THEN "tail" ELSE "main"
(* JoinPredecessorReceipt, of the first status.                            *)
Predecessor == <<Branch, Gen(op.first, Branch)>>
Bound == op.ask.bound
Rewrites == op.ask.mode = "physical"
Native == op.ask.mode = "native"

(* mutation_identity_eq and membership_identity_matches.                   *)
Identity(c) == <<c.open, c.rev, c.base, c.labels, c.auto>>

Unforced(c) == c.open /\ c.labels \cap {"evicted", "force"} = {}

(* ExpectedAdmission: the reviewed facts; a head that this command pushed  *)
(* takes the place of the reviewed one.                                    *)
VerifySnapshot(s) ==
  LET b == op.binding IN
  Bound => /\ s.tip = b.tip /\ s.c.base = b.c.base /\ ~s.stacked
           /\ s.c.rev = (IF op.pushed > 0 THEN op.pushed ELSE b.c.rev)
           /\ Unforced(s.c) /\ "caravan" \notin s.c.labels
VerifyProvider(c) ==
  LET b == op.binding.c.base IN
  Bound => /\ repo.tip = op.binding.tip
           /\ Gen(repo, b[1]) = b[2] /\ Gen(repo, c.base[1]) = c.base[2]
           /\ Unforced(repo.c) /\ Identity(repo.c) = Identity(c)
           /\ Native => ~repo.stacked

(* verify_admission: our own writes and nothing else.                      *)
VerifyAdmission ==
  LET c == op.current IN
  /\ Bound => /\ c.rev = op.status.c.rev /\ c.base = op.expectBase
              /\ ("caravan" \in c.labels) = ("caravan" \in op.did)
  /\ VerifyProvider(c)

(* revalidate_join_root; the tail is the root.                             *)
JoinRoot ==
  op.ask.join => /\ repo.tail = op.status.tail /\ repo.tailOn = op.status.tailOn
                 /\ Rewrites => repo.tailOn = op.status.tip

(* attach_rebase_receipt and the notice say that something was written;    *)
(* that a pull request was created is told by no refusal.                  *)
Refusal == IF op.did \cap {"push", "notice"} # {} THEN "changed" ELSE "unchanged"

Check(pc, ok, next) ==
  /\ op.pc = pc
  /\ op' = IF ok THEN [op EXCEPT !.pc = next] ELSE Ended(op, Refusal)
  /\ UNCHANGED <<repo, checkpoint, outside, faults>>

Fault == faults < MaxFaults /\ faults' = faults + 1

-----------------------------------------------------------------------------
(* execute_locked.                                                         *)

Discover ==
  /\ op.pc = "asked"
  /\ op' = LET s == [op EXCEPT !.status = repo, !.first = repo] IN
           IF repo.policy /\ VerifySnapshot(repo)
           THEN [s EXCEPT !.pc = IF Bound THEN "leased" ELSE IF Rewrites THEN "source" ELSE "common"]
           ELSE Ended(s, "unchanged")
  /\ UNCHANGED <<repo, checkpoint, outside, faults>>

Leased == Check("leased", VerifyProvider(op.status.c), IF Rewrites THEN "source" ELSE "common")

(* fetch_exact: a branch is where it was read.                             *)
FetchExact == repo.c.rev = op.status.c.rev /\ Gen(repo, Branch) = Predecessor[2]

SourceRequested == op.status.c.open \/ op.ask.create
SourceHasWork == op.status.c.work

(* require_current_join_root and preflight_join_source.                    *)
PreflightJoinSource ==
  LET s == op.status IN
  Check("source", /\ SourceRequested /\ (op.ask.join => s.tailOn = s.tip)
                  /\ FetchExact /\ repo.tip = s.tip /\ SourceHasWork,
        "root")

RevalidateRoot == Check("root", JoinRoot, IF op.status.c.open THEN "prepare" ELSE "create")

PreflightRepository == repo.policy

(* Both are looked at where there is a rewrite; the provider refuses a     *)
(* branch without work too.                                                *)
CanCreate == op.status.c.work /\ (Rewrites => PreflightRepository)

(* create_pull_request; its answer may be lost.                            *)
CreatePullRequest ==
  /\ op.pc = "create" /\ CanCreate
  /\ repo' = [repo EXCEPT !.c.open = TRUE, !.c.base = <<Branch, Gen(repo, Branch)>>]
  /\ LET made == [op EXCEPT !.did = @ \cup {"create"}] IN
     \/ /\ op' = [made EXCEPT !.pc = IF Rewrites THEN "created" ELSE "generation", !.status.c = repo'.c]
        /\ UNCHANGED faults
     \/ Fault /\ op' = Ended([made EXCEPT !.lost = {"create"}], "unknown")
  /\ UNCHANGED <<checkpoint, outside>>
CreateRefused == Check("create", CanCreate, "create") /\ op'.pc = "ended"

RediscoverCreated ==
  /\ op.pc = "created"
  /\ op' = [op EXCEPT !.status = repo, !.pc = IF repo.c.open THEN "prepare" ELSE "ended",
                      !.report = IF repo.c.open THEN "none" ELSE "unknown"]
  /\ UNCHANGED <<repo, checkpoint, outside, faults>>

(* The rewrite is planned from branches that are where they were read, and *)
(* the head that it makes is the author's content on the predecessor.      *)
PrepareCandidate == FetchExact /\ (~op.ask.join => op.status.tip = Predecessor[2])
Replayed(c) == [c EXCEPT !.rev = @ + 1, !.onto = Predecessor]

(* preflight_eligibility, and the plan against the source receipt.         *)
Prepare ==
  LET s == op.status IN
  Check("prepare", PreflightRepository /\ s.c.rev = op.first.c.rev /\ PrepareCandidate, "root_again")
RevalidateRootAgain == Check("root_again", JoinRoot, "generation_before_push")
RevalidateGeneration == Check("generation_before_push", ~repo.superseded, "budget")

(* require_post_rewrite_budget.                                            *)
BudgetLeft == Check("budget", TRUE, "guard")
BudgetShort ==
  /\ op.pc = "budget" /\ Fault /\ op' = Ended(op, Refusal) /\ UNCHANGED <<repo, checkpoint, outside>>

AdmissionGuard == Check("guard", VerifyProvider(op.status.c), "push")

Wrote(o, what) == [o EXCEPT !.did = @ \cup {what}, !.late = IF op.drifted THEN @ + 1 ELSE @]

(* apply_prepared_with_admission_guard: the push has a lease on the head,  *)
(* and is left out where the head stands on its predecessor already.       *)
Push ==
  LET c == op.status.c IN
  /\ op.pc = "push" /\ repo.c.rev = c.rev
  /\ IF c.onto = Predecessor
     THEN op' = [op EXCEPT !.pc = "rebound", !.pushed = c.rev] /\ UNCHANGED repo
     ELSE /\ repo' = [repo EXCEPT !.c = Replayed(@)]
          /\ op' = [Wrote(op, "push") EXCEPT !.pc = "rebound", !.pushed = repo'.c.rev]
  /\ UNCHANGED <<checkpoint, outside, faults>>
PushRefused == Check("push", repo.c.rev = op.status.c.rev, "push") /\ op'.pc = "ended"

(* status_after_branch_rewrite_with_deadline, bound to the pushed head.    *)
Rebind ==
  /\ op.pc = "rebound"
  /\ op' = LET s == [op EXCEPT !.status = repo] IN
           IF repo.c.open /\ repo.c.rev = op.pushed /\ VerifySnapshot(repo)
           THEN [s EXCEPT !.pc = "rebound_lease"] ELSE Ended(s, Refusal)
  /\ UNCHANGED <<repo, checkpoint, outside, faults>>
ReboundLease ==
  Check("rebound_lease", VerifyProvider(op.status.c), IF "push" \in op.did THEN "notice" ELSE "common")

(* ensure_branch_rewrite_comment.                                          *)
Notice ==
  /\ op.pc = "notice"
  /\ \/ op' = [Wrote(op, "notice") EXCEPT !.pc = "common"] /\ UNCHANGED faults
     \/ Fault /\ op' = Ended(op, "changed")
  /\ UNCHANGED <<repo, checkpoint, outside>>

-----------------------------------------------------------------------------
(* execute_with_rebase_guard_and_config.                                   *)

(* The status again, and validate_post_rebase_target.                      *)
Resolve ==
  LET s == op.status IN
  Check("common", VerifySnapshot(s) /\ PreflightRepository /\ (Rewrites => Gen(s, Branch) = Predecessor[2]),
        IF s.c.open THEN "generation" ELSE "create")

RevalidateAgain == Check("generation", ~repo.superseded, "target")

(* revalidate_native_admission_generation and revalidate_join_target.      *)
RevalidateTarget ==
  Check("target", JoinRoot /\ (Native => Identity(repo.c) = Identity(op.status.c) /\ repo.tip = op.status.tip),
        "config")

Writes ==
  <<[do |-> "base", to |-> Branch], [do |-> "unlabel", to |-> "skipped"], [do |-> "label", to |-> "caravan"],
    [do |-> "auto", to |-> IF op.ask.arm /\ ~op.ask.join THEN "on" ELSE "off"], [do |-> "comment", to |-> "audit"]>>

(* revalidate_membership_config, the lease and the ancestry.               *)
RevalidateConfig ==
  LET c == op.status.c IN
  /\ op.pc = "config"
  /\ op' = IF /\ Native => repo.config = op.first.config
              /\ VerifyProvider(c) /\ (Bound /\ ~Rewrites => c.onto = Predecessor)
           THEN [op EXCEPT !.pc = "check", !.todo = Writes, !.current = c, !.expectBase = c.base]
           ELSE Ended(op, Refusal)
  /\ UNCHANGED <<repo, checkpoint, outside, faults>>

-----------------------------------------------------------------------------
(* The writes of ExecutionState.                                           *)

Satisfied(w, c) ==
  CASE w.do = "base" -> c.base[1] = w.to
    [] w.do = "unlabel" -> w.to \notin c.labels
    [] w.do = "label" -> w.to \in c.labels
    [] w.do = "auto" -> c.auto = (w.to = "on")
    [] w.do = "comment" -> FALSE

Effect(w, c) ==
  CASE w.do = "base" -> [c EXCEPT !.base = <<w.to, Gen(repo, w.to)>>]
    [] w.do = "unlabel" -> [c EXCEPT !.labels = @ \ {w.to}]
    [] w.do = "label" -> [c EXCEPT !.labels = @ \cup {w.to}]
    [] w.do = "auto" -> [c EXCEPT !.auto = (w.to = "on")]
    [] w.do = "comment" -> c

(* What a step is undone by, given what was there before.                  *)
Restoring(w, before) ==
  CASE w.do = "base" -> [do |-> "base", to |-> before.base[1]]
    [] w.do = "unlabel" -> [do |-> "label", to |-> w.to]
    [] w.do = "label" -> [do |-> "unlabel", to |-> w.to]
    [] w.do = "auto" -> [do |-> "auto", to |-> IF before.auto THEN "on" ELSE "off"]
    [] w.do = "comment" -> w

(* guarded_partial_error for a bound admission, otherwise the rollback.    *)
Stopped(o, refused) ==
  IF ~Bound THEN [o EXCEPT !.pc = "undo"]
  ELSE Ended(o, IF refused /\ op.done = <<>> THEN Refusal ELSE "partial")

(* The precondition is read before every write.                            *)
CheckWrite ==
  /\ op.pc = "check" /\ op.todo # <<>>
  /\ op' = IF Satisfied(Head(op.todo), op.current) THEN [op EXCEPT !.todo = Tail(@)]
           ELSE IF ~VerifyAdmission THEN Stopped(op, TRUE)
           ELSE IF Identity(repo.c) # Identity(op.current) THEN Stopped(op, FALSE)
           ELSE [op EXCEPT !.pc = "write"]
  /\ UNCHANGED <<repo, checkpoint, outside, faults>>

Write ==
  LET w == Head(op.todo)
      name == IF w.do = "label" THEN w.to ELSE w.do
      made == [Wrote(op, name) EXCEPT !.todo = Tail(op.todo), !.current = repo'.c,
                                      !.done = Append(@, [write |-> w, before |-> op.current]),
                                      !.expectBase = IF w.do = "base" THEN Predecessor ELSE @]
  IN
  /\ op.pc = "write"
  /\ \/ /\ repo' = [repo EXCEPT !.c = Effect(w, repo.c)] /\ UNCHANGED faults
        /\ op' = [made EXCEPT !.pc = IF w.do \in {"base", "label"} THEN "after" ELSE "check"]
     \/ /\ repo' = [repo EXCEPT !.c = Effect(w, repo.c)] /\ Fault
        /\ op' = Stopped([Wrote(op, name) EXCEPT !.lost = {name}], FALSE)
     \/ UNCHANGED repo /\ Fault /\ op' = Stopped(op, FALSE)
  /\ UNCHANGED <<checkpoint, outside>>

After ==
  /\ op.pc = "after"
  /\ op' = IF VerifyAdmission THEN [op EXCEPT !.pc = "check"] ELSE Stopped(op, TRUE)
  /\ UNCHANGED <<repo, checkpoint, outside, faults>>

AllWritten ==
  /\ op.pc = "check" /\ op.todo = <<>>
  /\ op' = IF VerifyAdmission THEN [op EXCEPT !.pc = "receipt"] ELSE Stopped(op, TRUE)
  /\ UNCHANGED <<repo, checkpoint, outside, faults>>

(* rollback_membership_envelope; comments stay.                            *)
Undo ==
  /\ op.pc = "undo" /\ op.done # <<>>
  /\ LET step == Last(op.done)
         name == IF step.write.do = "label" THEN step.write.to ELSE step.write.do
         rest == [op EXCEPT !.done = Front(@)]
     IN
     \/ step.write.do = "comment" /\ op' = rest /\ UNCHANGED <<repo, faults>>
     \/ /\ step.write.do # "comment" /\ Identity(repo.c) = Identity(op.current) /\ UNCHANGED faults
        /\ repo' = [repo EXCEPT !.c = Effect(Restoring(step.write, step.before), repo.c)]
        /\ op' = [rest EXCEPT !.did = @ \ {name}, !.current = repo'.c]
     \/ /\ step.write.do # "comment" /\ UNCHANGED repo
        /\ IF Identity(repo.c) = Identity(op.current) THEN Fault ELSE UNCHANGED faults
        /\ op' = Ended(op, "indeterminate")
  /\ UNCHANGED <<checkpoint, outside>>
Undone ==
  /\ op.pc = "undo" /\ op.done = <<>> /\ op' = Ended(op, Refusal)
  /\ UNCHANGED <<repo, checkpoint, outside, faults>>

-----------------------------------------------------------------------------
(* The receipt and the native Stack.                                       *)

(* build_join_receipt.                                                     *)
AncestryVerified == Rewrites /\ op.current.rev = op.pushed
MembershipDurable ==
  "caravan" \in op.current.labels /\ op.current.base = Predecessor
  /\ ("force" \in op.current.labels) = ("force" \in op.first.c.labels)

BuildReceipt ==
  /\ op.pc = "receipt"
  /\ op' = IF Rewrites /\ ~(AncestryVerified /\ MembershipDurable) THEN Ended(op, "incomplete")
           ELSE IF Native THEN [op EXCEPT !.pc = "persist"] ELSE Ended(op, "done")
  /\ UNCHANGED <<repo, checkpoint, outside, faults>>

PersistPending ==
  /\ op.pc = "persist" /\ checkpoint' = TRUE /\ op' = [op EXCEPT !.pc = "native_lease"]
  /\ UNCHANGED <<repo, outside, faults>>
NativeLease ==
  /\ op.pc = "native_lease"
  /\ op' = IF VerifyProvider(op.current) THEN [op EXCEPT !.pc = "converge"]
           ELSE Ended(op, IF op.done = <<>> THEN Refusal ELSE "partial")
  /\ UNCHANGED <<repo, checkpoint, outside, faults>>

(* converge_native_membership may fail before or after the Stack changed.  *)
Converge ==
  /\ op.pc = "converge"
  /\ \/ /\ repo' = [repo EXCEPT !.stacked = TRUE]
        /\ \/ op' = [Wrote(op, "stack") EXCEPT !.pc = "clear"] /\ UNCHANGED faults
           \/ Fault /\ op' = Ended(Wrote(op, "stack"), "partial")
     \/ UNCHANGED repo /\ Fault /\ op' = Ended(op, "partial")
  /\ UNCHANGED <<checkpoint, outside>>
ClearPending ==
  /\ op.pc = "clear"
  /\ \/ checkpoint' = FALSE /\ op' = Ended(op, "done") /\ UNCHANGED faults
     \/ Fault /\ op' = Ended(op, "partial") /\ UNCHANGED checkpoint
  /\ UNCHANGED <<repo, outside>>

Dies ==
  /\ op.pc \notin {"asked", "ended", "dead"} /\ Fault /\ op' = [op EXCEPT !.pc = "dead"]
  /\ UNCHANGED <<repo, checkpoint, outside>>

-----------------------------------------------------------------------------
(* Other people.  What a caller reviewed has drifted when the default      *)
(* branch, the head, the labels or the state of the candidate changed.     *)
Elsewhere(r, drifts) ==
  /\ outside < MaxOutside /\ op.pc \notin {"ended", "dead"} /\ outside' = outside + 1
  /\ repo' = r /\ op' = [op EXCEPT !.drifted = @ \/ drifts]
  /\ UNCHANGED <<checkpoint, faults>>

Outside ==
  \/ Elsewhere([repo EXCEPT !.tip = @ + 1], TRUE)
  \/ Elsewhere([repo EXCEPT !.tail = @ + 1], FALSE)
  \/ Elsewhere([repo EXCEPT !.c.rev = @ + 1, !.c.content = @ + 1], TRUE)
  \/ Elsewhere([repo EXCEPT !.c.labels = @ \cup {"force"}], TRUE)
  \/ repo.c.open /\ Elsewhere([repo EXCEPT !.c.open = FALSE], TRUE)
  \/ Elsewhere([repo EXCEPT !.superseded = TRUE], FALSE)
  \/ Elsewhere([repo EXCEPT !.policy = FALSE], FALSE)
  \/ Elsewhere([repo EXCEPT !.config = @ + 1], FALSE)

EnrolmentNext ==
  \/ Discover \/ Leased \/ PreflightJoinSource \/ RevalidateRoot
  \/ CreatePullRequest \/ CreateRefused \/ RediscoverCreated
  \/ Prepare \/ RevalidateRootAgain \/ RevalidateGeneration \/ BudgetLeft \/ BudgetShort
  \/ AdmissionGuard \/ Push \/ PushRefused \/ Rebind \/ ReboundLease \/ Notice
  \/ Resolve \/ RevalidateAgain \/ RevalidateTarget \/ RevalidateConfig
  \/ CheckWrite \/ Write \/ After \/ AllWritten \/ Undo \/ Undone
  \/ BuildReceipt \/ PersistPending \/ NativeLease \/ Converge \/ ClearPending
  \/ Dies \/ Outside

-----------------------------------------------------------------------------
(* Who is told that nothing was written finds nothing written: at most the *)
(* pull request that the command created, and the write whose answer was   *)
(* lost; a bound admission does not have these exceptions.                 *)
UnchangedIsTrue ==
  op.report = "unchanged" => op.did \subseteq {"create"} \cup op.lost /\ (Bound => op.did = {})

(* Once a fact that the caller reviewed has drifted, a bound admission     *)
(* makes at most the one write that it had verified before.                *)
BoundStops == Bound => op.late <= 1

(* A success enrolled the candidate behind the chosen predecessor.  After  *)
(* a rewrite the head is the author's content on the predecessor that was  *)
(* chosen first; a bound admission enrolled what was reviewed.             *)
DoneIsExact ==
  op.report = "done" =>
    /\ "caravan" \in op.current.labels /\ op.current.base[1] = Branch
    /\ Rewrites => op.current.base = Predecessor /\ op.current.onto = Predecessor
                   /\ op.current.content = op.first.c.content
    /\ Bound => op.current.onto = Predecessor /\ op.current.content = op.binding.c.content

(* Whoever asked the provider for a Stack and did not finish left the      *)
(* continuation on disk.                                                   *)
StackHasCheckpoint == "stack" \in op.did /\ op.report # "done" => checkpoint

(* What an admission promises its caller, wherever it stops.               *)
EnrolmentSound == UnchangedIsTrue /\ BoundStops /\ DoneIsExact /\ StackHasCheckpoint

=============================================================================
