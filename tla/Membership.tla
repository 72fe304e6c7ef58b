----------------------------- MODULE Membership -----------------------------
(***************************************************************************)
(* Commands that change which pull requests form a caravan: new, join,     *)
(* renew and rejoin (membership.rs and membership/), evict and split       *)
(* (reshape.rs), over the graph that graph.rs derives from labels and base *)
(* branches.  There is one command at a time: that is the writer guard's   *)
(* promise, which OperationLock and RemoteLease examine.  It may die       *)
(* anywhere, a provider write may fail or lose its answer, and authors     *)
(* push and label between any two of its steps.                            *)
(*                                                                         *)
(* Every provider write compares a fresh read of the pull request with     *)
(* what the command believes, writes, and reads the result back.  The read *)
(* is a step of its own; the read back belongs to the write, because what  *)
(* happens between these two is absorbed by it like what happens before    *)
(* the write.                                                              *)
(*                                                                         *)
(* A head is a generation number, the set of pull requests whose patches   *)
(* it has, and the branch generation it was last rebased onto.  Left out:  *)
(* conflicts and red checks (refusals before any write), pull request      *)
(* creation, admissions bound to an expected generation (which report a    *)
(* partial envelope instead of undoing it), force, parked and priority     *)
(* labels, native Stacks, capacity bounds, landing (RootMerge).            *)
(***************************************************************************)
EXTENDS Naturals, Sequences, FiniteSets, SequencesExt

CONSTANTS N,           \* pull requests are 1 .. N
          Physical,    \* physical_branch_rewrites_enabled
          GithubActor, \* head_merge_actor is the provider: roots are armed
          Skipped,     \* pull requests that automatic admission has skipped
          MaxCommands, \* bound: commands begun
          MaxFaults,   \* bound: deaths, failed writes and lost answers
          MaxOutside   \* bound: pushes and labels of other people

ASSUME BoundsAssumption ==
  /\ N \in Nat /\ Skipped \subseteq 1 .. N /\ {Physical, GithubActor} \subseteq BOOLEAN
  /\ MaxCommands \in Nat /\ MaxFaults \in Nat /\ MaxOutside \in Nat

PRs == 1 .. N
Default == 0           \* as a base: the default branch; as a pull request: none

(* Control labels; "other" is any label of the people.                     *)
Label == {"caravan", "evicted", "skipped", "other"}

PullRequest ==
  [labels : SUBSET Label, base : 0 .. N, baseRev : Nat, auto : BOOLEAN,
   rev : Nat, onto : (0 .. N) \X Nat, has : SUBSET PRs]

VARIABLES
  pull,     \* the provider's pull requests and their head branches
  tip,      \* the generation of the default branch
  op,       \* the command in progress, or the report of the last one
  cut,      \* history: pull requests of commands that were cut short
  commands, faults, outside

provider == <<pull, tip>>
bounds == <<commands, faults, outside>>
vars == <<provider, op, cut, bounds>>

-----------------------------------------------------------------------------
(* What one discovery derives (graph.rs).  A snapshot s has the pull       *)
(* requests and the default branch.                                        *)

Snapshot == [pull |-> pull, tip |-> tip]

Rev(s, b) == IF b = Default THEN s.tip ELSE s.pull[b].rev
Has(s, b) == IF b = Default THEN {} ELSE s.pull[b].has

Active(s) ==
  {p \in PRs : "caravan" \in s.pull[p].labels /\ "evicted" \notin s.pull[p].labels}

Children(s, p) == {c \in Active(s) : s.pull[c].base = p}

(* walk_linear: down from a member while there is exactly one child, which *)
(* no other walk has seen.                                                 *)
Walk(s, p, seen) ==
  LET walk[n \in 1 .. N] ==
        IF n = 1 THEN <<p>>
        ELSE LET so == walk[n - 1]
                 kids == Children(s, Last(so))
             IN  IF Cardinality(kids) = 1 /\ kids \cap (seen \cup ToSet(so)) = {}
                 THEN Append(so, CHOOSE c \in kids : TRUE) ELSE so
  IN  walk[N]

Heads(s) == {p \in Active(s) : s.pull[p].base \notin Active(s)}

(* The walks from the heads, then from what is left in number order.       *)
Caravans(s) ==
  LET upTo[n \in 0 .. N] ==
        IF n = 0 THEN {Walk(s, h, {}) : h \in Heads(s)}
        ELSE LET so == upTo[n - 1]
                 seen == UNION {ToSet(c) : c \in so}
             IN  so \cup (IF n \in Active(s) \ seen THEN {Walk(s, n, seen)} ELSE {})
  IN  upTo[N]

(* CaravanFleet::containing.                                               *)
Containing(s, p) == CHOOSE c \in Caravans(s) : Contains(c, p)

Position(s, p) == CHOOSE i \in DOMAIN Containing(s, p) : Containing(s, p)[i] = p

(* The pull requests behind p in its caravan, and the next one, if any.    *)
Behind(s, p) ==
  IF p \in Active(s)
  THEN SubSeq(Containing(s, p), Position(s, p) + 1, Len(Containing(s, p))) ELSE <<>>

(* auto_merge is armed on the root alone, and only for the provider.       *)
ArmedWrongly(s, c) ==
  {c[i] : i \in {j \in DOMAIN c : s.pull[c[j]].auto # (GithubActor /\ j = 1)}}

(* The problems, each at a pull request and with the others it names.  A   *)
(* cycle shows as members without a head.                                  *)
Problem(kind, p, others) == [kind |-> kind, pr |-> p, others |-> others]
Problems(s) ==
  LET caravans == Caravans(s) IN
  {Problem("active_and_evicted", p, {}) :
     p \in {q \in PRs : {"caravan", "evicted"} \subseteq s.pull[q].labels}}
  \cup {Problem("dangling_base", p, {s.pull[p].base}) :
     p \in {q \in Heads(s) : s.pull[q].base # Default}}
  \cup {Problem("branching", p, Children(s, p)) :
     p \in {q \in Active(s) : Cardinality(Children(s, q)) > 1}}
  \cup {Problem("missing_head", Head(c), ToSet(c)) :
     c \in {d \in caravans : Head(d) \notin Heads(s)}}
  \cup {Problem("auto_merge", p, {}) : p \in UNION {ArmedWrongly(s, c) : c \in caravans}}

-----------------------------------------------------------------------------
(* Steps of a plan and what they do to a pull request.                     *)

Step(do, p) == [do |-> do, pr |-> p, base |-> Default, label |-> "other", on |-> FALSE]
SetBase(p, b) == [Step("base", p) EXCEPT !.base = b]
AddLabel(p, l) == [Step("label", p) EXCEPT !.label = l]
RemoveLabel(p, l) == [Step("unlabel", p) EXCEPT !.label = l]
SetAuto(p, v) == [Step("auto", p) EXCEPT !.on = v]
Comment(p) == Step("comment", p)
Steps ==
  [do : {"base", "label", "unlabel", "auto", "comment"}, pr : PRs, base : 0 .. N,
   label : Label, on : BOOLEAN]

(* ensure_*: the step is skipped when the command believes it done.        *)
Satisfied(st, r) ==
  CASE st.do = "base" -> r.base = st.base
    [] st.do = "label" -> st.label \in r.labels
    [] st.do = "unlabel" -> st.label \notin r.labels
    [] st.do = "auto" -> r.auto = st.on
    [] st.do = "comment" -> FALSE

Effect(st, r) ==
  CASE st.do = "base" -> [r EXCEPT !.base = st.base, !.baseRev = Rev(Snapshot, st.base)]
    [] st.do = "label" -> [r EXCEPT !.labels = @ \cup {st.label}]
    [] st.do = "unlabel" -> [r EXCEPT !.labels = @ \ {st.label}]
    [] st.do = "auto" -> [r EXCEPT !.auto = st.on]
    [] st.do = "comment" -> r

(* The rest of a plan from its first step that is not satisfied.           *)
Todo(plan, cur) ==
  LET open == {i \in DOMAIN plan : ~Satisfied(plan[i], cur[plan[i].pr])}
  IN  IF open = {} THEN <<>>
      ELSE SubSeq(plan, CHOOSE i \in open : \A j \in open : i <= j, Len(plan))

(* rollback_membership_envelope: the inverse of one receipt.  The label is *)
(* the first that differs between the reads before and after the write, in *)
(* the order of their names.                                               *)
Inverses(d) ==
  LET p == d.step.pr IN
  CASE d.step.do = "base" -> {SetBase(p, d.before.base)}
    [] d.step.do = "label" ->
         {RemoveLabel(p, l) : l \in d.after.labels \ d.before.labels}
    [] d.step.do = "unlabel" ->
         {AddLabel(p, l) : l \in d.before.labels \ d.after.labels}
    [] d.step.do = "auto" -> {SetAuto(p, d.before.auto)}
    [] d.step.do = "comment" -> {}

-----------------------------------------------------------------------------
(* Init: a caravan of the first k pull requests, each rebased onto the one *)
(* before it; the others are open on the default branch.                   *)

Enrolled(k, p) ==
  [labels |-> {"caravan"}, base |-> p - 1, baseRev |-> 0,
   auto |-> GithubActor /\ p = 1, rev |-> 0, onto |-> <<p - 1, 0>>, has |-> 1 .. p]
Unqueued(p) ==
  [labels |-> IF p \in Skipped THEN {"skipped"} ELSE {}, base |-> Default, baseRev |-> 0,
   auto |-> FALSE, rev |-> 0, onto |-> <<Default, 0>>, has |-> {p}]

Blank == [pull |-> [p \in PRs |-> Unqueued(p)], tip |-> 0]

NoCommand ==
  [kind |-> "none", pr |-> 1, target |-> Default, pc |-> "idle", s |-> Blank,
   oid |-> 0, pushed |-> 0, plan |-> <<>>, cur |-> Blank.pull, done |-> <<>>,
   undo |-> FALSE, affects |-> {}, behind |-> <<>>, built |-> {}, report |-> "none",
   inheriting |-> {}, left |-> {}, lost |-> FALSE, blind |-> FALSE]

Init ==
  /\ \E k \in 0 .. N : pull = [p \in PRs |-> IF p <= k THEN Enrolled(k, p) ELSE Unqueued(p)]
  /\ tip = 0 /\ op = NoCommand /\ cut = {}
  /\ commands = 0 /\ faults = 0 /\ outside = 0

Idle == op.pc = "idle"
At(pc) == op.pc = pc
p0 == op.pr
IsJoin(kind) == kind \in {"join", "rejoin"}
IsRenewal(kind) == kind \in {"renew", "rejoin"}
IsMembership == op.kind \in {"new", "join", "renew", "rejoin"}

(* The command returns.  What it knew is forgotten; what it reports stays. *)
Return(report, inheriting) ==
  op' = [NoCommand EXCEPT !.kind = op.kind, !.pr = p0, !.target = op.target,
                          !.behind = op.behind, !.report = report,
                          !.inheriting = inheriting, !.left = op.left,
                          !.lost = op.lost, !.blind = op.blind]

(* A refusal before the first membership write.                            *)
Refuse == Return("refused", {}) /\ UNCHANGED <<provider, cut, bounds>>

-----------------------------------------------------------------------------
(* new, join, renew, rejoin up to their first membership write.            *)

(* validate_operation_shape.                                               *)
Shape(s, kind, p, t) ==
  LET labels == s.pull[p].labels IN
  /\ IF IsRenewal(kind) THEN labels \cap {"evicted", "caravan"} # {} ELSE "evicted" \notin labels
  /\ "caravan" \in labels => s.pull[p].base = t

(* preflight_eligibility: a resumed member may have the wrong auto-merge   *)
(* state; a candidate needs a fleet without problems.                      *)
Eligible(s, p) ==
  IF "caravan" \in s.pull[p].labels
  THEN Problems(s) \subseteq {Problem("auto_merge", p, {})}
  ELSE Problems(s) = {} /\ ~s.pull[p].auto

(* resolve_join_target: the target is a caravan's tail.                    *)
IsTail(s, t) == \E c \in Caravans(s) : Last(c) = t

RootOf(s, t) == Head(Containing(s, t))

(* require_current_join_root, and the same facts in revalidate_join_root.  *)
RootIsCurrent(s, r) == r.base = Default /\ (Physical => r.baseRev = s.tip)

Admit(kind, p, t) ==
  LET s == Snapshot IN
  /\ Idle /\ commands < MaxCommands
  /\ (~IsJoin(kind)) = (t = Default) /\ Shape(s, kind, p, t)
  /\ IsJoin(kind) => IsTail(s, t) /\ (Physical => RootIsCurrent(s, s.pull[RootOf(s, t)]))
  /\ Eligible(s, p)
  /\ op' = [NoCommand EXCEPT !.kind = kind, !.pr = p, !.target = t, !.affects = {p}, !.s = s,
                             !.oid = Rev(s, t),
                             !.pc = IF Physical THEN "reverify" ELSE "revalidate"]
  /\ commands' = commands + 1
  /\ UNCHANGED <<provider, cut, faults, outside>>

(* revalidate_join_root: the root is as it was discovered.                 *)
RootUnmoved ==
  IsJoin(op.kind) =>
    LET r == RootOf(op.s, op.target)
    IN  pull[r] = op.s.pull[r] /\ RootIsCurrent(op.s, pull[r])

(* revalidate_join_root and the reads of apply_prepared before its push.   *)
Reverify ==
  /\ At("reverify")
  /\ IF RootUnmoved /\ pull[p0].rev = op.s.pull[p0].rev /\ Rev(Snapshot, op.target) = op.oid
     THEN op' = [op EXCEPT !.pc = "push"] /\ UNCHANGED <<provider, cut, bounds>>
     ELSE Refuse

(* A head replayed onto a branch generation.  The range is everything that *)
(* the default branch does not have.                                       *)
Rewritten(r, t, has) ==
  [r EXCEPT !.rev = @ + 1, !.onto = t, !.has = has, !.baseRev = Rev(Snapshot, r.base)]

(* push_prepared: force-with-lease, unless the head is there already.      *)
PushHead ==
  /\ At("push")
  /\ LET r == pull[p0]
         t == <<op.target, op.oid>>
     IN  IF r.rev # op.s.pull[p0].rev /\ op.s.pull[p0].onto # t THEN Refuse
         ELSE /\ pull' = [pull EXCEPT ![p0] =
                    IF op.s.pull[p0].onto = t THEN r
                    ELSE Rewritten(r, t, Has(op.s, op.target) \cup r.has)]
              /\ op' = [op EXCEPT !.pc = "rediscover",
                                  !.pushed = IF op.s.pull[p0].onto = t THEN op.s.pull[p0].rev
                                             ELSE pull'[p0].rev]
              /\ UNCHANGED <<tip, cut, bounds>>

(* validate_post_rebase_target.                                            *)
TargetUnmoved(s) ==
  /\ s.pull[p0].rev = op.pushed
  /\ Rev(s, op.target) = op.oid
  /\ ~IsJoin(op.kind) => p0 \notin Active(s)

Rediscover ==
  LET s == Snapshot IN
  /\ At("rediscover")
  /\ IF /\ IsJoin(op.kind) => IsTail(s, op.target)
        /\ TargetUnmoved(s) /\ Shape(s, op.kind, p0, op.target) /\ Eligible(s, p0)
     THEN op' = [op EXCEPT !.pc = "revalidate", !.s = s] /\ UNCHANGED <<provider, cut, bounds>>
     ELSE Refuse

(* revalidate_join_target: beside the root, the tail and its parent.       *)
TailUnmoved ==
  IsJoin(op.kind) /\ Len(Containing(op.s, op.target)) > 1 =>
    LET c == Containing(op.s, op.target)
        parent == c[Len(c) - 1]
    IN  /\ pull[parent] = op.s.pull[parent] /\ pull[op.target] = op.s.pull[op.target]
        /\ pull[op.target].base = parent /\ pull[op.target].baseRev = pull[parent].rev

(* The envelope's writes, in order.                                        *)
AdmissionPlan(kind, p, t) ==
  <<SetBase(p, t), RemoveLabel(p, "skipped")>>
  \o (IF IsRenewal(kind) THEN <<RemoveLabel(p, "evicted")>> ELSE <<>>)
  \o <<AddLabel(p, "caravan"), SetAuto(p, ~IsJoin(kind) /\ GithubActor), Comment(p)>>

Execute(plan, s) ==
  op' = [op EXCEPT !.pc = "verify", !.s = s, !.cur = s.pull, !.plan = Todo(plan, s.pull)]

Revalidate ==
  /\ At("revalidate")
  /\ IF RootUnmoved /\ TailUnmoved
     THEN Execute(AdmissionPlan(op.kind, p0, op.target), op.s)
          /\ UNCHANGED <<provider, cut, bounds>>
     ELSE Refuse

-----------------------------------------------------------------------------
(* evict and split up to their first write.                                *)

(* plan_eviction.  An evicted pull request that is not active any more is  *)
(* an eviction to be resumed: its neighbours are found by branch name.     *)
Parent(s, p) ==
  IF p \in Active(s)
  THEN IF Position(s, p) = 1 THEN Default ELSE Containing(s, p)[Position(s, p) - 1]
  ELSE s.pull[p].base
Child(s, p) ==
  IF p \in Active(s) THEN (IF Behind(s, p) = <<>> THEN 0 ELSE Head(Behind(s, p)))
  ELSE IF Children(s, p) = {} THEN 0
  ELSE CHOOSE c \in Children(s, p) : \A d \in Children(s, p) : c <= d

(* The fleet after the command, as it is projected.                        *)
AfterEviction(s, p) ==
  LET c == Child(s, p)
      gone == [s EXCEPT !.pull[p].auto = FALSE, !.pull[p].labels = (@ \ {"caravan"}) \cup {"evicted"}]
  IN  IF c = 0 THEN gone
      ELSE [gone EXCEPT !.pull[c].base = Parent(s, p), !.pull[c].auto = GithubActor /\ Parent(s, p) = Default]
AfterSplit(s, p) ==
  [s EXCEPT !.pull[p].base = Default, !.pull[p].auto = GithubActor]

(* preflight_result: no new problem, unless the head is released.          *)
Introduces(s, v) == Problems(v) \ Problems(s) # {}

(* Mutant: the gap is not closed.                                          *)
EvictionPlanNoChild(s, p) ==
  <<SetAuto(p, FALSE), RemoveLabel(p, "caravan"), AddLabel(p, "evicted"), Comment(p)>>

(* A promoted child is armed only if nothing is left to repair.            *)
EvictionPlan(s, p) ==
  LET c == Child(s, p)
      armed == GithubActor /\ Parent(s, p) = Default /\ Problems(AfterEviction(s, p)) = {}
  IN  <<SetAuto(p, FALSE), RemoveLabel(p, "caravan"), AddLabel(p, "evicted")>>
      \o (IF c = 0 THEN <<>> ELSE <<SetBase(c, Parent(s, p)), SetAuto(c, armed)>>)
      \o <<Comment(p)>>

Reshape(kind, p, plan, affects, behind) ==
  LET s == Snapshot IN
  /\ op' = [NoCommand EXCEPT !.kind = kind, !.pr = p, !.target = Parent(s, p), !.pc = "verify",
                             !.s = s, !.cur = s.pull, !.plan = Todo(plan, s.pull),
                             !.affects = affects, !.behind = behind]
  /\ commands' = commands + 1
  /\ UNCHANGED <<provider, cut, faults, outside>>

Evict(p) ==
  LET s == Snapshot IN
  /\ Idle /\ commands < MaxCommands
  /\ p \in Active(s) \/ s.pull[p].labels \cap {"evicted", "caravan"} = {"evicted"}
  /\ Introduces(s, AfterEviction(s, p)) => Parent(s, p) = Default
  /\ Reshape("evict", p, EvictionPlan(s, p), {p, Child(s, p)} \ {0}, Behind(s, p))

(* plan_split refuses a head that is complete.                             *)
AlreadyHead(s, p) ==
  /\ Position(s, p) = 1
  /\ IF GithubActor THEN s.pull[p].auto ELSE s.pull[p].base = Default /\ s.pull[p].baseRev = s.tip

Split(p) ==
  LET s == Snapshot IN
  /\ Idle /\ commands < MaxCommands
  /\ p \in Active(s) /\ ~AlreadyHead(s, p)
  /\ ~Introduces(s, AfterSplit(s, p))
  /\ Reshape("split", p, <<SetBase(p, Default), SetAuto(p, GithubActor)>>, {p}, <<>>)

-----------------------------------------------------------------------------
(* Executing a plan, and undoing it.                                       *)

Current == Head(op.plan)

Token(st) == IF st.do \in {"label", "unlabel"} THEN st.label ELSE st.do

(* The command returns in the middle of its work.                          *)
CutShort(report) == Return(report, {}) /\ cut' = cut \cup op.affects \cup ToSet(op.behind)

(* A step fails.  Membership undoes its receipts, newest first; a reshape, *)
(* or an undo that fails, leaves things as they are.                       *)
Fail(lost) ==
  IF IsMembership /\ ~op.undo
  THEN /\ op' = [op EXCEPT !.pc = "undo", !.undo = TRUE, !.plan = <<>>, !.lost = lost,
                           !.left = IF lost THEN @ \cup {Token(Current)} ELSE @]
       /\ UNCHANGED cut
  ELSE CutShort(IF IsMembership THEN "indeterminate" ELSE "failed")

(* verify_precondition.                                                    *)
Verify ==
  /\ At("verify") /\ op.plan # <<>>
  /\ UNCHANGED <<provider, bounds>>
  /\ IF pull[Current.pr] = op.cur[Current.pr]
     THEN op' = [op EXCEPT !.pc = "write"] /\ UNCHANGED cut
     ELSE Fail(FALSE)

(* The write and the read of its result, which becomes the receipt.        *)
Write ==
  LET p == Current.pr IN
  /\ At("write")
  /\ pull' = [pull EXCEPT ![p] = Effect(Current, @)]
  /\ LET cur == [op.cur EXCEPT ![p] = pull'[p]]
         seen == [op EXCEPT !.cur = cur, !.blind = @ \/ pull[p] # op.cur[p]]
     IN  op' =
           IF op.undo
           THEN [seen EXCEPT !.pc = "undo", !.plan = <<>>, !.left = @ \ {Token(Current)}]
           ELSE [seen EXCEPT !.pc = "verify", !.plan = Todo(Tail(@), cur),
                             !.left = IF Current.do = "comment" THEN @ ELSE @ \cup {Token(Current)},
                             !.done = Append(@, [step |-> Current, before |-> op.cur[p],
                                                 after |-> pull'[p]])]
  /\ UNCHANGED <<tip, cut, bounds>>

(* The write fails, or it takes effect and its answer is lost.             *)
WriteFails ==
  /\ At("write") /\ faults < MaxFaults /\ faults' = faults + 1
  /\ \E lost \in BOOLEAN :
       /\ pull' = IF lost THEN [pull EXCEPT ![Current.pr] = Effect(Current, @)] ELSE pull
       /\ Fail(lost)
  /\ UNCHANGED <<tip, commands, outside>>

(* The next receipt to be undone.                                          *)
Undo ==
  /\ At("undo") /\ op.done # <<>>
  /\ LET inverses == Inverses(Last(op.done))
         rest == [op EXCEPT !.done = Front(@)]
     IN  IF inverses = {} THEN op' = rest
         ELSE \E st \in inverses : op' = [rest EXCEPT !.pc = "verify", !.plan = <<st>>]
  /\ UNCHANGED <<provider, cut, bounds>>

(* membership_envelope_rolled_back.                                        *)
RolledBack ==
  /\ At("undo") /\ op.done = <<>> /\ Return("rolled_back", {})
  /\ cut' = IF op.lost \/ op.blind THEN cut \cup op.affects ELSE cut
  /\ UNCHANGED <<provider, bounds>>

(* build_join_receipt: with physical rewrites, exact ancestry and durable  *)
(* membership, against the predecessor of the first discovery.             *)
Durable(r) ==
  Physical => /\ r.rev = op.pushed /\ "caravan" \in r.labels
              /\ r.base = op.target /\ r.baseRev = op.oid

FinishMembership ==
  /\ At("verify") /\ op.plan = <<>> /\ IsMembership
  /\ Return(IF Durable(op.cur[p0]) THEN "enrolled" ELSE "incomplete", {})
  /\ UNCHANGED <<provider, cut, bounds>>

-----------------------------------------------------------------------------
(* unwind_descendants: after an eviction that releases no head, replay the *)
(* pull requests behind it without its commits.                            *)

Unwinds == op.kind = "evict" /\ Physical /\ op.behind # <<>> /\ op.target # Default

FinishReshape ==
  /\ At("verify") /\ op.plan = <<>> /\ ~IsMembership /\ ~Unwinds
  /\ Return(IF op.kind = "evict" THEN "evicted" ELSE "split", ToSet(op.behind))
  /\ UNCHANGED <<provider, cut, bounds>>

(* The one that the i-th of them was stacked on.                           *)
Predecessor(i) == IF i = 1 THEN p0 ELSE op.behind[i - 1]

(* Every rewrite is prepared, from branches that are where the discovery   *)
(* and the provider's base records say, and verified before any is         *)
(* published.                                                              *)
VerifyUnwind ==
  /\ At("verify") /\ op.plan = <<>> /\ Unwinds
  /\ UNCHANGED <<provider, bounds>>
  /\ IF /\ tip = op.s.tip /\ Rev(Snapshot, op.target) = Rev(op.s, op.target)
        /\ \A i \in DOMAIN op.behind :
             /\ pull[op.behind[i]].rev = op.s.pull[op.behind[i]].rev
             /\ pull[Predecessor(i)].rev = op.s.pull[op.behind[i]].baseRev
     THEN /\ op' = [op EXCEPT !.pc = "unwind", !.oid = Rev(op.s, op.target),
                              !.built = Has(op.s, op.target)]
          /\ UNCHANGED cut
     ELSE CutShort("failed")

(* The boundary of a replay is the old head of the one before.             *)
Unwound(d, boundary) == op.built \cup (op.s.pull[d].has \ op.s.pull[boundary].has)

(* apply_prepared for the i-th of them; pushed counts those published.     *)
Unwind ==
  LET i == op.pushed + 1
      d == op.behind[i]
      onto == IF i = 1 THEN op.target ELSE op.behind[i - 1]
  IN
  /\ At("unwind") /\ i <= Len(op.behind)
  /\ IF /\ pull[d].rev = op.s.pull[d].rev /\ Rev(Snapshot, onto) = op.oid
        /\ i = 1 => pull[p0].rev = op.s.pull[d].baseRev
     THEN /\ pull' = [pull EXCEPT ![d] =
                         Rewritten(@, <<onto, op.oid>>, Unwound(d, Predecessor(i)))]
          /\ op' = [op EXCEPT !.pushed = i, !.oid = pull'[d].rev, !.built = pull'[d].has]
          /\ UNCHANGED <<tip, cut, bounds>>
     ELSE CutShort("failed") /\ UNCHANGED <<provider, bounds>>

FinishUnwind ==
  /\ At("unwind") /\ op.pushed = Len(op.behind) /\ Return("evicted", {})
  /\ UNCHANGED <<provider, cut, bounds>>

-----------------------------------------------------------------------------
(* The process dies, or a read or a push fails, which ends the command     *)
(* with an error.                                                          *)
Die ==
  /\ ~Idle /\ faults < MaxFaults /\ faults' = faults + 1
  /\ IF op.pc \in {"verify", "write", "undo", "unwind"} THEN CutShort("died")
     ELSE Return("died", {}) /\ UNCHANGED cut
  /\ UNCHANGED <<provider, commands, outside>>

Outside ==
  /\ outside < MaxOutside /\ outside' = outside + 1
  /\ UNCHANGED <<op, cut, commands, faults>>

(* An author pushes; a person labels, or takes a label away.               *)
AuthorPush(p) ==
  /\ pull' = [pull EXCEPT ![p].rev = @ + 1, ![p].baseRev = Rev(Snapshot, pull[p].base)]
  /\ UNCHANGED tip /\ Outside
PersonLabels(p) ==
  /\ pull' = [pull EXCEPT ![p].labels =
                IF "other" \in @ THEN @ \ {"other"} ELSE @ \cup {"other"}]
  /\ UNCHANGED tip /\ Outside
DefaultAdvances == tip' = tip + 1 /\ UNCHANGED pull /\ Outside

Next ==
  \/ Idle /\ \E kind \in {"new", "join", "renew", "rejoin"}, p \in PRs, t \in 0 .. N : Admit(kind, p, t)
  \/ Reverify \/ PushHead \/ Rediscover \/ Revalidate
  \/ \E p \in PRs : Evict(p) \/ Split(p)
  \/ Verify \/ Write \/ WriteFails \/ Undo \/ RolledBack
  \/ FinishMembership \/ FinishReshape \/ VerifyUnwind \/ Unwind \/ FinishUnwind
  \/ Die
  \/ \E p \in PRs : AuthorPush(p) \/ PersonLabels(p)
  \/ DefaultAdvances

Spec == Init /\ [][Next]_vars

-----------------------------------------------------------------------------
(* The shape of the state; a write always has a step to execute.           *)
TypeOK ==
  /\ pull \in [PRs -> PullRequest] /\ tip \in Nat
  /\ op.pc \in {"idle", "reverify", "push", "rediscover", "revalidate", "verify", "write",
                "undo", "unwind"}
  /\ op.plan \in Seq(Steps) /\ (op.pc = "write" => op.plan # <<>>)
  /\ op.cur \in [PRs -> PullRequest] /\ cut \subseteq PRs
  /\ commands \in 0 .. MaxCommands /\ faults \in 0 .. MaxFaults /\ outside \in 0 .. MaxOutside

(* Between commands the labelled pull requests form chains below the       *)
(* default branch, with auto-merge where it belongs, whatever refusals and *)
(* rollbacks went before.  A graph problem names a pull request of a       *)
(* command that was cut short, or a head that an eviction released and     *)
(* left disarmed because such a problem survived.                          *)
ChainsBetweenCommands ==
  Idle => \A q \in Problems(Snapshot) :
    \/ q.pr \in cut
    \/ q.kind = "auto_merge" /\ ~pull[q.pr].auto /\ cut # {}

(* "every completed base/label/auto-merge step was rolled back": after     *)
(* that report no write of the command is left, unless an answer was lost  *)
(* or somebody changed the pull request between a check and its write.     *)
RolledBackUndone ==
  op.report = "rolled_back" /\ ~op.lost /\ ~op.blind => op.left = {}

(* With physical rewrites a member always has its predecessor's patch, at  *)
(* every step of every command and wherever one dies.                      *)
CarriesPredecessor ==
  Physical => \A p \in Active(Snapshot) :
    pull[p].base \in Active(Snapshot) => pull[p].base \in pull[p].has

(* The chains of the fleet, in the graph between commands and in what the  *)
(* heads contain at every step.                                            *)
ChainSound == ChainsBetweenCommands /\ CarriesPredecessor

(* An eviction that succeeds names every pull request behind it that still *)
(* has the evicted patch, unless an earlier eviction was cut short or the  *)
(* predecessor has the patch itself.                                       *)
EvictionReported ==
  op.report = "evicted" /\ p0 \notin cut /\ p0 \notin Has(Snapshot, op.target) =>
    \A d \in ToSet(op.behind) : p0 \in pull[d].has => d \in op.inheriting

(* What a command may report: rolled back only with nothing left behind,   *)
(* evicted only with every pull request named that keeps the patch.        *)
ReportSound == TypeOK /\ RolledBackUndone /\ EvictionReported

=============================================================================
