------------------------------ MODULE RootMerge ------------------------------
(***************************************************************************)
(* One caravan under the caravan-owned merge actor (src/src/sync.rs):      *)
(* a bounded sync tick discovers the chain, lands a green root first,      *)
(* otherwise rebases every member physically under exact leases,           *)
(* rediscovers, promotes the root to the default branch and drains.        *)
(*                                                                         *)
(* Content is a set of patches: a patch <<i, v>> is the v-th commit of     *)
(* pull request i, <<0, k>> somebody else's.  The default branch is the    *)
(* sequence of its trees, so an index of it is a commit.  A head stands    *)
(* on commit `on` of the default branch and adds `commits`; patches never  *)
(* conflict, which leaves merging a union.                                 *)
(***************************************************************************)
EXTENDS Integers, Sequences, FiniteSets, FiniteSetsExt

CONSTANTS N,               \* members of the chain, 1 the first to land
          MaxVersion,      \* commits one author puts on a branch
          MaxOutside,      \* events outside the tick
          MaxFaults,       \* killed or failing ticks
          MaxDisturbances, \* of both together
          MaxRootMerges    \* max_root_merges_per_tick

ASSUME BoundsAssumption ==
    /\ N \in Nat \ {0} /\ MaxVersion \in Nat \ {0} /\ MaxRootMerges \in Nat \ {0}
    /\ MaxOutside \in Nat /\ MaxFaults \in Nat /\ MaxDisturbances \in Nat

VARIABLES
    default,   \* trees of the default branch, oldest first
    pr,        \* the provider's pull requests
    ver,       \* commits each author has published
    tick,      \* the running tick, or Idle
    verdict,   \* how the last tick ended
    last,      \* the last landing Cara performed
    outside, faults

vars == <<default, pr, ver, tick, verdict, last, outside, faults>>

Pr == 1 .. N
Default == 0                       \* a base: the default branch, or a PR's branch
Patch == (0 .. N) \X (1 .. (MaxVersion + MaxOutside))
Own(i) == {p \in Patch : p[1] = i}
Tip == Len(default)

Open(p) == {i \in Pr : p[i].state = "open"}
\* The caravan's head: the first open member of the chain.
Root(p) == Min(Open(p))

Tree(h) == default[h.on] \cup h.commits
\* The three-way merge of a head into commit t of the default branch.
MergeTree(h, t) == default[t] \cup h.commits
\* cumulative_tree_proof: identical, and the target is an ancestor.
Identical(h, t) == MergeTree(h, t) = Tree(h)
Reachable(h, t) == h.on = t

NoHead == [on |-> 1, commits |-> {}]
NoPr == [state |-> "open", base |-> Default, head |-> NoHead, ci |-> "pending"]
Idle == [pc |-> "idle", mode |-> "first", snap |-> [i \in Pr |-> NoPr], tip |-> 0,
         cur |-> [i \in Pr |-> NoPr], root |-> 1, obs |-> 0, landed |-> 0, count |-> 0,
         plan |-> [i \in Pr |-> NoHead], upto |-> 0, deferred |-> FALSE]

\* An admitted chain: every member physically rebased on its predecessor.
Init ==
    /\ default = <<{}>>
    /\ pr = [i \in Pr |-> [state |-> "open", base |-> i - 1, ci |-> "pending",
                           head |-> [on |-> 1, commits |-> {<<j, 1>> : j \in 1 .. i}]]]
    /\ ver = [i \in Pr |-> 1]
    /\ tick = Idle
    /\ verdict = "none"
    /\ last = [pr |-> 0, head |-> NoHead, before |-> 0, obs |-> 0, green |-> FALSE]
    /\ outside = 0 /\ faults = 0

-----------------------------------------------------------------------------
(* The tick ends: it returns, or fails and leaves the rest to the next one. *)

End(kind) == tick' = Idle /\ verdict' = kind

\* read_exact_root_generation: the fresh read agrees with the tick's facts;
\* only a base that became the default branch counts as convergence.
ReadExact(i) ==
    /\ pr[i].state = tick.cur[i].state /\ pr[i].head = tick.cur[i].head
    /\ pr[i].base \in {Default, tick.cur[i].base}
\* verify_precondition: state, head and base, and with checks the CI too.
Exact(i) == [pr[i] EXCEPT !.ci = tick.cur[i].ci] = tick.cur[i]
ExactWithChecks(i) == pr[i] = tick.cur[i]

\* root_first_eligible
RootFirstEligible(i) ==
    pr[i].base = Default /\ pr[i].ci = "pass" /\ Identical(pr[i].head, Tip)

Discover ==
    /\ tick.pc = "idle" /\ Open(pr) # {}
    /\ tick' = [Idle EXCEPT !.pc = IF RootFirstEligible(Root(pr)) THEN "first" ELSE "plan",
                            !.snap = pr, !.cur = pr, !.tip = Tip, !.root = Root(pr)]
    /\ UNCHANGED <<default, pr, ver, verdict, last, outside, faults>>

\* execute_root_first up to merge_root: promotion has nothing to write since
\* the base is the default branch already; a root that is no longer green
\* falls back to planning from the discovered facts.
RootFirst ==
    /\ tick.pc = "first"
    /\ \/ /\ ReadExact(tick.root)
          /\ tick' = IF pr[tick.root].ci = "pass"
                       THEN [tick EXCEPT !.pc = "read", !.cur[tick.root] = pr[tick.root]]
                       ELSE [tick EXCEPT !.pc = "plan", !.cur = tick.snap]
          /\ UNCHANGED verdict
       \/ ~ReadExact(tick.root) /\ End("stale")
    /\ UNCHANGED <<default, pr, ver, last, outside, faults>>

-----------------------------------------------------------------------------
(* Physical rebase.                                                         *)

\* What `git rebase --onto tip tip head` keeps: not what the tip has already,
\* and not a commit some newer default commit repeats as a patch.
Replay(h, t) ==
    {p \in h.commits : /\ p \notin default[t]
                       /\ \A k \in (h.on + 1) .. t : default[k] \ default[k - 1] # {p}}
\* Mutant: the root's head is reused although the default branch advanced.
PlanRootReused(h, t) == h
PlanRoot(h, t) == IF Reachable(h, t) THEN h ELSE [on |-> t, commits |-> Replay(h, t)]

\* A child keeps its own commits and moves to its predecessor's planned head,
\* unless that is an ancestor already.
PlanChild(i, h, target) ==
    IF h.on = target.on /\ target.commits \subseteq h.commits THEN h
    ELSE [on |-> target.on, commits |-> target.commits \cup (h.commits \cap Own(i))]

\* The head planned for member i of the snapshot, after its predecessor's.
PlanAt(i, plan) ==
    IF i \notin Open(tick.snap) THEN NoHead
    ELSE IF i = Root(tick.snap) THEN PlanRoot(tick.snap[i].head, tick.tip)
    ELSE PlanChild(i, tick.snap[i].head, plan[i - 1])
Plans == LET plan[i \in Pr] == PlanAt(i, plan) IN plan

\* The global write barrier: the default tip and every member are still the
\* discovered ones.
WriteBarrier == Tip = tick.tip /\ \A i \in Open(tick.snap) : Exact(i)
\* The remaining time admits the complete graph, or a prefix that writes at
\* least one member and defers convergence.
Admitted(upto, deferred) ==
    IF deferred THEN \E i \in Open(tick.snap) : i <= upto /\ Plans[i] # tick.snap[i].head
                ELSE upto = N

Plan ==
    /\ tick.pc = "plan"
    /\ \/ /\ WriteBarrier
          /\ \E upto \in Open(tick.snap), deferred \in BOOLEAN :
                /\ Admitted(upto, deferred)
                /\ tick' = [tick EXCEPT !.pc = "push", !.plan = Plans, !.root = Root(tick.snap),
                                        !.upto = upto, !.deferred = deferred]
          /\ UNCHANGED verdict
       \/ ~WriteBarrier /\ End("stale")
    /\ UNCHANGED <<default, pr, ver, last, outside, faults>>

\* apply_prepared_after_write_barrier: the target branch is where the plan put
\* it; then the push, which the remote refuses unless the branch still is the
\* discovered head.  (Moving the target between the two commutes with the
\* push.)
TargetCurrent(i) == IF i = Root(tick.snap) THEN Tip = tick.tip
                    ELSE pr[i - 1].head = tick.plan[i - 1]
\* Mutant: a forced push without lease.
Unleased(i) == TRUE
Leased(i) == pr[i].head = tick.snap[i].head

Push ==
    /\ tick.pc = "push"
    /\ LET i == tick.root
           satisfied == tick.plan[i] = tick.snap[i].head IN
       \/ /\ TargetCurrent(i) /\ (satisfied \/ Leased(i))
          /\ pr' = IF satisfied THEN pr
                   ELSE [pr EXCEPT ![i].head = tick.plan[i], ![i].ci = "pending"]
          /\ tick' = IF i = tick.upto THEN [tick EXCEPT !.pc = "mid"]
                                      ELSE [tick EXCEPT !.root = i + 1]
          /\ UNCHANGED verdict
       \/ ~(TargetCurrent(i) /\ (satisfied \/ Leased(i))) /\ End("stale") /\ UNCHANGED pr
    /\ UNCHANGED <<default, ver, last, outside, faults>>

\* Midpoint rediscovery: every pushed generation is the provider's; a prefix
\* apply stops here.
Midpoint ==
    /\ tick.pc = "mid"
    /\ LET seen == \A i \in Open(tick.snap) : i <= tick.upto => pr[i].head = tick.plan[i] IN
       \/ /\ seen /\ ~tick.deferred /\ Open(pr) # {}
          /\ tick' = [Idle EXCEPT !.pc = "promote", !.mode = "drain", !.snap = pr, !.cur = pr,
                                  !.tip = Tip, !.root = Root(pr)]
          /\ UNCHANGED verdict
       \/ seen /\ (tick.deferred \/ Open(pr) = {}) /\ End("deferred")
       \/ ~seen /\ End("stale")
    /\ UNCHANGED <<default, pr, ver, last, outside, faults>>

-----------------------------------------------------------------------------
(* Promotion and CI.                                                        *)

\* promote_root: retarget to the default branch unless it is there.
Promote ==
    /\ tick.pc = "promote"
    /\ LET i == tick.root IN
       \/ /\ ReadExact(i)
          /\ pr' = [pr EXCEPT ![i].base = Default]
          /\ tick' = [tick EXCEPT !.cur[i] = pr'[i],
                                  !.pc = IF pr[i].base = Default THEN "ci" ELSE "promoted"]
          /\ UNCHANGED verdict
       \/ ~ReadExact(i) /\ End("stale") /\ UNCHANGED pr
    /\ UNCHANGED <<default, ver, last, outside, faults>>

\* ... and proves base and head after the write.
PromoteConfirm ==
    /\ tick.pc = "promoted"
    /\ LET i == tick.root IN
       \/ /\ pr[i].head = tick.cur[i].head
          /\ tick' = [tick EXCEPT !.pc = "ci", !.cur[i] = pr[i]]
          /\ UNCHANGED verdict
       \/ pr[i].head # tick.cur[i].head /\ End("stale")
    /\ UNCHANGED <<default, pr, ver, last, outside, faults>>

\* reconcile_caravan observes every member before the first landing, the drain
\* loop the successor only, and then looks at the merge allowance.
ObserveCi ==
    /\ tick.pc = "ci"
    /\ LET read == IF tick.count = 0 THEN Open(tick.snap) ELSE {tick.root}
           exact == \A i \in read : Exact(i)
           failed == tick.count = 0 /\ \E i \in read : pr[i].ci = "fail" IN
       \/ /\ exact /\ ~failed /\ tick.count < MaxRootMerges
          /\ tick' = [tick EXCEPT !.pc = "read",
                                  !.cur = [i \in Pr |-> IF i \in read THEN pr[i] ELSE @[i]]]
          /\ UNCHANGED verdict
       \/ exact /\ failed /\ End("failed")
       \/ exact /\ ~failed /\ tick.count >= MaxRootMerges /\ End("allowance")
       \/ ~exact /\ End("stale")
    /\ UNCHANGED <<default, pr, ver, last, outside, faults>>

-----------------------------------------------------------------------------
(* merge_root.                                                              *)

ReadRoot ==
    /\ tick.pc = "read"
    /\ \/ /\ ReadExact(tick.root)
          /\ tick' = [tick EXCEPT !.pc = "tip", !.cur[tick.root] = pr[tick.root]]
          /\ UNCHANGED verdict
       \/ ~ReadExact(tick.root) /\ End("stale")
    /\ UNCHANGED <<default, pr, ver, last, outside, faults>>

ReadTip ==
    /\ tick.pc = "tip"
    /\ tick' = [tick EXCEPT !.pc = "gate", !.obs = Tip]
    /\ UNCHANGED <<default, pr, ver, verdict, last, outside, faults>>

\* A cumulative-tree proof exists for the caravan head of the snapshot against
\* the discovered default tip, and for nothing else.
Proven == /\ tick.root = Root(tick.snap)
          /\ tick.cur[tick.root].head = tick.snap[tick.root].head
          /\ tick.obs = tick.tip
\* Mutant: tree identity alone authorizes the landing.
RetainedAlways == TRUE
RetainedPatchSetHolds ==
    Reachable(tick.cur[tick.root].head, tick.obs) \/ (tick.landed # 0 /\ tick.landed = tick.obs)

\* The verdict of the merge gate, in the order of its checks.
Decision ==
    LET p == tick.cur[tick.root] IN
    CASE p.base # Default -> "refused"
      [] p.base = Default /\ p.ci # "pass" -> "waiting"
      [] p.base = Default /\ p.ci = "pass" /\ ~Proven -> "unproven"
      [] OTHER -> IF ~Identical(p.head, tick.obs) THEN "changed"
                  ELSE IF ~RetainedPatchSetHolds THEN "diverged" ELSE "eligible"

\* A root-first pass that only waits falls back to planning; a refusal fails
\* the tick in either mode.
Gate ==
    /\ tick.pc = "gate"
    /\ \/ Decision = "eligible" /\ tick' = [tick EXCEPT !.pc = "audit"] /\ UNCHANGED verdict
       \/ /\ Decision \in {"waiting", "unproven", "changed"} /\ tick.mode = "first"
          /\ tick' = [tick EXCEPT !.pc = "plan", !.cur = tick.snap, !.obs = 0]
          /\ UNCHANGED verdict
       \/ /\ Decision # "eligible"
          /\ Decision \in {"refused", "diverged"} \/ tick.mode = "drain"
          /\ End(Decision)
    /\ UNCHANGED <<default, pr, ver, last, outside, faults>>

\* The audit comment is posted; the pull request with its checks is read again.
Audit ==
    /\ tick.pc = "audit"
    /\ \/ ExactWithChecks(tick.root) /\ tick' = [tick EXCEPT !.pc = "verify"] /\ UNCHANGED verdict
       \/ ~ExactWithChecks(tick.root) /\ End("stale")
    /\ UNCHANGED <<default, pr, ver, last, outside, faults>>

\* verify_branch_head, then the precondition squash_merge verifies itself.
VerifyDefault ==
    /\ tick.pc = "verify"
    /\ \/ /\ Tip = tick.obs /\ Exact(tick.root)
          /\ tick' = [tick EXCEPT !.pc = "send"] /\ UNCHANGED verdict
       \/ ~(Tip = tick.obs /\ Exact(tick.root)) /\ End("stale")
    /\ UNCHANGED <<default, pr, ver, last, outside, faults>>

Land(i) ==
    /\ default' = Append(default, MergeTree(pr[i].head, Tip))
    /\ pr' = [pr EXCEPT ![i].state = "merged"]

\* `gh pr merge --squash --match-head-commit`: the head is fenced, the default
\* branch is not.
SquashMerge ==
    /\ tick.pc = "send"
    /\ LET i == tick.root
           accepted == pr[i].state = "open" /\ pr[i].head = tick.cur[i].head IN
       \/ /\ accepted /\ Land(i)
          /\ last' = [pr |-> i, head |-> pr[i].head, before |-> Tip, obs |-> tick.obs,
                      green |-> pr[i].ci = "pass"]
          /\ tick' = [tick EXCEPT !.pc = "confirm"]
          /\ UNCHANGED verdict
       \/ ~accepted /\ End("stale") /\ UNCHANGED <<default, pr, last>>
    /\ UNCHANGED <<ver, outside, faults>>

\* drain_caravan_roots: the successor is the next root, and the default tip
\* read now is the generation this tick has landed.
DrainNext(rest) ==
    [tick EXCEPT !.pc = "promote", !.root = Min(rest), !.landed = Tip, !.count = @ + 1, !.obs = 0]

\* The landing is confirmed against a fresh default tip.  Root-first returns;
\* the drain loop goes on with the next member.
Confirm ==
    /\ tick.pc = "confirm"
    /\ LET rest == {j \in Open(tick.snap) : j > tick.root} IN
       \/ tick.mode = "drain" /\ rest # {} /\ tick' = DrainNext(rest) /\ UNCHANGED verdict
       \/ (tick.mode = "first" \/ rest = {}) /\ End("landed")
    /\ UNCHANGED <<default, pr, ver, last, outside, faults>>

-----------------------------------------------------------------------------
(* The rest of the world.                                                   *)

\* The process is killed, a provider call fails or the deadline passes.
Abort ==
    /\ tick.pc # "idle" /\ faults < MaxFaults /\ outside + faults < MaxDisturbances
    /\ End("stale") /\ faults' = faults + 1
    /\ UNCHANGED <<default, pr, ver, last, outside>>

Outside == outside < MaxOutside /\ outside + faults < MaxDisturbances /\ outside' = outside + 1
SetCi(i, s) == pr' = [pr EXCEPT ![i].ci = s]

CiPass(i) == /\ pr[i].state = "open" /\ pr[i].ci = "pending" /\ SetCi(i, "pass")
             /\ UNCHANGED <<default, ver, tick, verdict, last, outside, faults>>
CiFail(i) == /\ Outside /\ pr[i].state = "open" /\ pr[i].ci = "pending" /\ SetCi(i, "fail")
             /\ UNCHANGED <<default, ver, tick, verdict, last, faults>>
Rerun(i) == /\ pr[i].state = "open" /\ pr[i].ci = "fail" /\ SetCi(i, "pending")
            /\ UNCHANGED <<default, ver, tick, verdict, last, outside, faults>>

\* The author adds a commit to the branch as it is.
AuthorPush(i) ==
    /\ Outside /\ pr[i].state = "open" /\ ver[i] < MaxVersion
    /\ ver' = [ver EXCEPT ![i] = @ + 1]
    /\ pr' = [pr EXCEPT ![i].head.commits = @ \cup {<<i, ver[i] + 1>>}, ![i].ci = "pending"]
    /\ UNCHANGED <<default, tick, verdict, last, faults>>

OtherLanding ==
    /\ Outside
    /\ default' = Append(default, default[Tip] \cup {<<0, outside + 1>>})
    /\ UNCHANGED <<pr, ver, tick, verdict, last, faults>>

\* An operator reverts what pull request j landed.
Revert(j) ==
    /\ Outside /\ pr[j].state = "merged" /\ Own(j) \cap default[Tip] # {}
    /\ default' = Append(default, default[Tip] \ Own(j))
    /\ UNCHANGED <<pr, ver, tick, verdict, last, faults>>

\* Somebody merges the root by hand.
ManualMerge(i) ==
    /\ Outside /\ pr[i].state = "open" /\ pr[i].base = Default /\ Land(i)
    /\ UNCHANGED <<ver, tick, verdict, last, faults>>

\* The branch of merged j is deleted: the provider retargets its child.
BranchDeleted(j) ==
    /\ pr[j].state = "merged" /\ \E i \in Open(pr) : pr[i].base = j
    /\ pr' = [i \in Pr |-> IF pr[i].state = "open" /\ pr[i].base = j
                             THEN [pr[i] EXCEPT !.base = Default] ELSE pr[i]]
    /\ UNCHANGED <<default, ver, tick, verdict, last, outside, faults>>

-----------------------------------------------------------------------------
TickStep == \/ Discover \/ RootFirst \/ Plan \/ Push \/ Midpoint \/ Promote \/ PromoteConfirm
            \/ ObserveCi \/ ReadRoot \/ ReadTip \/ Gate \/ Audit \/ VerifyDefault \/ SquashMerge
            \/ Confirm
Environment == \/ Abort \/ OtherLanding
               \/ \E i \in Pr : \/ CiPass(i) \/ CiFail(i) \/ Rerun(i) \/ AuthorPush(i)
                                \/ Revert(i) \/ ManualMerge(i) \/ BranchDeleted(i)
Next == TickStep \/ Environment

\* Ticks are scheduled again and again and run to their end; CI finishes and
\* a failed run is started again.
Fairness == /\ WF_vars(TickStep)
            /\ \A i \in Pr : WF_vars(CiPass(i)) /\ WF_vars(Rerun(i))
Spec == Init /\ [][Next]_vars
FairSpec == Spec /\ Fairness

-----------------------------------------------------------------------------
(* Properties.                                                              *)

HeadType == [on : 1 .. Tip, commits : SUBSET Patch]
PrType(i) == [state : {"open", "merged"}, base : 0 .. (i - 1), head : HeadType,
              ci : {"pending", "pass", "fail"}]
\* Every variable has its type; a pull request is based on the default branch
\* or on the branch of an earlier member.
TypeOK ==
    /\ default \in Seq(SUBSET Patch) /\ default # <<>>
    /\ \A i \in Pr : pr[i] \in PrType(i) /\ ver[i] \in 1 .. MaxVersion
    /\ \A i \in Pr : {tick.snap[i], tick.cur[i]} \subseteq PrType(i) /\ tick.plan[i] \in HeadType
    /\ tick.root \in Pr /\ tick.count \in 0 .. MaxRootMerges
    /\ {tick.tip, tick.obs, tick.landed} \subseteq 0 .. Tip
    /\ outside \in 0 .. MaxOutside /\ faults \in 0 .. MaxFaults

\* Every commit an author published is still in the pull request's head, also
\* in the head that was merged: the leased pushes of a plan that was made from
\* older facts never overwrite one (apply_prepared_after_write_barrier).
AuthorWorkKept == \A i \in Pr : {<<i, v>> : v \in 1 .. ver[i]} \subseteq pr[i].head.commits

\* A landing lands a head CI has passed; and if the default branch has not
\* moved between the last verification and the merge, what lands is exactly
\* that head's tree (merge_root, cumulative_tree_proof).
ValidatedUnlessRaced ==
    last.pr # 0 =>
        /\ last.green
        /\ last.before = last.obs => default[last.before + 1] = Tree(last.head)

\* What the last landing brought back of other pull requests' content.
Reintroduced == IF last.pr = 0 THEN {}
                ELSE (default[last.before + 1] \ default[last.before]) \ Own(last.pr)
\* A landing brings a reverted patch back only if its head was rebuilt on top
\* of the revert: retained_patch_set_holds refuses every head that is older
\* than the revert, whatever happens during the tick.
RevertFenced ==
    \A p \in Reintroduced, k \in 2 .. last.before :
        p \in default[k - 1] \ default[k] => k <= last.head.on

\* What merge_root may land: the tree that was validated, unless the default
\* branch moved after the check, and nothing reverted that an old head carries.
LandingSound == TypeOK /\ ValidatedUnlessRaced /\ RevertFenced

\* The documented form: reverted content never returns by itself.
NeverReintroduced == Reintroduced = {}

\* The refusal's own explanation: the root carries content of a landed ancestor
\* that the default branch no longer has (RootMergeFailureCause::next).
RefusalMeansReverted ==
    tick.pc = "gate" /\ Decision = "diverged" =>
        \E j \in Pr : /\ j < tick.root
                      /\ (Own(j) \cap tick.cur[tick.root].head.commits) \ default[tick.obs] # {}

\* Once people and faults leave the caravan alone, every member lands or every
\* further tick refuses with a diverged default branch: no wait of the tick is
\* permanent.
Settles == <>[](Open(pr) = {} \/ verdict = "diverged")
=============================================================================
