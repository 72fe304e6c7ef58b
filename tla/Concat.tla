------------------------------- MODULE Concat -------------------------------
(***************************************************************************)
(* concat.rs: one caravan is appended to another.  A plan is made without  *)
(* a write and reviewed; its execution must find the same facts, rewrites  *)
(* every source branch in one atomic push, moves the base of the source's  *)
(* root, and looks at the result.  What fails after the push is undone:    *)
(* the base first, then the heads, each only if it is still what concat    *)
(* wrote.  A concat that succeeded is in the journal, and asking for the   *)
(* same plan again returns that receipt.                                   *)
(*                                                                         *)
(* The fleet, its graph and the people who push and label are those of     *)
(* Membership.  Pushes lose their answer, writes fail, the process dies.   *)
(* A plan's hash is the plan.  Holds, forks, conflicts and the lookup of   *)
(* old generations (physical_rebase.rs) are refusals without a cause.      *)
(***************************************************************************)
EXTENDS Membership

VARIABLES job,       \* the execution in progress, or the report of the last one
          reviewed,  \* the plan in the operator's hands
          journaled, \* plans with a caravans_concatenated event in the journal
          authored   \* history: the authors' pushes, made and contained in the head

concatVars == <<pull, tip, job, reviewed, journaled, authored>>

NoPlan == [source |-> <<>>, target |-> <<>>, old |-> <<>>, tail |-> <<>>]
NoJob == [at |-> "idle", plan |-> NoPlan, next |-> 1, heads |-> <<>>, root |-> Unqueued(1),
          lost |-> FALSE, since |-> 0, begun |-> Blank.pull, work |-> <<>>, report |-> "none"]

Busy == job.at # "idle"
Root == Head(job.plan.source)
Tail0 == Last(job.plan.target)
Appended == ToSet(job.plan.source)

End(report) == job' = [NoJob EXCEPT !.plan = job.plan, !.lost = job.lost, !.since = job.since,
                                    !.begun = job.begun, !.report = report]
Proceed(place) == job' = [job EXCEPT !.at = place]
Quiet == UNCHANGED <<pull, tip, reviewed, journaled, authored, bounds>>

-----------------------------------------------------------------------------
(* plan_from_status: a healthy fleet, the head of one caravan and the tail   *)
(* of another; every generation that the execution will rely on.             *)

PlanFrom(s, source, target) ==
  [source |-> source, target |-> target, old |-> [p \in ToSet(source) |-> s.pull[p]],
   tail |-> s.pull[Last(target)]]

Plans(s) ==
  IF Problems(s) # {} THEN {}
  ELSE {PlanFrom(s, pair[1], pair[2]) : pair \in {q \in Caravans(s) \X Caravans(s) : q[1] # q[2]}}

PlanConcat ==
  /\ ~Busy
  /\ \E plan \in Plans(Snapshot) : reviewed # plan /\ reviewed' = plan
  /\ UNCHANGED <<pull, tip, job, journaled, authored, bounds>>

(* An exact retry only reads the journal.  Otherwise the plan is made again  *)
(* from what is there now, and has to be the reviewed one.                   *)
ExecuteConcat ==
  /\ ~Busy /\ reviewed # NoPlan /\ commands < MaxCommands
  /\ commands' = commands + 1
  /\ LET begun == [NoJob EXCEPT !.plan = reviewed, !.since = outside, !.begun = pull,
                                   !.work = authored.kept] IN
     job' = IF reviewed \in journaled THEN [begun EXCEPT !.report = "idempotent"]
            ELSE IF reviewed \notin Plans(Snapshot) THEN [begun EXCEPT !.report = "refused"]
            ELSE [begun EXCEPT !.at = "prepare"]
  /\ UNCHANGED <<pull, tip, reviewed, journaled, authored, faults, outside>>

-----------------------------------------------------------------------------
(* Preparing and pushing the source heads.                                   *)

HeadOf(r) == [rev |-> r.rev, onto |-> r.onto, has |-> r.has]

(* prepare_candidate for one member after another, each onto the simulated   *)
(* head of the one before; its range starts at the old head of that one.     *)
PreparedHeads(plan) ==
  LET source == plan.source
      new[i \in DOMAIN source] ==
        LET r == plan.old[source[i]]
            below == IF i = 1 THEN HeadOf(plan.tail) ELSE new[i - 1]
            onto == <<IF i = 1 THEN Last(plan.target) ELSE source[i - 1], below.rev>>
            range == IF i = 1 THEN r.has ELSE r.has \ plan.old[source[i - 1]].has
        IN  IF r.onto = onto THEN HeadOf(r)
            ELSE [rev |-> r.rev + 1, onto |-> onto, has |-> below.has \cup range]
  IN  [p \in ToSet(source) |-> new[CHOOSE i \in DOMAIN source : source[i] = p]]

PrepareConcat ==
  /\ job.at = "prepare"
  /\ \/ job' = [job EXCEPT !.at = "verify", !.heads = PreparedHeads(job.plan)]
     \/ End("refused")
  /\ Quiet

(* verify_prepared_before: the branch is where the plan saw it; for the      *)
(* root so are its base, which bounds its range, and its new predecessor.    *)
StillOld(p) == HeadOf(pull[p]) = HeadOf(job.plan.old[p])
RangeBound(p) ==
  p = Root => tip = job.plan.old[p].baseRev /\ HeadOf(pull[Tail0]) = HeadOf(job.plan.tail)

VerifyPrepared ==
  /\ job.at = "verify"
  /\ LET p == job.plan.source[job.next] IN
     IF ~(StillOld(p) /\ RangeBound(p)) THEN End("refused")
     ELSE IF job.next < Len(job.plan.source) THEN job' = [job EXCEPT !.next = @ + 1]
     ELSE Proceed("push")
  /\ Quiet

Rewrites == {p \in Appended : job.heads[p] # HeadOf(job.plan.old[p])}

(* Every branch moves, under its own lease, or none does.                    *)
Pushed(heads) ==
  [p \in PRs |-> IF p \notin Rewrites THEN pull[p]
                 ELSE [pull[p] EXCEPT !.rev = heads[p].rev, !.onto = heads[p].onto, !.has = heads[p].has,
                         !.baseRev = IF pull[p].base \in Rewrites THEN heads[pull[p].base].rev
                                     ELSE Rev(Snapshot, pull[p].base)]]

(* The prepared heads and the old ones have the authors' pushes that the     *)
(* plan saw.                                                                 *)
PushAll(heads) ==
  /\ pull' = Pushed(heads)
  /\ authored' = [authored EXCEPT !.kept = [p \in PRs |-> IF p \in Rewrites THEN job.work[p] ELSE @[p]]]

(* The push is refused, or its answer is lost.                               *)
PushFails(heads) ==
  /\ faults < MaxFaults /\ faults' = faults + 1
  /\ PushAll(heads) \/ UNCHANGED <<pull, authored>>

LeasesHold(heads) == \A p \in Rewrites : HeadOf(pull[p]) = heads[p]
OldHeads == [p \in Appended |-> HeadOf(job.plan.old[p])]

(* apply_prepared_atomically; a push that is refused, or whose answer is     *)
(* lost, is classified by what the branches are afterwards.                  *)
PushAtomically ==
  /\ job.at = "push"
  /\ IF Rewrites = {} THEN Proceed("rediscover") /\ UNCHANGED <<pull, authored, faults>>
     ELSE IF LeasesHold(OldHeads)
     THEN \/ PushAll(job.heads) /\ Proceed("rediscover") /\ UNCHANGED faults
          \/ PushFails(job.heads) /\ Proceed("classify")
     ELSE Proceed("classify") /\ UNCHANGED <<pull, authored, faults>>
  /\ UNCHANGED <<tip, reviewed, journaled, commands, outside>>

AllAre(heads) == \A p \in Appended : HeadOf(pull[p]) = heads[p]

(* classify_atomic_remote_state after the push.                              *)
ClassifyPush ==
  /\ job.at = "classify"
  /\ IF AllAre(OldHeads) THEN End("refused")
     ELSE IF AllAre(job.heads) THEN Proceed("rediscover")
     ELSE End("indeterminate")
  /\ Quiet

-----------------------------------------------------------------------------
(* Committing the base of the root, and the final look.                      *)

(* Every rewritten head must be what the provider shows; the root as it is   *)
(* now is what the base change is bound to.                                  *)
RediscoverHeads ==
  /\ job.at = "rediscover"
  /\ IF AllAre(job.heads) THEN job' = [job EXCEPT !.at = "check", !.root = pull[Root]]
     ELSE Proceed("restore")
  /\ Quiet

CheckRoot ==
  /\ job.at = "check"
  /\ Proceed(IF pull[Root] = job.root THEN "commit" ELSE "restore")
  /\ Quiet

CommitRoot ==
  /\ job.at = "commit"
  /\ \/ /\ pull' = [pull EXCEPT ![Root] = Effect(SetBase(Root, Tail0), @)]
        /\ job' = [job EXCEPT !.at = "final", !.root = pull'[Root]]
        /\ UNCHANGED faults
     \/ /\ faults < MaxFaults /\ faults' = faults + 1
        /\ \E lost \in BOOLEAN :
             /\ pull' = IF lost THEN [pull EXCEPT ![Root] = Effect(SetBase(Root, Tail0), @)] ELSE pull
             /\ job' = [job EXCEPT !.at = "restore", !.lost = lost]
  /\ UNCHANGED <<tip, reviewed, journaled, authored, commands, outside>>

NewOrdering == job.plan.target \o job.plan.source

FinalCheck ==
  /\ job.at = "final"
  /\ Proceed(IF NewOrdering \in Caravans(Snapshot) THEN "journal" ELSE "recheck")
  /\ Quiet

(* dispatch_events appends to the journal first.  What fails here is an      *)
(* error of a concat that is complete.                                       *)
JournalConcat ==
  /\ job.at = "journal"
  /\ \/ journaled' = journaled \cup {job.plan} /\ End("concatenated") /\ UNCHANGED faults
     \/ faults < MaxFaults /\ faults' = faults + 1 /\ End("unrecorded") /\ UNCHANGED journaled
  /\ UNCHANGED <<pull, tip, reviewed, authored, commands, outside>>

-----------------------------------------------------------------------------
(* Undoing.                                                                  *)

(* rollback_complete_transaction: the base goes back, from exactly what the  *)
(* commit left.                                                              *)
RecheckRoot ==
  /\ job.at = "recheck"
  /\ IF pull[Root] = job.root THEN Proceed("uncommit") ELSE End("indeterminate")
  /\ Quiet

UncommitRoot ==
  /\ job.at = "uncommit"
  /\ \/ /\ pull' = [pull EXCEPT ![Root] = Effect(SetBase(Root, job.plan.old[Root].base), @)]
        /\ Proceed("restore") /\ UNCHANGED faults
     \/ /\ faults < MaxFaults /\ faults' = faults + 1
        /\ pull' \in {pull, [pull EXCEPT ![Root] = Effect(SetBase(Root, job.plan.old[Root].base), @)]}
        /\ End("indeterminate")
  /\ UNCHANGED <<tip, reviewed, journaled, authored, commands, outside>>

(* Mutant: the heads are pushed back without leases.                         *)
RestoreBlindly ==
  /\ job.at = "restore"
  /\ PushAll(OldHeads) /\ End("restored")
  /\ UNCHANGED <<tip, reviewed, journaled, bounds>>

(* rollback_prepared_atomically, under leases on the new heads.              *)
RestoreHeads ==
  /\ job.at = "restore"
  /\ IF Rewrites = {} THEN End("restored") /\ UNCHANGED <<pull, authored, faults>>
     ELSE IF LeasesHold(job.heads)
     THEN \/ PushAll(OldHeads) /\ End("restored") /\ UNCHANGED faults
          \/ PushFails(OldHeads) /\ Proceed("unclear")
     ELSE Proceed("unclear") /\ UNCHANGED <<pull, authored, faults>>
  /\ UNCHANGED <<tip, reviewed, journaled, commands, outside>>

ClassifyRestore ==
  /\ job.at = "unclear"
  /\ End(IF AllAre(OldHeads) THEN "restored" ELSE "indeterminate")
  /\ Quiet

-----------------------------------------------------------------------------
(* A read of the branches or of the fleet fails, or is out of time.          *)
ReadFails ==
  /\ faults < MaxFaults /\ faults' = faults + 1
  /\ \/ job.at = "verify" /\ End("refused")
     \/ job.at \in {"rediscover", "check"} /\ Proceed("restore")
     \/ job.at = "final" /\ Proceed("recheck")
     \/ job.at \in {"classify", "recheck", "unclear"} /\ End("indeterminate")
  /\ UNCHANGED <<pull, tip, reviewed, journaled, authored, commands, outside>>

ConcatDies ==
  /\ Busy /\ faults < MaxFaults /\ faults' = faults + 1
  /\ End("died")
  /\ UNCHANGED <<pull, tip, reviewed, journaled, authored, commands, outside>>

AuthorWorks(p) ==
  /\ AuthorPush(p)
  /\ authored' = [made |-> [authored.made EXCEPT ![p] = @ \cup {outside'}],
                  kept |-> [authored.kept EXCEPT ![p] = @ \cup {outside'}]]

(* A person takes a pull request out of its chain.                           *)
PersonRetargets(p) ==
  /\ pull[p].base # Default
  /\ pull' = [pull EXCEPT ![p].base = Default, ![p].baseRev = tip]
  /\ UNCHANGED tip /\ Outside

(* Two caravans, of the first k pull requests and of the others.             *)
Caravaned(k) ==
  [p \in PRs |-> IF p <= k THEN Enrolled(k, p)
                 ELSE IF p = k + 1 THEN [Enrolled(1, 1) EXCEPT !.has = {p}]
                 ELSE [Enrolled(k, p) EXCEPT !.has = k + 1 .. p]]

ConcatBegins ==
  /\ job = NoJob /\ reviewed = NoPlan /\ journaled = {}
  /\ authored = [made |-> [p \in PRs |-> {}], kept |-> [p \in PRs |-> {}]]

ConcatInit ==
  /\ pull \in {Caravaned(k) : k \in 1 .. N - 1} /\ tip = 0
  /\ op = NoCommand /\ cut = {} /\ commands = 0 /\ faults = 0 /\ outside = 0
  /\ ConcatBegins

ConcatStep ==
  \/ PlanConcat \/ ExecuteConcat \/ PrepareConcat \/ VerifyPrepared \/ PushAtomically \/ ClassifyPush
  \/ RediscoverHeads \/ CheckRoot \/ CommitRoot \/ FinalCheck \/ JournalConcat
  \/ RecheckRoot \/ UncommitRoot \/ RestoreHeads \/ ClassifyRestore
  \/ ReadFails \/ ConcatDies

ConcatNext ==
  \/ ConcatStep /\ UNCHANGED <<op, cut>>
  \/ \E p \in PRs : AuthorWorks(p) /\ UNCHANGED <<job, reviewed, journaled>>
  \/ (\E p \in PRs : PersonRetargets(p) \/ PersonLabels(p)) /\ UNCHANGED <<job, reviewed, journaled, authored>>
  \/ DefaultAdvances /\ UNCHANGED <<job, reviewed, journaled, authored>>

ConcatSpec == ConcatInit /\ [][ConcatNext]_<<concatVars, op, cut, bounds>>

-----------------------------------------------------------------------------
(* No push of an author is lost, whatever concat pushes and pushes back.     *)
AuthorsKept == authored.kept = authored.made

Undisturbed == job.at = "idle" /\ outside = job.since
Shown(r) == [r EXCEPT !.baseRev = 0]

(* A refusal wrote nothing; "restored every original source head" means the  *)
(* whole topology, unless the answer to the base change was lost.            *)
RestoredMeansUndone ==
  Undisturbed /\ (job.report = "refused" \/ (job.report = "restored" /\ ~job.lost)) =>
    \A p \in PRs : Shown(pull[p]) = Shown(job.begun[p])

(* A concat that is complete, recorded or not, left one caravan in the       *)
(* reviewed order, every appended head on top of the one before it.          *)
AppendedInOrder ==
  Undisturbed /\ job.report \in {"concatenated", "unrecorded"} =>
    /\ NewOrdering \in Caravans(Snapshot)
    /\ \A i \in DOMAIN job.plan.source :
         LET p == job.plan.source[i]
             below == IF i = 1 THEN Tail0 ELSE job.plan.source[i - 1]
         IN  pull[p].onto = <<below, pull[below].rev>> /\ pull[below].has \subseteq pull[p].has

(* What concat promises: no author's push is lost, refusals and rollbacks    *)
(* leave nothing behind, a complete concat is one caravan in order.          *)
ConcatSound == AuthorsKept /\ RestoredMeansUndone /\ AppendedInOrder
=============================================================================
