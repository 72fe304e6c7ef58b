------------------------------ MODULE Discovery ------------------------------
(* One discovery pass (github.rs, GitHubDiscovery): the provider's pull requests *)
(* are read with many commands while authors, other writers and GitHub change    *)
(* them, and the rows become one snapshot; then the checkout's branch is         *)
(* resolved to the pull request it means, if need be through merged history.     *)
EXTENDS Naturals, Sequences, FiniteSets, FiniteSetsExt, Functions

CONSTANTS
  PullRequests,    \* numbers, in the order of creation
  Worlds,          \* where a pass may find the provider and the checkout
  Passes,          \* the options of a pass
  PageSize,        \* OPEN_PR_PAGE_SIZE
  OpenLimit,       \* open_limit
  HistoryLimit,    \* merged_limit
  SnapshotAttempts,\* OPEN_PR_SNAPSHOT_ATTEMPTS
  MaxMoves,        \* changes of others during one pass
  MaxReadFaults    \* failed reads

DiscoveryBounds == PageSize > 0 /\ OpenLimit > 0 /\ HistoryLimit > 0 /\ SnapshotAttempts > 0

VARIABLES
  remote,  \* remote[p]: a pull request as GitHub has it
  tips,    \* tips[b]: the remote branch's commit, 0 when it is deleted
  trunk,   \* the default branch's tip
  shadow,  \* shadow[p]: the parents of refs/pull/p/merge, <<>> when there is none
  checkout,\* the local branch and its commit
  pass,    \* the pass: its options, where it is and what it has read
  moves, faults

provider == <<remote, tips, trunk, shadow, checkout>>
discoveryVars == <<remote, tips, trunk, shadow, checkout, pass, moves, faults>>

Trunk == "main"
\* The head branch of a pull request never changes its name; two may share one.
HeadName(p) == remote[p].head
HeadBranches == {HeadName(p) : p \in PullRequests}

(* ------------------------------- rows and lists -------------------------- *)

\* Commits of a branch: 1, its child 2, and 3, which replaced both.
Ancestor(a, b) == a = b \/ (a = 1 /\ b = 2)

PullIsOpen(r) == r.state = "open"
Has(r, label) == label \in r.labels
Member(r) == PullIsOpen(r) /\ Has(r, "caravan") /\ ~Has(r, "caravan-evicted")

\* The head repository of a row; a fork that is gone has none, and fails the read.
Foreign(r) == r.kind \in {"fork", "gone"}
IntoSnapshots(rows) == \A p \in DOMAIN rows : rows[p].kind # "gone"

\* gh pr list: the newest or the last updated rows, up to the limit.
Listed(match, limit) == {p \in match : Cardinality({q \in match : q > p}) < limit}

\* Row by row: what does not decode is left out, unless nothing decodes.
PullRequestRecords(listed) == Restrict(remote, {p \in listed : remote[p].kind # "garbled"})
NoRecord(listed) == listed # {} /\ PullRequestRecords(listed) = <<>>
Unreadable(listed) == NoRecord(listed) \/ ~IntoSnapshots(PullRequestRecords(listed))

Labelled(state, label, limit) ==
  Listed({p \in PullRequests : Has(remote[p], label) /\ remote[p].state \in state}, limit)

(* ------------------------------ ends of a pass --------------------------- *)

NoRows == <<>>
\* The first rows of a number win.
Joined(f, g) == [p \in DOMAIN f \cup DOMAIN g |-> IF p \in DOMAIN f THEN f[p] ELSE g[p]]

Begun(o) == [pc |-> "repository", opt |-> o, branch |-> "", trunk |-> 0, rows |-> NoRows, cursor |-> 0, total |-> 0,
             attempt |-> 1, again |-> FALSE, cands |-> NoRows, merged |-> NoRows, closed |-> NoRows, scans |-> <<>>,
             pulls |-> NoRows, current |-> 0, past |-> 0, at |-> 0, history |-> NoRows, asked |-> FALSE, bases |-> NoRows,
             head |-> 0, ok |-> FALSE,
             \* history variables: what was open or a member throughout, and the list's instant
             steady |-> {p \in PullRequests : PullIsOpen(remote[p])},
             kept |-> {p \in PullRequests : Has(remote[p], "caravan") /\ remote[p].state \in {"open", "merged"}},
             then |-> remote]

To(pc) == pass' = [pass EXCEPT !.pc = pc, !.again = FALSE]
Failed == pass' = [pass EXCEPT !.pc = "done", !.ok = FALSE]
Finish(n) == pass' = [pass EXCEPT !.pc = "done", !.ok = TRUE, !.current = n]

\* Which pull request the branch means is a refusal only for who needs to know it.
Unresolved == IF pass.opt.require THEN Failed ELSE Finish(0)

Reading(pc) == pass.pc = pc /\ UNCHANGED <<provider, moves>>

\* A read fails. Paged and listed reads are sent once more after a gateway error.
Relisted == {"page", "members", "merged", "closed", "history"}
Resolution == {"history", "open_head", "old_head", "merged_head", "bases"}
TransientReadFailure(pc) == pc \in Relisted /\ ~pass.again

ReadFails ==
  /\ pass.pc # "done" /\ pass.pc # "walk" /\ faults < MaxReadFaults
  /\ faults' = faults + 1
  /\ \/ TransientReadFailure(pass.pc) /\ pass' = [pass EXCEPT !.again = TRUE]
     \/ IF pass.pc \in Resolution THEN Unresolved ELSE Failed
  /\ UNCHANGED <<provider, moves>>

(* ---------------------------- identity and pages ------------------------- *)

\* The repository, the checkout's branch and the local default branch.
CurrentBranch == IF pass.opt.mode = "admission" THEN "" ELSE checkout.branch
ReadRepository ==
  /\ Reading("repository")
  /\ pass' = [pass EXCEPT !.pc = "default", !.branch = CurrentBranch]
  /\ UNCHANGED faults

FirstList(mode) == IF mode = "fleet" THEN "page" ELSE "members"

ReadDefault ==
  /\ Reading("default")
  /\ pass' = [pass EXCEPT !.pc = FirstList(pass.opt.mode), !.trunk = trunk,
                          !.steady = {p \in PullRequests : PullIsOpen(remote[p])}]
  /\ UNCHANGED faults

\* One page: the rows after the cursor, the total, and whether more follow.
OpenNow == {p \in PullRequests : PullIsOpen(remote[p])}
After(cursor) == {p \in OpenNow : p > cursor}
Remaining == OpenLimit - Cardinality(DOMAIN pass.rows)
PageRows(size) == {p \in After(pass.cursor) : Cardinality({q \in After(pass.cursor) : q < p}) < size}

\* The total is the first page's, or this attempt is worth nothing.
TotalIgnored(total) == FALSE
TotalChanged(total) == DOMAIN pass.rows # {} /\ total # pass.total

NextAttempt == pass' = [pass EXCEPT !.rows = NoRows, !.cursor = 0, !.total = 0, !.attempt = @ + 1, !.again = FALSE,
                                    !.steady = OpenNow]

\* A page that repeats a row, has a row it could not show whole, or does not decode.
BadRows(rows) == rows \cap DOMAIN pass.rows # {} \/ \E p \in rows : remote[p].kind \in {"truncated", "garbled", "gone"}

ReadPage ==
  /\ Reading("page")
  /\ LET rows == PageRows(Min({Remaining, PageSize}))
         total == Cardinality(OpenNow)
         last == After(pass.cursor) = rows
         all == Joined(pass.rows, Restrict(remote, rows)) IN
     IF Remaining = 0 \/ total > OpenLimit THEN Failed
     ELSE IF TotalChanged(total)
       THEN IF pass.attempt < SnapshotAttempts THEN NextAttempt ELSE Failed
     ELSE IF BadRows(rows) \/ (last /\ Cardinality(DOMAIN all) # total) THEN Failed
     ELSE pass' = [pass EXCEPT !.rows = all, !.total = total, !.again = FALSE,
                               !.cursor = IF rows = {} THEN 0 ELSE Max(rows),
                               !.pc = IF last THEN "candidates" ELSE "page"]
  /\ UNCHANGED faults

(* ------------------------------ focused passes --------------------------- *)

\* The labelled members, and then the exact pull requests.
ReadMembers ==
  /\ Reading("members")
  /\ LET listed == Labelled({"open"}, "caravan", OpenLimit) IN
     IF Unreadable(listed) THEN Failed
     ELSE pass' = [pass EXCEPT !.rows = PullRequestRecords(listed), !.then = remote, !.pc = "focus", !.again = FALSE]
  /\ UNCHANGED faults

Fits(p) == remote[p].state # "absent" /\ remote[p].kind \in {"plain", "fork"}

\* The exact row is taken only when the list has none.
FocusRow(p) == Joined(pass.rows, Restrict(remote, {p}))

\* A repair's row must be open and, when it is a member, be what the list showed.
SameRow(p) == remote[p].stamp = pass.rows[p].stamp
RepairFocusChanged(p) == ~PullIsOpen(remote[p]) \/ (p \in DOMAIN pass.rows /\ ~SameRow(p))
MergeRepairFocus(p) == Joined(Restrict(remote, {p}), pass.rows)

Focused(p) == IF pass.opt.mode = "repair" THEN MergeRepairFocus(p) ELSE FocusRow(p)
Refocus(p) == pass.opt.mode = "repair" /\ RepairFocusChanged(p)

AdmissionMembership ==
  /\ pass.opt.mode = "admission"
  /\ pass' = [pass EXCEPT !.pulls = FocusRow(pass.opt.focus), !.current = pass.opt.focus, !.pc = "done", !.ok = TRUE]

ReadFocus ==
  /\ Reading("focus")
  /\ IF ~Fits(pass.opt.focus) \/ Refocus(pass.opt.focus) THEN Failed
     ELSE \/ AdmissionMembership
          \/ /\ pass.opt.mode # "admission"
             /\ pass' = [pass EXCEPT !.rows = Focused(pass.opt.focus),
                         !.pc = IF pass.opt.target \notin {0, pass.opt.focus} THEN "target" ELSE "generation"]
  /\ UNCHANGED faults

ReadTarget ==
  /\ Reading("target")
  /\ IF ~Fits(pass.opt.target) \/ Refocus(pass.opt.target) THEN Failed
     ELSE pass' = [pass EXCEPT !.rows = Focused(pass.opt.target), !.pc = "generation"]
  /\ UNCHANGED faults

\* The light facts of every open pull request.
ReadGeneration == Reading("generation") /\ To("candidates") /\ UNCHANGED faults

(* --------------------------- candidates and history ---------------------- *)

\* A candidate based on the default branch is compared with its live tip.
ComparedBase(r) == IF r.base = Trunk THEN pass.trunk ELSE r.baseOid
Superseded(r) == ComparedBase(r) # r.baseOid
ClassifyCandidate(r, parents) ==
  IF parents = <<>> THEN "missing"
  ELSE IF parents[2] # r.oid THEN "stale_head"
  ELSE IF Superseded(r) \/ parents[1] # ComparedBase(r) THEN "stale_base"
  ELSE "fresh"

OnBranch == {p \in DOMAIN pass.rows : HeadName(p) = pass.branch}
OpenLabelled == {p \in DOMAIN pass.rows : Has(pass.rows[p], "caravan")}
ValidateActiveHeads == \A p \in OpenLabelled : ~Foreign(pass.rows[p])

ReadCandidates ==
  /\ Reading("candidates")
  /\ IF Cardinality(OnBranch) > 1 \/ ~ValidateActiveHeads THEN Failed
     ELSE pass' = [pass EXCEPT !.cands = [p \in OpenLabelled |-> ClassifyCandidate(pass.rows[p], shadow[p])], !.pc = "merged"]
  /\ UNCHANGED faults

\* Closed rows are read by fleet passes that want history, under each lifecycle label.
Lifecycle == <<"caravan", "caravan-parked", "caravan-closed">>
ClosedScans == IF pass.opt.mode = "fleet" /\ pass.opt.historical THEN Lifecycle ELSE <<>>

ReadMerged ==
  /\ Reading("merged")
  /\ LET listed == Labelled({"merged"}, "caravan", HistoryLimit) IN
     IF Unreadable(listed) THEN Failed
     ELSE pass' = [pass EXCEPT !.merged = PullRequestRecords(listed), !.scans = ClosedScans, !.again = FALSE,
                               !.pc = IF ClosedScans = <<>> THEN "assemble" ELSE "closed"]
  /\ UNCHANGED faults

ClosedLifecycle(rows) == Restrict(rows, {p \in DOMAIN rows : rows[p].state = "closed" \/ Has(rows[p], "caravan-closed")})

ReadClosed ==
  /\ Reading("closed")
  /\ LET listed == Labelled({"closed", "merged"}, Head(pass.scans), HistoryLimit) IN
     IF Unreadable(listed) THEN Failed
     ELSE pass' = [pass EXCEPT !.closed = Joined(@, ClosedLifecycle(PullRequestRecords(listed))), !.again = FALSE,
                               !.scans = Tail(@), !.pc = IF Tail(pass.scans) = <<>> THEN "assemble" ELSE "closed"]
  /\ UNCHANGED faults

\* A merged predecessor stays while an open pull request is based on its branch.
OpenBases == {pass.rows[p].base : p \in {q \in DOMAIN pass.rows : PullIsOpen(pass.rows[q])}} \ {Trunk}
RetainedIfAsked == Restrict(pass.merged, {p \in DOMAIN pass.merged : pass.opt.historical})
Retained == Restrict(pass.merged, {p \in DOMAIN pass.merged : pass.opt.historical \/ HeadName(p) \in OpenBases})

Assembled == Joined(Joined(pass.rows, Retained), pass.closed)

\* The branch's own open pull request, none on the default branch, or history.
Assemble ==
  /\ Reading("assemble")
  /\ LET own == IF OnBranch = {} THEN 0 ELSE CHOOSE p \in OnBranch : TRUE
         none == pass.branch \in {"", Trunk} IN
     pass' = [pass EXCEPT !.pulls = Assembled, !.current = own, !.ok = own # 0 \/ none,
                          !.pc = IF own # 0 \/ none THEN "done" ELSE "history"]
  /\ UNCHANGED faults

(* ------------------------- the branch's pull request --------------------- *)

BranchHistory == PullRequestRecords(Listed({p \in PullRequests : remote[p].state # "absent" /\ HeadName(p) = pass.branch},
                                           HistoryLimit))

\* One open pull request of the branch is it, if nothing else ever was a member.
OpenReuse(h) == {p \in DOMAIN h : PullIsOpen(h[p])}
ReuseConflict(h, own) == \E p \in DOMAIN h \ {own} : Has(h[p], "caravan") \/ Has(h[p], "caravan-evicted")

\* A merged one may only be the branch's single pull request.
Single(h) == CHOOSE p \in DOMAIN h : TRUE
HistoryRefused(h) ==
  LET r == h[Single(h)] IN
  \/ Cardinality(DOMAIN h) # 1 \/ r.state # "merged" \/ Foreign(r)
  \/ ~Has(r, "caravan") /\ ~pass.opt.create

ReadHistory ==
  /\ Reading("history")
  /\ LET h == BranchHistory
         open == OpenReuse(h)
         own == CHOOSE p \in open : TRUE IN
     IF ~IntoSnapshots(h) THEN Unresolved
     ELSE IF DOMAIN h = {} THEN Finish(0)
     ELSE IF open # {}
       THEN IF Cardinality(open) > 1 \/ Foreign(h[own]) \/ ReuseConflict(h, own) THEN Unresolved
            ELSE pass' = [pass EXCEPT !.pc = "open_head", !.past = own, !.head = h[own].oid, !.history = h]
     ELSE IF HistoryRefused(h) THEN Unresolved
     ELSE pass' = [pass EXCEPT !.past = Single(h), !.head = h[Single(h)].oid, !.history = h,
                               !.pc = IF Has(h[Single(h)], "caravan") THEN "merged_head" ELSE "old_head"]
  /\ UNCHANGED faults

\* The checkout, the branch and the row have the same commit.
LocalOid == IF checkout.branch = pass.branch THEN checkout.oid ELSE 0
RemoteOid == tips[pass.branch]

ReadOpenHead ==
  /\ Reading("open_head")
  /\ IF {LocalOid, RemoteOid} = {pass.head}
       THEN pass' = [pass EXCEPT !.pulls = Joined(@, Restrict(pass.history, {pass.past})),
                                 !.pc = "done", !.ok = TRUE, !.current = pass.past]
       ELSE Unresolved
  /\ UNCHANGED faults

\* A new generation of a branch whose pull request was merged without being a member.
ReadOldHead ==
  /\ Reading("old_head")
  /\ IF pass.head \in {LocalOid, RemoteOid} \/ LocalOid # RemoteOid \/ ~Ancestor(pass.head, LocalOid)
       THEN Unresolved ELSE Finish(0)
  /\ UNCHANGED faults

ReadMergedHead ==
  /\ Reading("merged_head")
  /\ IF {LocalOid, RemoteOid} = {pass.head}
       THEN pass' = [pass EXCEPT !.pc = "walk", !.at = pass.past]
       ELSE Unresolved
  /\ UNCHANGED faults

(* The rolling successor: who is, or was, based on the branch of the one before. *)
Related(p) == p # pass.at /\ Has(pass.pulls[p], "caravan") /\ ~Foreign(pass.pulls[p])
BasedOn(name) == {p \in DOMAIN pass.pulls : Related(p) /\ pass.pulls[p].base = name}
WasBasedOn(name) == {p \in DOMAIN pass.bases : Related(p) /\ name \in pass.bases[p]}

\* The earlier bases are read once, when nothing is based on the branch now.
ReadBases ==
  /\ Reading("bases")
  /\ pass' = [pass EXCEPT !.pc = "walk", !.asked = TRUE, !.bases = [p \in DOMAIN pass.pulls |-> remote[p].earlier]]
  /\ UNCHANGED faults

Successors ==
  IF BasedOn(HeadName(pass.at)) # {} THEN BasedOn(HeadName(pass.at)) ELSE WasBasedOn(HeadName(pass.at))

WithPast == Joined(pass.pulls, Restrict(pass.history, {pass.past}))

Walk ==
  /\ Reading("walk")
  /\ LET next == CHOOSE p \in Successors : TRUE IN
     IF BasedOn(HeadName(pass.at)) = {} /\ ~pass.asked THEN To("bases")
     ELSE IF Successors = {} THEN pass' = [pass EXCEPT !.pulls = WithPast, !.pc = "done", !.ok = TRUE]
     ELSE IF Cardinality(Successors) > 1 THEN Unresolved
     ELSE IF Member(pass.pulls[next])
       THEN pass' = [pass EXCEPT !.pulls = WithPast, !.pc = "done", !.ok = TRUE, !.current = next]
     ELSE IF pass.pulls[next].state # "merged" THEN Unresolved
     ELSE pass' = [pass EXCEPT !.at = next]
  /\ UNCHANGED faults

(* -------------------------------- the others ----------------------------- *)

Noted(p, r) == [remote EXCEPT ![p] = [r EXCEPT !.stamp = @ + 1]]
\* What was open, or a member, throughout: history variables of the pass.
Follow(new) ==
  pass' = [pass EXCEPT !.steady = {p \in @ : PullIsOpen(new[p])},
                       !.kept = {p \in @ : Has(new[p], "caravan") /\ new[p].state \in {"open", "merged"}}]
Change(p, r) ==
  /\ pass.pc # "done" /\ moves < MaxMoves /\ moves' = moves + 1
  /\ remote' = Noted(p, r) /\ Follow(remote')
  /\ UNCHANGED <<checkout, faults>>

OpenPull(p) == /\ remote[p].state = "absent"
               /\ Change(p, [remote[p] EXCEPT !.state = "open", !.baseOid = trunk])
               /\ UNCHANGED <<tips, trunk, shadow>>
ClosePull(p) == PullIsOpen(remote[p]) /\ Change(p, [remote[p] EXCEPT !.state = "closed"]) /\ UNCHANGED <<tips, trunk, shadow>>
ReopenPull(p) == /\ remote[p].state = "closed" /\ Change(p, [remote[p] EXCEPT !.state = "open"])
                 /\ UNCHANGED <<tips, trunk, shadow>>
RelabelPull(p) ==
  /\ remote[p].state # "absent"
  /\ Change(p, [remote[p] EXCEPT !.labels = IF Has(remote[p], "caravan") THEN @ \ {"caravan"} ELSE @ \cup {"caravan"}])
  /\ UNCHANGED <<tips, trunk, shadow>>
PushPull(p, c) ==
  /\ PullIsOpen(remote[p]) /\ remote[p].oid # c /\ (Ancestor(remote[p].oid, c) \/ c = 3)
  /\ Change(p, [remote[p] EXCEPT !.oid = c])
  /\ tips' = [tips EXCEPT ![HeadName(p)] = c]
  /\ UNCHANGED <<trunk, shadow>>
Retarget(p, b) ==
  /\ PullIsOpen(remote[p]) /\ b # remote[p].base /\ b # HeadName(p)
  /\ Change(p, [remote[p] EXCEPT !.base = b, !.earlier = @ \cup {remote[p].base},
                                 !.baseOid = IF b = Trunk THEN trunk ELSE tips[b]])
  /\ UNCHANGED <<tips, trunk, shadow>>
LandPull(p) ==
  /\ PullIsOpen(remote[p]) /\ remote[p].base = Trunk
  /\ Change(p, [remote[p] EXCEPT !.state = "merged"])
  /\ trunk' = trunk + 1
  /\ UNCHANGED <<tips, shadow>>
RebuildShadow(p) ==
  /\ PullIsOpen(remote[p]) /\ Change(p, remote[p])
  /\ shadow' = [shadow EXCEPT ![p] = <<IF remote[p].base = Trunk THEN trunk ELSE tips[remote[p].base], remote[p].oid>>]
  /\ UNCHANGED <<tips, trunk>>
DeleteBranch(b) ==
  /\ pass.pc # "done" /\ moves < MaxMoves /\ moves' = moves + 1
  /\ tips[b] # 0 /\ \A p \in PullRequests : HeadName(p) = b => ~PullIsOpen(remote[p])
  /\ tips' = [tips EXCEPT ![b] = 0]
  /\ UNCHANGED <<remote, trunk, shadow, checkout, pass, faults>>
\* The user's checkout moves under the pass.
SwitchCheckout(b) ==
  /\ pass.pc # "done" /\ moves < MaxMoves /\ moves' = moves + 1
  /\ b # checkout.branch
  /\ checkout' = [branch |-> b, oid |-> IF b = Trunk THEN trunk ELSE tips[b]]
  /\ UNCHANGED <<remote, tips, trunk, shadow, pass, faults>>

Others ==
  \/ \E p \in PullRequests : \/ OpenPull(p) \/ ClosePull(p) \/ ReopenPull(p) \/ RelabelPull(p) \/ LandPull(p) \/ RebuildShadow(p)
                             \/ \E c \in {2, 3} : PushPull(p, c)
                             \/ \E b \in HeadBranches \cup {Trunk} : Retarget(p, b)
  \/ \E b \in HeadBranches : DeleteBranch(b)
  \/ \E b \in HeadBranches \cup {Trunk} : SwitchCheckout(b)

(* ------------------------------ specification ---------------------------- *)

DiscoveryInit ==
  /\ \E w \in Worlds : /\ remote = w.remote /\ tips = w.tips /\ trunk = 1 /\ shadow = w.shadow /\ checkout = w.checkout
                       /\ \E o \in Passes : o.world = w.name /\ pass = Begun(o)
  /\ moves = 0 /\ faults = 0

ReadStep ==
  \/ ReadRepository \/ ReadDefault \/ ReadPage \/ ReadMembers \/ ReadFocus \/ ReadTarget \/ ReadGeneration
  \/ ReadCandidates \/ ReadMerged \/ ReadClosed \/ Assemble \/ ReadHistory \/ ReadOpenHead \/ ReadOldHead
  \/ ReadMergedHead \/ Walk \/ ReadBases
DiscoveryNext == ReadStep \/ ReadFails \/ Others
DiscoverySpec == DiscoveryInit /\ [][DiscoveryNext]_discoveryVars /\ WF_discoveryVars(ReadStep)

(* -------------------------------- properties ----------------------------- *)

Accepted == pass.pc = "done" /\ pass.ok

\* Whatever was open through the whole attempt has a row, and there are as many rows as the
\* last page's total (open_pull_requests_with_generation).
PagesComplete == pass.pc = "candidates" /\ pass.opt.mode = "fleet" =>
                   pass.steady \subseteq DOMAIN pass.rows /\ Cardinality(DOMAIN pass.rows) = pass.total

\* No open row is left without its predecessor: a member that was open or merged throughout
\* and whose branch is the row's base is in the snapshot, whenever it landed (discover).
BasesPresent ==
  Accepted /\ pass.opt.mode # "admission" =>
    \A p \in DOMAIN pass.pulls : PullIsOpen(pass.pulls[p]) =>
      \A q \in pass.kept : HeadName(q) = pass.pulls[p].base /\ remote[q].kind = "plain" => q \in DOMAIN pass.pulls

\* A repair plans on one instant: the pair and every other member are what the member list
\* saw, although they were read one after another (merge_repair_focus).
RepairCoherent ==
  pass.pc = "generation" /\ pass.opt.mode = "repair" =>
    \A p \in DOMAIN pass.rows : Member(pass.then[p]) => pass.rows[p] = pass.then[p]

\* The branch of a pull request that is open throughout never means another one
\* (resolve_current_pr, resolve_exact_open_reused_branch).
OpenBranchWins ==
  Accepted /\ pass.opt.mode # "admission" =>
    \A q \in pass.steady : HeadName(q) = pass.branch => pass.current \in {0, q}

\* Safety of a discovery pass.
SnapshotSound == PagesComplete /\ BasesPresent /\ RepairCoherent /\ OpenBranchWins

\* "Resolve an exact retained merged branch through bounded Caravan history" (github.rs:2380):
\* the walk along merged pull requests comes to an end.
WalkEnds == [](pass.pc = "walk" => <>(pass.pc = "done"))
=============================================================================
