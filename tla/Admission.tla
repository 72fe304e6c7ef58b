------------------------------ MODULE Admission ------------------------------
(***************************************************************************)
(* Who is admitted next.  A tick reads the open pull requests, orders the  *)
(* ones that are in no caravan, revalidates the skips that earlier ticks   *)
(* left on the provider, and then admits or skips the first candidate, one *)
(* after the other, within the budgets of a tick.  People name a pull      *)
(* request themselves, or change its priority label.                       *)
(*                                                                         *)
(* Sources: admission.rs, priority.rs, next.rs, the admission part of      *)
(* read.rs and graph.rs and the automatic admission of sync.rs.  What      *)
(* happens inside one admission is the subject of Membership.tla, what CI  *)
(* says of a candidate that of CI.tla; here CI is red or not.              *)
(***************************************************************************)
EXTENDS Integers, Sequences, FiniteSets, Functions

CONSTANTS Prs,             \* pull requests, numbered in the order of creation
          Ranks,           \* configured priority labels, 1 the highest
          Leading,         \* candidates whose compatibility with the default branch is proved
          BatchBound,      \* max_caravan_length
          CaravanLimit,    \* max_caravans
          CandidateLimit,  \* max_candidates_per_tick
          MutationLimit,   \* max_mutations_per_tick
          MembershipCost,  \* writes reserved for one admission
          OddLimit,        \* what is out of the ordinary at the start
          ChangeLimit      \* changes by people and the provider, and failures of a tick

AdmissionBounds ==
    /\ IsFiniteSet(Prs) /\ Prs \subseteq Nat \ {0}
    /\ {Ranks, Leading, BatchBound, CaravanLimit, CandidateLimit, MembershipCost} \subseteq Nat \ {0}
    /\ {OddLimit, ChangeLimit} \subseteq Nat
    /\ MutationLimit \in Nat /\ MutationLimit >= MembershipCost

VARIABLES pulls,     \* the pull requests as the provider shows them
          caravans,  \* the caravans, with their members from head to tail
          clash,     \* the pairs that do not merge cleanly; 0 is the default branch
          base0,     \* the generation of the default branch
          receipts,  \* the last skip receipt among the comments of a pull request
          cursors,   \* the skips that this clone knows to be somebody else's
          human,     \* the skip labels that a person has put there
          changes,   \* changes and failures so far
          turn       \* the tick or the command that holds the lock

admissionVars == <<pulls, caravans, clash, base0, receipts, cursors, human, changes, turn>>

NoSkipReceipt == [head |-> 0, base |-> 0, base0 |-> 0, tails |-> {}, ci |-> FALSE]
Waiting == [pc |-> "idle", seen |-> << >>, valid |-> {}, considered |-> 0, writes |-> 0, pr |-> 0,
            tail |-> 0, receipt |-> NoSkipReceipt, rank |-> 0, labels |-> {}]

FleetNow == [pulls |-> pulls, caravans |-> caravans, clash |-> clash, base0 |-> base0]

(* One more than the rank of the lowest label: no priority; 0 is a label of *)
(* the namespace that is not configured.                                    *)
Plain == [state |-> "open", member |-> FALSE, base |-> 0, prio |-> {}, draft |-> FALSE,
          red |-> FALSE, skip |-> FALSE, head |-> 1]
Oddities(r) == Cardinality(r.prio) + Cardinality({x \in {"draft", "red"} : r[x]}) + (IF r.base = 0 THEN 0 ELSE 1)
OddPull(p, n) == {r \in {[Plain EXCEPT !.base = b, !.prio = l, !.draft = d, !.red = e] :
                           b \in {0} \cup (Prs \ {p}), l \in {{}, {0}} \cup {{k} : k \in 1 .. Ranks}, d \in BOOLEAN, e \in BOOLEAN} :
                     Oddities(r) = n}
OddPulls(n) == UNION {{f \in [Prs -> UNION {OddPull(p, odd[p]) : p \in Prs}] : \A p \in Prs : f[p] \in OddPull(p, odd[p])} :
                        odd \in {o \in [Prs -> 0 .. n] : FoldFunction(+, 0, o) <= n}}
Pairs == {{a, b} : <<a, b>> \in {q \in (Prs \cup {0}) \X Prs : q[1] < q[2]}}

AdmissionInit ==
    /\ clash \in {c \in SUBSET Pairs : Cardinality(c) <= OddLimit}
    /\ pulls \in OddPulls(OddLimit - Cardinality(clash))
    /\ caravans = {}
    /\ base0 = 1
    /\ receipts = [p \in Prs |-> NoSkipReceipt]
    /\ cursors = {}
    /\ human = {}
    /\ changes = 0
    /\ turn = Waiting

---------------------------------------------------------------------------
(* The fleet and the order of candidates, from one snapshot s. *)

Clean(s, a, b) == {a, b} \notin s.clash
CaravanHead(c) == c.members[1]
CaravanTail(c) == c.members[Len(c.members)]
ActiveCaravans(s) == {c \in s.caravans : ~c.parked}

(* An active caravan whose members no longer fit, or whose head does not    *)
(* fit behind the tail of another, is a problem of the whole fleet.         *)
FleetHealthy(s) ==
    \A c \in ActiveCaravans(s) :
        /\ Clean(s, CaravanHead(c), 0)
        /\ \A i \in 1 .. Len(c.members) - 1 : Clean(s, c.members[i], c.members[i + 1])
        /\ \A o \in ActiveCaravans(s) \ {c} : Clean(s, CaravanHead(c), CaravanTail(o))

UnqueuedPrs(s) == {p \in Prs : s.pulls[p].state = "open" /\ ~s.pulls[p].member /\ ~s.pulls[p].draft}

(* Only the first few candidates are tried against the default branch.      *)
LeadingCandidates(s) ==
    LET tried == {p \in UnqueuedPrs(s) : ~s.pulls[p].skip}
    IN {p \in tried : Cardinality({o \in tried : o < p}) < Leading}
CandidateProblem(s, p) == p \in LeadingCandidates(s) /\ ~Clean(s, p, 0)

(* The open pull requests that the chain of bases leads to. *)
DependencyPrs(s, p) ==
    LET Open == {b \in Prs \ {p} : s.pulls[b].state = "open"}
        Reached[n \in 0 .. Cardinality(Prs)] ==
            IF n = 0 THEN {s.pulls[p].base} \cap Open
            ELSE UNION {{b, s.pulls[b].base} : b \in Reached[n - 1]} \cap Open
    IN Reached[Cardinality(Prs)]

Rank(s, p) == LET set == s.pulls[p].prio \ {0}
              IN IF Cardinality(set) = 1 THEN CHOOSE k \in set : TRUE ELSE Ranks + 1
Ahead(s, p, q) == Rank(s, p) < Rank(s, q) \/ (Rank(s, p) = Rank(s, q) /\ p < q)

RankUnknown(s, p) == 0 \in s.pulls[p].prio \/ Cardinality(s.pulls[p].prio \ {0}) > 1

(* A red candidate that others are based on keeps its place, for them.      *)
BlockedRoots(s) == {p \in UnqueuedPrs(s) : /\ ~RankUnknown(s, p) /\ s.pulls[p].red
                                        /\ \E q \in UnqueuedPrs(s) : p \in DependencyPrs(s, q)}
Rejected(s) == {p \in UnqueuedPrs(s) : RankUnknown(s, p)} \cup BlockedRoots(s)

Candidates(s) ==
    {p \in UnqueuedPrs(s) : /\ ~s.pulls[p].red /\ ~s.pulls[p].skip /\ p \notin Rejected(s)
                            /\ ~CandidateProblem(s, p)
                            /\ DependencyPrs(s, p) \cap BlockedRoots(s) = {}}
SkippedRows(s) == UnqueuedPrs(s) \ (Rejected(s) \cup Candidates(s))

First(s, set) == CHOOSE p \in set : \A q \in set : p = q \/ Ahead(s, p, q)

(* Mutant: a blocked root keeps the head of the line. *)
NextCandidateBlocked(s) ==
    LET attempts == Candidates(s) \cup Rejected(s)
    IN IF attempts = {} THEN 0 ELSE First(s, attempts)

(* A first attempt that was rejected stays first; a blocked root does so    *)
(* only when there is no other candidate.                                   *)
NextCandidate(s) ==
    LET attempts == Candidates(s) \cup {p \in Rejected(s) : Candidates(s) = {} \/ p \notin BlockedRoots(s)}
    IN IF attempts = {} THEN 0 ELSE First(s, attempts)

(* Order for a pull request that somebody named. *)
RowsAhead(s, p) == {q \in Candidates(s) \cup Rejected(s) : q # p /\ Ahead(s, q, p)}
Bypassed(s, p, q) == q \in Candidates(s) /\ q \notin DependencyPrs(s, p)

(* Who is out of order is let through by its owner only.                    *)
OwnersOnly(selection) == IF selection = "checked_out" THEN "owner_selected" ELSE "blocked_by_order"
(* An ordered candidate that is not the next.                               *)
OutcomeAhead(s, p, selection) ==
    IF selection = "automatic" THEN "blocked_by_order"
    ELSE IF \A q \in RowsAhead(s, p) : Bypassed(s, p, q) THEN "explicit_ahead_of_unjoined"
    ELSE OwnersOnly(selection)

OrderOutcome(s, p, selection) ==
    IF s.pulls[p].member THEN "already_enrolled"
    ELSE IF NextCandidate(s) = p THEN "canonical"
    ELSE IF p \in Candidates(s) THEN OutcomeAhead(s, p, selection)
    ELSE OwnersOnly(selection)

---------------------------------------------------------------------------
(* The check of one candidate. *)

(* What bars a candidate whatever its target. *)
CandidateValid(s, p) ==
    /\ s.pulls[p].state = "open" /\ ~s.pulls[p].draft /\ ~s.pulls[p].member /\ ~s.pulls[p].red
    /\ p \notin Rejected(s)
    /\ ~CandidateProblem(s, p)
    /\ FleetHealthy(s)

CheckNew(s, p) ==
    /\ CandidateValid(s, p)
    /\ Clean(s, p, 0)
    /\ \A c \in ActiveCaravans(s) : Clean(s, p, CaravanTail(c)) /\ Clean(s, CaravanHead(c), p)

CheckJoin(s, p, c) ==
    /\ CandidateValid(s, p)
    /\ Clean(s, p, CaravanTail(c))
    /\ \A o \in ActiveCaravans(s) \ {c} : Clean(s, CaravanHead(o), p)

BatchFull(c) == Len(c.members) >= BatchBound
FleetFull(s) == Cardinality(ActiveCaravans(s)) >= CaravanLimit

(* The target of automatic admission: the tail of the first caravan that    *)
(* takes the candidate, 0 for a caravan of its own, -1 for a skip.          *)
EvaluateAutoCandidate(s, p) ==
    LET open == {c \in ActiveCaravans(s) : ~BatchFull(c)}
        takes == {c \in open : ~c.held /\ CheckJoin(s, p, c)}
    IN IF takes # {}
       THEN CaravanTail(CHOOSE c \in takes : \A o \in takes : CaravanHead(c) <= CaravanHead(o))
       ELSE IF open = {} /\ CheckNew(s, p) THEN 0 ELSE -1

---------------------------------------------------------------------------
(* The loop of automatic admission. *)

TailGenerations(s, bounded) ==
    {[id |-> CaravanHead(c), tail |-> CaravanTail(c), head |-> s.pulls[CaravanTail(c)].head, held |-> c.held,
      full |-> bounded /\ BatchFull(c)] : c \in ActiveCaravans(s)}

SkipReceipt(s, p, ci) == [head |-> s.pulls[p].head, base |-> s.pulls[p].base, base0 |-> s.base0,
                      tails |-> TailGenerations(s, TRUE), ci |-> ci]

(* The tails of a receipt are compared without the batch bound.             *)
SkipReceiptMatches(s, p, r) ==
    /\ r.head = s.pulls[p].head /\ r.base = s.pulls[p].base /\ r.base0 = s.base0
    /\ r.ci => s.pulls[p].red
    /\ r.tails = TailGenerations(s, FALSE)

CursorHit(s, p) == p \in cursors /\ s.pulls[p].skip

(* What a write to a pull request requires to be as it was read. *)
SamePull(a, b) == [a EXCEPT !.red = FALSE] = [b EXCEPT !.red = FALSE]
Unchanged(p) == SamePull(pulls[p], turn.seen.pulls[p])
TurnAt(pc) == turn.pc = pc
Capacity(n) == turn.writes + n <= MutationLimit

TickStart == /\ TurnAt("idle")
             /\ turn' = [Waiting EXCEPT !.pc = "skips", !.seen = FleetNow]
             /\ UNCHANGED <<pulls, caravans, clash, base0, receipts, cursors, human, changes>>

NeverForeign(p) == FALSE

(* A label without a receipt is somebody else's. *)
Foreign(p) == receipts[p] = NoSkipReceipt

RevalidateSkip ==
    /\ TurnAt("skips")
    /\ LET s == turn.seen
           rest == SkippedRows(s) \ turn.valid
           p == First(s, rest)
       IN IF rest = {} THEN turn' = [turn EXCEPT !.pc = "elect"] /\ UNCHANGED cursors
          ELSE IF CursorHit(s, p) \/ (~Foreign(p) /\ SkipReceiptMatches(s, p, receipts[p]))
          THEN turn' = [turn EXCEPT !.valid = @ \cup {p}] /\ UNCHANGED cursors
          ELSE IF Foreign(p)
          THEN turn' = [turn EXCEPT !.valid = @ \cup {p}] /\ cursors' = cursors \cup {p}
          ELSE /\ cursors' = cursors \ {p}
               /\ turn' = IF Capacity(2) THEN [turn EXCEPT !.pc = "invalidate", !.pr = p] ELSE Waiting
    /\ UNCHANGED <<pulls, caravans, clash, base0, receipts, human, changes>>

(* The comment that authorises it, and the removal; a stale list is read    *)
(* again only for other pull requests.                                      *)
InvalidateSkip ==
    /\ TurnAt("invalidate")
    /\ LET p == turn.pr
       IN IF Unchanged(p)
          THEN /\ pulls' = [pulls EXCEPT ![p].skip = FALSE]
               /\ human' = human \ {p}
               /\ turn' = [turn EXCEPT !.pc = "skips", !.pr = 0, !.valid = @ \cup {p}, !.writes = @ + 2,
                                       !.seen = [FleetNow EXCEPT !.pulls[p].skip = FALSE]]
          ELSE turn' = Waiting /\ UNCHANGED <<pulls, human>>
    /\ UNCHANGED <<caravans, clash, base0, receipts, cursors, changes>>

(* The first candidate, judged by its CI as it is now. *)
Elect ==
    /\ TurnAt("elect")
    /\ LET s == turn.seen
           p == NextCandidate(s)
           target == IF pulls[p].red THEN -1 ELSE EvaluateAutoCandidate(s, p)
           t == [turn EXCEPT !.considered = @ + 1, !.pr = p, !.tail = target]
       IN turn' = IF \/ turn.considered >= CandidateLimit
                     \/ p = 0 \/ p \in Rejected(s)
                     \/ target = 0 /\ FleetFull(s)
                     \/ target = -1 /\ ~Capacity(2)
                     \/ target # -1 /\ ~Capacity(MembershipCost)
                  THEN Waiting
                  ELSE IF target = -1
                  THEN [t EXCEPT !.pc = "receipt", !.receipt = SkipReceipt(s, p, pulls[p].red)]
                  ELSE [t EXCEPT !.pc = "admit"]
    /\ UNCHANGED <<pulls, caravans, clash, base0, receipts, cursors, human, changes>>

(* The receipt first, then the label: a death between them leaves the       *)
(* candidate where it was.                                                  *)
WriteReceipt ==
    /\ TurnAt("receipt")
    /\ LET p == turn.pr
       IN IF Unchanged(p)
          THEN receipts' = [receipts EXCEPT ![p] = turn.receipt] /\ turn' = [turn EXCEPT !.pc = "label"]
          ELSE turn' = Waiting /\ UNCHANGED receipts
    /\ cursors' = cursors \ {turn.pr}
    /\ UNCHANGED <<pulls, caravans, clash, base0, human, changes>>

LabelSkip ==
    /\ TurnAt("label")
    /\ LET p == turn.pr
       IN IF Unchanged(p)
          THEN /\ pulls' = [pulls EXCEPT ![p].skip = TRUE]
               /\ turn' = [turn EXCEPT !.pc = "elect", !.pr = 0, !.tail = 0, !.receipt = NoSkipReceipt, !.writes = @ + 2,
                                       !.seen = [FleetNow EXCEPT !.pulls[p].skip = TRUE]]
          ELSE turn' = Waiting /\ UNCHANGED pulls
    /\ UNCHANGED <<caravans, clash, base0, receipts, cursors, human, changes>>

Extended(cs, p, tail) ==
    IF tail = 0 THEN cs \cup {[members |-> <<p>>, parked |-> FALSE, held |-> FALSE]}
    ELSE {IF CaravanTail(c) = tail THEN [c EXCEPT !.members = Append(@, p)] ELSE c : c \in cs}

Joined(p, tail) == [pulls EXCEPT ![p].member = TRUE, ![p].base = tail, ![p].prio = {}, ![p].skip = FALSE]

(* Membership admits the candidate behind the tail it was judged against,   *)
(* or refuses.                                                              *)
AdmitLocked ==
    /\ TurnAt("admit")
    /\ LET p == turn.pr
       IN IF /\ Unchanged(p)
             /\ turn.tail # 0 => /\ Unchanged(turn.tail)
                                 /\ \E c \in caravans : CaravanTail(c) = turn.tail /\ ~c.parked
          THEN /\ pulls' = Joined(p, turn.tail)
               /\ caravans' = Extended(caravans, p, turn.tail)
               /\ turn' = [turn EXCEPT !.pc = "elect", !.pr = 0, !.tail = 0, !.writes = @ + MembershipCost,
                              !.seen = [FleetNow EXCEPT !.pulls = Joined(p, turn.tail),
                                                        !.caravans = Extended(caravans, p, turn.tail)]]
          ELSE turn' = Waiting /\ UNCHANGED <<pulls, caravans>>
    /\ UNCHANGED <<clash, base0, receipts, cursors, human, changes>>

AutoAdmission == TickStart \/ RevalidateSkip \/ InvalidateSkip \/ Elect \/ WriteReceipt \/ LabelSkip \/ AdmitLocked

---------------------------------------------------------------------------
(* Commands of people, under the same lock. *)

(* new or join, for a pull request that is named or checked out. *)
ExplicitAdmission(p, selection) ==
    LET s == FleetNow
        outcome == OrderOutcome(s, p, selection)
    IN /\ TurnAt("idle")
       /\ changes < ChangeLimit
       /\ outcome \notin {"blocked_by_order", "already_enrolled"}
       /\ \/ /\ CheckNew(s, p) /\ ~FleetFull(s)
             /\ pulls' = Joined(p, 0)
             /\ caravans' = Extended(caravans, p, 0)
          \/ \E c \in ActiveCaravans(s) : /\ CheckJoin(s, p, c) /\ ~BatchFull(c)
                                  /\ pulls' = Joined(p, CaravanTail(c))
                                  /\ caravans' = Extended(caravans, p, CaravanTail(c))
       /\ changes' = changes + 1
       /\ UNCHANGED <<clash, base0, receipts, cursors, human, turn>>

(* priority set (to a rank) and clear (0): labels that compete are removed  *)
(* one by one before the label is added, and a comment follows.             *)
PriorityStart(p, rank) ==
    /\ TurnAt("idle")
    /\ changes < ChangeLimit
    /\ p \in UnqueuedPrs(FleetNow) /\ ~RankUnknown(FleetNow, p)
    /\ pulls[p].prio # {rank} \ {0}
    /\ turn' = [Waiting EXCEPT !.pc = "priority", !.pr = p, !.rank = rank, !.seen = FleetNow]
    /\ changes' = changes + 1
    /\ UNCHANGED <<pulls, caravans, clash, base0, receipts, cursors, human>>

PriorityStepAddFirst(p) ==
    IF turn.rank # 0 /\ turn.rank \notin pulls[p].prio THEN {pulls[p].prio \cup {turn.rank}}
    ELSE {pulls[p].prio \ {k} : k \in pulls[p].prio \ {turn.rank}}

PriorityStep(p) ==
    IF pulls[p].prio \ {turn.rank} # {} THEN {pulls[p].prio \ {k} : k \in pulls[p].prio \ {turn.rank}}
    ELSE {pulls[p].prio \cup ({turn.rank} \ {0})}

PriorityControl ==
    /\ TurnAt("priority")
    /\ LET p == turn.pr
       IN IF Unchanged(p) /\ pulls[p].prio # {turn.rank} \ {0}
          THEN \E labels \in PriorityStep(p) :
                   /\ pulls' = [pulls EXCEPT ![p].prio = labels]
                   /\ turn' = [turn EXCEPT !.seen.pulls[p].prio = labels]
          ELSE turn' = Waiting /\ UNCHANGED pulls
    /\ UNCHANGED <<caravans, clash, base0, receipts, cursors, human, changes>>

---------------------------------------------------------------------------
(* People and the provider. *)

Changes == changes < ChangeLimit /\ changes' = changes + 1

(* A push may cure the conflicts of a pull request; the members behind it   *)
(* are rebuilt on the new head.                                             *)
MembersBehind(p) == UNION {{c.members[i] : i \in {k \in 1 .. Len(c.members) : \E j \in 1 .. k : c.members[j] = p}} : c \in caravans}
AuthorPushes(p) ==
    /\ Changes
    /\ pulls[p].state = "open"
    /\ pulls' = [q \in Prs |-> IF q = p \/ q \in MembersBehind(p) THEN [pulls[q] EXCEPT !.head = @ + 1] ELSE pulls[q]]
    /\ clash' \in {clash, {x \in clash : p \notin x}}
    /\ cursors' = cursors \ ({p} \cup MembersBehind(p))
    /\ UNCHANGED <<caravans, base0, receipts, human, turn>>

CiTurns(p) ==
    /\ Changes
    /\ pulls[p].state = "open"
    /\ pulls' = [pulls EXCEPT ![p].red = ~@]
    /\ UNCHANGED <<caravans, clash, base0, receipts, cursors, human, turn>>

HumanSkips(p) ==
    /\ Changes
    /\ p \in UnqueuedPrs(FleetNow) /\ ~pulls[p].skip
    /\ pulls' = [pulls EXCEPT ![p].skip = TRUE]
    /\ human' = human \cup {p}
    /\ cursors' = cursors \ {p}
    /\ UNCHANGED <<caravans, clash, base0, receipts, turn>>

(* The head lands; the member behind it becomes the head. *)
HeadLands(c) ==
    /\ Changes
    /\ pulls' = [q \in Prs |-> IF q = CaravanHead(c) THEN [pulls[q] EXCEPT !.state = "merged"]
                               ELSE IF Len(c.members) > 1 /\ q = c.members[2] THEN [pulls[q] EXCEPT !.base = 0, !.head = @ + 1]
                               ELSE pulls[q]]
    /\ caravans' = (caravans \ {c}) \cup IF Len(c.members) > 1 THEN {[c EXCEPT !.members = Tail(@)]} ELSE {}
    /\ base0' = base0 + 1
    /\ clash' = {x \in clash : CaravanHead(c) \notin x}
    /\ UNCHANGED <<receipts, cursors, human, turn>>

ParkedOrHeld(c) ==
    /\ Changes
    /\ \/ caravans' = (caravans \ {c}) \cup {[c EXCEPT !.parked = ~@]}
       \/ caravans' = (caravans \ {c}) \cup {[c EXCEPT !.held = ~@]}
    /\ UNCHANGED <<pulls, clash, base0, receipts, cursors, human, turn>>

(* The host dies, an answer is lost, or the time or the requests of the     *)
(* tick are used up.                                                        *)
TurnEnds == /\ ~TurnAt("idle")
            /\ Changes
            /\ turn' = Waiting
            /\ UNCHANGED <<pulls, caravans, clash, base0, receipts, cursors, human>>

---------------------------------------------------------------------------
Turn == AutoAdmission \/ PriorityControl

AdmissionNext ==
    \/ Turn \/ TurnEnds
    \/ \E p \in Prs : \/ AuthorPushes(p) \/ CiTurns(p) \/ HumanSkips(p)
                      \/ \E selection \in {"explicit", "checked_out"} : ExplicitAdmission(p, selection)
                      \/ \E rank \in 0 .. Ranks : PriorityStart(p, rank)
    \/ \E c \in caravans : HeadLands(c) \/ ParkedOrHeld(c)

(* The loop runs tick after tick.  A tick step is enabled in every state,   *)
(* so that this is its weak fairness.                                       *)
AdmissionSpec == AdmissionInit /\ [][AdmissionNext]_admissionVars /\ []<><<Turn>>_admissionVars

---------------------------------------------------------------------------
(* No caravan outgrows its batch bound, no pull request is in two caravans  *)
(* or unlabelled in one, and a priority command that dies on the way never  *)
(* leaves two priorities, which would block the queue behind it             *)
(* (caravan_capacity_refusal, evaluate_auto_candidate_bounded, priority.rs  *)
(* execute).                                                                *)
AdmissionShape ==
    /\ \A c \in caravans : Len(c.members) <= BatchBound
    /\ \A p \in Prs : (pulls[p].member /\ pulls[p].state = "open")
                         = (Cardinality({<<c, i>> \in caravans \X (1 .. BatchBound) : i <= Len(c.members) /\ c.members[i] = p}) = 1)
    /\ \A p \in Prs : Cardinality(pulls[p].prio \ {0}) <= 1

Admits(p) == AdmitLocked /\ pulls'[p].member /\ ~pulls[p].member

(* Automatic admission never passes a pull request that was ahead of the    *)
(* admitted one and could be tried, and never takes a descendant of a red   *)
(* pull request that is in no caravan (resolve_admission); and a skip label *)
(* on a pull request that Cara never skipped is never taken away by a tick  *)
(* (the receipt rule of run_auto_admission).                                *)
OrderKept ==
    [][/\ \A p \in Prs : Admits(p) =>
             LET s == turn.seen
             IN /\ \A q \in UnqueuedPrs(s) \ {p} : Ahead(s, q, p) =>
                       \/ s.pulls[q].red \/ s.pulls[q].skip \/ ~Clean(s, q, 0)
                       \/ \E r \in DependencyPrs(s, q) : s.pulls[r].red
                /\ \A r \in DependencyPrs(s, p) \cap UnqueuedPrs(s) : ~s.pulls[r].red \/ RankUnknown(s, r)
       /\ \A p \in human : receipts[p] = NoSkipReceipt /\ ~pulls'[p].skip => pulls'[p].member]_admissionVars

Room(s) == \/ ActiveCaravans(s) = {} 
           \/ /\ \E c \in ActiveCaravans(s) : ~c.held
              /\ \A c \in ActiveCaravans(s) : ~BatchFull(c)

ReadyCandidate(p) ==
    LET s == FleetNow
    IN /\ p \in UnqueuedPrs(s) /\ p \notin human /\ ~s.pulls[p].red
       /\ \A x \in s.clash : p \notin x
       /\ DependencyPrs(s, p) = {}
       /\ \A q \in UnqueuedPrs(s) : ~RankUnknown(s, q)
       /\ FleetHealthy(s) /\ Room(s)

(* A green candidate that fits everywhere and depends on nothing is         *)
(* admitted sooner or later, whatever is skipped, blocked or lost ahead of  *)
(* it, as long as there is room (lifecycle of skips, budgets and blocked    *)
(* roots in run_auto_admission_with_refresh_limit).                         *)
CandidateProceeds == \A p \in Prs : []<>~ReadyCandidate(p)
=============================================================================
