---------------------------- MODULE StackRebuild ----------------------------
(***************************************************************************)
(* GitHub's native Stacks as the second representation of a caravan: how   *)
(* join extends one, how evict and split take one apart and build it anew  *)
(* across several provider calls, and how a later tick finds and repairs   *)
(* what an interrupted command, a person or a landing left behind.         *)
(* (membership.rs, stack_membership.rs, reshape.rs, github/stack.rs,       *)
(* github/stack_reshape.rs, stack_recovery.rs, native_stack_rebase.rs,     *)
(* read.rs.)                                                               *)
(*                                                                         *)
(* The code compares commits only for equality with a commit it read       *)
(* earlier, and for ancestry of adjacent members.  So a pull request keeps *)
(* two flags for its base (`at`: it records the base's present head, `has`:*)
(* it contains it), and every record that holds commits keeps `same`, the  *)
(* pull requests (0: the default branch) that have not changed since.      *)
(***************************************************************************)
EXTENDS Naturals, Sequences, FiniteSets, SequencesExt, TLC

CONSTANTS N,       \* pull requests, numbered 1..N
          Budgets  \* how many commands, changes from outside and deaths happen

ASSUME StackBounds ==
    /\ N \in Nat
    /\ Budgets \subseteq [commands : Nat, \* joins, evictions, splits and clearances
                        outside : Nat,  \* changes by people and landings
                        cuts : Nat]     \* operations that die or fail between two steps

VARIABLES pull,     \* the pull requests on the provider
          stacks,   \* the provider's Stacks
          pending,  \* membership checkpoints, by caravan root
          shapes,   \* reshape checkpoints
          op,       \* the operation in progress
          left,     \* what is left of the bounds
          claim     \* history: the chains the last command said it has represented

vars == <<pull, stacks, pending, shapes, op, left, claim>>

Pulls == 1..N
Nothing == [none |-> TRUE]
Everything == 0..N
Orders == {c \in UNION {[1..k -> Pulls] : k \in 1..N} : IsInjective(c)}

------------------------------------------------------------------------------
(* What a status read derives.                                               *)

Member(p) == pull[p].st = "open" /\ pull[p].in

\* The caravans: chains of members from each root that targets the default branch.
Follows(p) == IF Member(p) THEN pull[p].base ELSE p
Chain(c) == /\ \A i \in 1..Len(c) : Follows(c[i]) = (IF i = 1 THEN 0 ELSE c[i - 1])
            /\ \A q \in Pulls : Follows(q) # c[Len(c)] \/ ~Member(q)
Caravans == {c \in Orders : Chain(c)}

Containing(p) == {c \in Caravans : p \in Range(c)}
Open(k) == SelectSeq(k.rows, LAMBDA p : pull[p].st = "open")
Terminal(k) == Open(k) = <<>>
Touching(ps) == {k \in stacks : Range(k.rows) \cap ps # {}}

\* The caravan a Stack stands for is the one of its first open row.
MappedTo(k) == IF Terminal(k) THEN {} ELSE Containing(Head(Open(k)))

BaseDrift(k) ==
    LET open == Open(k) IN
    \E i \in 1..Len(open) : pull[open[i]].base # (IF i = 1 THEN 0 ELSE open[i - 1])
\* Rows whose head does not contain that of the open row before.
NonLinear(k) ==
    LET open == Open(k) IN
    {open[i] : i \in {j \in 2..Len(open) : ~(pull[open[j]].base = open[j - 1] /\ pull[open[j]].has)}}

\* A merged row behind an open one.
StateOrder(k) == \E i, j \in 1..Len(k.rows) :
    i < j /\ pull[k.rows[i]].st = "open" /\ pull[k.rows[j]].st = "merged"

Problems(k) ==
    LET mapped == MappedTo(k) IN
    IF Terminal(k) THEN {}
    ELSE (IF mapped = {} THEN {"orphaned"}
          ELSE (IF Open(k) \in mapped THEN {} ELSE {"order"})
               \cup (IF NonLinear(k) = {} THEN {} ELSE {"rebase"}))
         \cup (IF BaseDrift(k) THEN {"base"} ELSE {})
         \cup (IF StateOrder(k) THEN {"state_order"} ELSE {})

Exact(k) == ~Terminal(k) /\ Problems(k) = {}
Quarantinable(k) ==
    LET found == Problems(k) IN
    MappedTo(k) # {} /\ found # {} /\ found \subseteq {"order", "rebase", "base"}

Mapping(c) == {k \in stacks : c \in MappedTo(k)}
Missing(c) == Len(c) >= 2 /\ Mapping(c) = {}
Quarantined(c) == \E k \in Mapping(c) : Quarantinable(k)

\* Problems of the backend that no quarantine isolates.
Healthy == /\ \A k \in stacks : Problems(k) = {} \/ Quarantinable(k)
           /\ ~\E c \in Caravans : Missing(c)

------------------------------------------------------------------------------
(* Records, and what makes them stale.                                       *)

Strip(record, ps) ==
    IF record = Nothing THEN Nothing ELSE [record EXCEPT !.same = @ \ ps]

\* The heads of `hs` moved and other facts of `fs` changed.  Reshape checkpoints are
\* bound to heads; labels and bases change on the way and are compared as they are.
Stale(hs, fs) ==
    /\ pending' = [r \in Pulls |-> Strip(pending[r], hs \cup fs)]
    /\ shapes' = {[s EXCEPT !.same = @ \ hs] : s \in shapes}

\* A head moved: those on top of it neither record nor contain its new head.
Moved(ps, hs) ==
    [p \in Pulls |-> IF ps[p].base \in hs /\ p \notin hs
                     THEN [ps[p] EXCEPT !.at = FALSE, !.has = FALSE] ELSE ps[p]]

Onto(ps, p, b, contains) == [ps EXCEPT ![p].base = b, ![p].at = TRUE, ![p].has = contains]

\* Every open row records exactly the head of the open row before it; the first one
\* names the default branch at whatever commit.
ValidChain(c) == \A i \in 2..Len(c) : pull[c[i]].base = c[i - 1] /\ pull[c[i]].at
ValidRoot(c) == pull[c[1]].base = 0
ValidTopology(c) == \A i \in 1..Len(c) : pull[c[i]].st = "open" /\ ValidRoot(c) /\ ValidChain(c)

\* A Stack that can be read as a generation; the tail of a tail eviction may be stale.
Generation(k, except) ==
    /\ ~StateOrder(k) /\ Open(k) # <<>> /\ ValidRoot(Open(k))
    /\ \A i \in 2..Len(Open(k)) :
          /\ pull[Open(k)[i]].base = Open(k)[i - 1]
          /\ pull[Open(k)[i]].at \/ (Open(k)[i] = except /\ i = Len(Open(k)))

\* Stack numbers are never used twice: the smallest one nothing refers to.
Referred == {k.id : k \in stacks} \cup {s.id : s \in shapes}
            \cup {pending[r].id : r \in {q \in Pulls : pending[q] # Nothing}}
            \cup (IF op = Nothing THEN {} ELSE {op.id})
FreshId == CHOOSE i \in 1..(Cardinality(Referred) + 1) :
              i \notin Referred /\ \A j \in 1..(i - 1) : j \in Referred

------------------------------------------------------------------------------
(* The Stack calls.  Each is one check of fresh provider truth and one       *)
(* request, rediscovered when its answer is lost.                            *)

AlreadyCreated(c, same) ==
    /\ Cardinality(Touching(Range(c))) = 1
    /\ \E k \in Touching(Range(c)) :
          k.rows = c /\ Generation(k, 0) /\ {0} \cup Range(Front(c)) \subseteq same

\* Mutant: the inventory is not searched for members.
CreatableAnyway(c, same) == ValidTopology(c) /\ {0} \cup Range(c) \subseteq same

Creatable(c, same) ==
    /\ Touching(Range(c)) = {}
    /\ ValidTopology(c) /\ {0} \cup Range(c) \subseteq same

\* GitHub rebases the row it appends when that does not contain the one before it.
Appended(c) == IF pull[Last(c)].has THEN {} ELSE {Last(c)}

AfterAppend(c) ==
    /\ pull' = Moved([pull EXCEPT ![Last(c)].has = TRUE], Appended(c))
    /\ Stale(Appended(c), {})

AddedAlready(k, a) == k.rows = a.before \o a.cand /\ Generation(k, 0)
Addable(k, a, same) ==
    /\ k.rows = a.before /\ Generation(k, 0)
    /\ ValidTopology(Open(k) \o a.cand) /\ Range(a.cand) \subseteq same

\* Recovery appends the whole missing suffix behind a merged prefix, and only where
\* nothing has to be rebased.
SuffixTarget(k, c) == SelectSeq(k.rows, LAMBDA p : pull[p].st = "merged") \o c
Suffixable(k, a, same) ==
    /\ k.rows = a.before /\ Generation(k, 0)
    /\ ValidTopology(a.cand) /\ {0} \cup Range(a.cand) \subseteq same
    /\ \A i \in 2..Len(a.cand) : pull[a.cand[i]].has

------------------------------------------------------------------------------
(* Operations: a list of steps, each one provider call or one file write.    *)

Idle == op = Nothing
Job(cmd, p, todo) ==
    [cmd |-> cmd, p |-> p, todo |-> todo, same |-> Everything, id |-> 0, act |-> Nothing,
     chain |-> <<>>, out |-> {}, calm |-> TRUE, alt |-> Nothing]
Running == op # Nothing
Step == Head(op.todo)
Next1(o) == IF Tail(o.todo) = <<>> THEN Nothing ELSE [o EXCEPT !.todo = Tail(@)]
Spend(what) == left[what] > 0 /\ left' = [left EXCEPT ![what] = @ - 1]
Fails == op' = Nothing
\* A recovery that is refused before it wrote leaves the tick to what comes next.
GivesUp == op' = IF op.alt = Nothing THEN Nothing ELSE [op.alt EXCEPT !.same = op.same]

Begin(o) == /\ Spend("commands") /\ op' = o /\ claim' = {}
            /\ UNCHANGED <<pull, stacks, pending, shapes>>

Action(kind, id, before, cand) == [kind |-> kind, id |-> id, before |-> before, cand |-> cand]
NoAction == Action("none", 0, <<>>, <<>>)

------------------------------------------------------------------------------
(* Join: the plan is made from the status read before the membership.        *)

JoinPlan(c, p) ==
    IF Len(c) = 1 THEN Action("create", 0, <<>>, <<c[1], p>>)
    ELSE IF /\ Cardinality(Mapping(c)) = 1
            /\ \A k \in Mapping(c) : Exact(k) \/ Open(k) = Append(c, p)
         THEN Action("add", (CHOOSE k \in Mapping(c) : TRUE).id, c, <<p>>)
         ELSE NoAction

Join(p) ==
    /\ Idle /\ pull[p].st = "open" /\ ~pull[p].in
    /\ \E c \in Caravans :
          LET act == JoinPlan(c, p)
              steps == IF act = NoAction THEN <<"member">>
                       ELSE <<"member", "pend", "converge", "unpend">>
          IN Begin([Job("join", p, steps) EXCEPT !.chain = Append(c, p), !.act = act, !.id = act.id])

\* The ordinary membership transaction (Membership); the candidate's branch is not
\* rewritten, so it contains the tail's head or does not.
EnterCaravan ==
    /\ Running /\ Step = "member"
    /\ IF Range(op.chain) \subseteq op.same
       THEN \E contains \in BOOLEAN :
              /\ pull' = Onto([pull EXCEPT ![op.p].in = TRUE], op.p, op.chain[Len(op.chain) - 1], contains)
              /\ Stale({}, {op.p}) /\ op' = Next1(op)
       ELSE Fails /\ UNCHANGED <<pull, pending, shapes>>
    /\ UNCHANGED <<stacks, left, claim>>

PersistPending ==
    /\ Running /\ Step = "pend"
    /\ pending' = [pending EXCEPT ![op.chain[1]] = op.act @@ [same |-> op.same]]
    /\ op' = Next1(op)
    /\ UNCHANGED <<pull, stacks, shapes, left, claim>>

\* converge_native_membership: one create, add or recovery append.
Converge ==
    /\ Running /\ Step = "converge"
    /\ LET a == op.act
           c == IF a.kind = "add" THEN a.before \o a.cand ELSE a.cand
           at == {k \in stacks : k.id = a.id}
           already == IF a.kind = "create" THEN AlreadyCreated(c, op.same)
                      ELSE \E k \in at : AddedAlready(k, a)
           moved == Appended(c)
       IN \/ /\ already
             /\ op' = [Next1(op) EXCEPT !.calm = TRUE]
             /\ UNCHANGED <<pull, stacks, pending, shapes>>
          \/ /\ ~already /\ a.kind = "create" /\ Creatable(c, op.same)
             /\ stacks' = stacks \cup {[id |-> FreshId, rows |-> c]}
             /\ AfterAppend(c)
             /\ op' = [Next1(op) EXCEPT !.same = @ \ moved, !.calm = TRUE]
          \/ \E k \in at :
                /\ ~already
                /\ \/ a.kind = "add" /\ Addable(k, a, op.same)
                   \/ a.kind = "suffix" /\ Suffixable(k, a, op.same)
                /\ stacks' = (stacks \ {k}) \cup
                      {[k EXCEPT !.rows = IF a.kind = "add" THEN @ \o a.cand ELSE SuffixTarget(k, c)]}
                /\ AfterAppend(c)
                /\ op' = [Next1(op) EXCEPT !.same = @ \ moved, !.calm = TRUE]
          \/ /\ ~already
             /\ ~(a.kind = "create" /\ Creatable(c, op.same))
             /\ ~\E k \in at : \/ a.kind = "add" /\ Addable(k, a, op.same)
                               \/ a.kind = "suffix" /\ Suffixable(k, a, op.same)
             /\ GivesUp /\ UNCHANGED <<pull, stacks, pending, shapes>>
    /\ UNCHANGED <<left, claim>>

ClearPending ==
    /\ Running /\ Step = "unpend"
    /\ pending' = [pending EXCEPT ![op.chain[1]] = Nothing]
    /\ claim' = IF op.calm THEN {op.chain} ELSE {}
    /\ op' = Next1(op)
    /\ UNCHANGED <<pull, stacks, shapes, left>>

------------------------------------------------------------------------------
(* Evict and split.  The checkpoint is written before the Stack is taken     *)
(* apart, and after every call.                                              *)

Without(c, p) == SelectSeq(c, LAMBDA q : q # p)
Position(c, p) == CHOOSE i \in 1..Len(c) : c[i] = p
Replacements(cmd, c, p) ==
    IF cmd = "evict" THEN IF c = <<p>> THEN {} ELSE {Without(c, p)}
    ELSE {SubSeq(c, 1, Position(c, p) - 1), SubSeq(c, Position(c, p), Len(c))}
\* A single pull request has no Stack.
ProviderChains(chains) == {c \in chains : Len(c) >= 2}

Checkpoint(cmd, p) == {s \in shapes : s.cmd = cmd /\ s.p = p}
StaleTail(cmd, c, p) == IF cmd = "evict" /\ p = Last(c) THEN p ELSE 0

\* The mapped Stack is exact, or its only fault is the tail that is to be evicted.
TailAncestryOnly(k, p) == Problems(k) = {"rebase"} /\ NonLinear(k) \subseteq {p}
ReshapeReady(cmd, c, p, k) ==
    /\ Exact(k) \/ (StaleTail(cmd, c, p) = p /\ TailAncestryOnly(k, p))
    /\ Generation(k, StaleTail(cmd, c, p)) /\ k.rows = Open(k)
    /\ cmd = "split" => p # c[1]

ReshapeRequired(cmd, p) == Containing(p) # {}

Ordinary(cmd) == IF cmd = "evict" THEN <<"unlabel", "relink">> ELSE <<"relink">>
Rebuilds(n) == [i \in 1..(2 * n) |-> IF i % 2 = 1 THEN "rebuild" ELSE "made"]

\* native_reshape_complete, from the phase the checkpoint is in.
Completion(s) == (IF s.phase \in {"preflighted", "unstacked"} THEN <<"record">> ELSE <<>>)
                 \o Rebuilds(Cardinality(s.todo)) \o <<"verify">>

NewShape(cmd, c, p, k) ==
    [cmd |-> cmd, p |-> p, id |-> k.id, rows |-> k.rows, phase |-> "preflighted",
     chains |-> Replacements(cmd, c, p), todo |-> ProviderChains(Replacements(cmd, c, p)),
     same |-> Everything]

Reshape(cmd, p) ==
    /\ Idle /\ ReshapeRequired(cmd, p)
    /\ \E c \in Containing(p) :
         \/ /\ cmd = "evict" /\ c = <<p>> /\ Touching({p}) = {}
            /\ Begin([Job(cmd, p, <<"unlabel">>) EXCEPT !.chain = c])
         \/ /\ cmd = "split" \/ c # <<p>> \/ Touching({p}) # {}
            /\ \E s \in Checkpoint(cmd, p) :
                 Begin([Job(cmd, p, (IF s.phase = "preflighted" THEN <<"unstack", "unstacked">> ELSE <<>>)
                                    \o Ordinary(cmd) \o Completion(s)) EXCEPT !.chain = c, !.id = s.id])
         \/ /\ cmd = "split" \/ c # <<p>> \/ Touching({p}) # {}
            /\ Checkpoint(cmd, p) = {} /\ Cardinality(Mapping(c)) = 1
            /\ \E k \in Mapping(c) :
                 /\ ReshapeReady(cmd, c, p, k)
                 /\ Begin([Job(cmd, p, <<"ckpt", "unstack", "unstacked">> \o Ordinary(cmd)
                                       \o Completion(NewShape(cmd, c, p, k)))
                           EXCEPT !.chain = c, !.id = k.id, !.act = k])

TheShape == CHOOSE s \in shapes : s.cmd = op.cmd /\ s.p = op.p
Reshaped(s) == shapes' = (shapes \ {TheShape}) \cup {s}

WriteCheckpoint ==
    /\ Running /\ Step \in {"ckpt", "unstacked", "made"}
    /\ LET s == TheShape IN
         \/ /\ Step = "ckpt"
            /\ shapes' = shapes \cup {[NewShape(op.cmd, op.chain, op.p, op.act) EXCEPT !.same = op.same]}
         \/ Step = "unstacked" /\ Reshaped([s EXCEPT !.phase = "unstacked"])
         \/ /\ Step = "made"
            /\ Reshaped([s EXCEPT !.todo = @ \ {CHOOSE c \in s.todo : TRUE},
                                  !.phase = "rebuilding"])
    /\ op' = Next1(op)
    /\ UNCHANGED <<pull, stacks, pending, left, claim>>

\* Only the very generation that was checked is taken apart; none is as good.
Removable(s, at) ==
    \A k \in at : /\ k.rows = s.rows /\ Generation(k, StaleTail(s.cmd, s.rows, s.p))
                  /\ {0} \cup Range(s.rows) \subseteq s.same

Unstack ==
    /\ Running /\ Step = "unstack"
    /\ LET at == {k \in stacks : k.id = TheShape.id} IN
       IF Removable(TheShape, at)
       THEN stacks' = stacks \ at /\ op' = Next1(op)
       ELSE Fails /\ UNCHANGED stacks
    /\ UNCHANGED <<pull, pending, shapes, left, claim>>

Successor(c, p) == {q \in Range(c) : pull[q].base = p}

\* The ordinary reshape: labels first, then the one edge.  Each write is leased.
OrdinaryReshape ==
    /\ Running /\ Step \in {"unlabel", "relink"}
    /\ IF Range(op.chain) \subseteq op.same
       THEN LET child == IF op.cmd = "split" THEN {op.p} ELSE Successor(op.chain, op.p)
                base == IF op.cmd = "split" THEN 0 ELSE pull[op.p].base
                carries(q) == pull[q].has /\ pull[pull[q].base].has
            IN /\ pull' = IF Step = "unlabel" THEN [pull EXCEPT ![op.p].in = FALSE]
                          ELSE [q \in Pulls |-> IF q \in child /\ pull[q].base # base
                                                THEN [pull[q] EXCEPT !.base = base, !.at = TRUE,
                                                                     !.has = carries(q)]
                                                ELSE pull[q]]
               /\ Stale({}, IF Step = "unlabel" THEN {op.p} ELSE child)
               /\ op' = Next1(op)
       ELSE Fails /\ UNCHANGED <<pull, pending, shapes>>
    /\ UNCHANGED <<stacks, left, claim>>

\* The pull requests are as the plan wants them, on the heads it was made for.
Postconditions(s) ==
    /\ {0} \cup Range(s.rows) \subseteq s.same
    /\ \A c \in s.chains : ValidTopology(c) /\ \A p \in Range(c) : pull[p].in
    /\ s.cmd = "evict" => ~pull[s.p].in

RecordExisting ==
    /\ Running /\ Step = "record"
    /\ IF Postconditions(TheShape)
       THEN Reshaped([TheShape EXCEPT !.phase = "applied"]) /\ op' = Next1(op)
       ELSE Fails /\ UNCHANGED shapes
    /\ UNCHANGED <<pull, stacks, pending, left, claim>>

RebuildNext ==
    /\ Running /\ Step = "rebuild"
    /\ LET s == TheShape
           c == CHOOSE d \in s.todo : TRUE
       IN \/ /\ Postconditions(s) /\ AlreadyCreated(c, s.same)
             /\ op' = Next1(op) /\ UNCHANGED <<pull, stacks, pending, shapes>>
          \/ /\ Postconditions(s) /\ ~AlreadyCreated(c, s.same) /\ Creatable(c, s.same)
             /\ stacks' = stacks \cup {[id |-> FreshId, rows |-> c]}
             /\ AfterAppend(c)
             /\ op' = [Next1(op) EXCEPT !.same = @ \ Appended(c)]
          \/ /\ ~(Postconditions(s) /\ (AlreadyCreated(c, s.same) \/ Creatable(c, s.same)))
             /\ Fails /\ UNCHANGED <<pull, stacks, pending, shapes>>
    /\ UNCHANGED <<left, claim>>

\* Every chain is one Stack and no original member is in another.
FinalTopology(s) ==
    /\ {k.rows : k \in Touching(Range(s.rows))} = ProviderChains(s.chains)
    /\ Cardinality(Touching(Range(s.rows))) = Cardinality(ProviderChains(s.chains))
    /\ \A k \in Touching(Range(s.rows)) : Generation(k, 0)

VerifyFinal ==
    /\ Running /\ Step = "verify"
    /\ IF Postconditions(TheShape) /\ FinalTopology(TheShape)
       THEN /\ shapes' = shapes \ {TheShape} /\ op' = Next1(op)
            /\ claim' = ProviderChains(TheShape.chains)
       ELSE Fails /\ UNCHANGED <<shapes, claim>>
    /\ UNCHANGED <<pull, stacks, pending, left>>

\* An operator drops a membership checkpoint that no Stack touches.
ClearCheckpoint(r) ==
    /\ Idle /\ pending[r] # Nothing /\ Spend("commands")
    /\ \A k \in stacks : Problems(k) = {}
    /\ Touching({r} \cup Range(pending[r].before) \cup Range(pending[r].cand)) = {}
    /\ pending' = [pending EXCEPT ![r] = Nothing] /\ claim' = {}
    /\ UNCHANGED <<pull, stacks, shapes, op>>

------------------------------------------------------------------------------
(* A tick, as far as Stacks are concerned.  It decides on one status.        *)

\* Merged rows that are no clean prefix of a linear suffix.
HasMerged(k) == Open(k) # k.rows
UnsupportedHistory(k) == MappedTo(k) # {} /\ HasMerged(k) /\ (StateOrder(k) \/ NonLinear(k) # {})

ClosedHistoryRepairable(k) ==
    /\ MappedTo(k) # {} /\ HasMerged(k) /\ Problems(k) # {}
    /\ \A c \in MappedTo(k) : Range(Open(k)) \subseteq Range(c)
    /\ UnsupportedHistory(k)

NeedsRecovery(c) ==
    /\ Len(c) >= 2
    /\ \/ Mapping(c) = {}
       \/ /\ Cardinality(Mapping(c)) = 1
          /\ \E k \in Mapping(c) :
                /\ ~Exact(k) /\ Len(Open(k)) < Len(c) /\ IsPrefix(Open(k), c)
                /\ HasMerged(k) \/ Len(Open(k)) + 1 = Len(c)

\* A merged prefix with an active part that is a strict prefix of the caravan.
RetainedRows(c) == {k \in Touching(Range(c)) :
    /\ Cardinality(Touching(Range(c))) = 1 /\ HasMerged(k) /\ ~StateOrder(k)
    /\ Len(Open(k)) < Len(c) /\ IsPrefix(Open(k), c)}

ExactPrefix(c) == {k \in stacks : Len(k.rows) + 1 = Len(c) /\ k.rows = Open(k) /\ IsPrefix(k.rows, c)}

\* What the checkpoint allows, and without one what the provider shows.
RecoveryAction(c) ==
    LET was == pending[c[1]] IN
    IF was # Nothing THEN
        CASE was.kind = "create" /\ was.cand = c /\ {0} \cup Range(c) \subseteq was.same ->
                Action("create", 0, <<>>, c)
          [] was.kind = "add" /\ was.before \o was.cand = c /\ Range(was.cand) \subseteq was.same ->
                Action("add", was.id, was.before, was.cand)
          [] OTHER -> NoAction
    ELSE IF RetainedRows(c) # {} THEN
        LET k == CHOOSE k \in RetainedRows(c) : TRUE IN Action("suffix", k.id, k.rows, c)
    ELSE IF ExactPrefix(c) # {} THEN
        LET k == CHOOSE k \in ExactPrefix(c) : TRUE IN Action("add", k.id, k.rows, <<Last(c)>>)
    ELSE Action("create", 0, <<>>, c)

\* The action fits the one Stack, or the absence of any, that touches the caravan.
MappingFits(a, c) ==
    LET on == Touching(Range(c)) IN
    \/ a.kind = "create" /\ on = {}
    \/ a.kind = "suffix" /\ \E k \in on : on = {k} /\ k.id = a.id
    \/ a.kind = "add" /\ \E k \in on : on = {k} /\ k.id = a.id /\ k.rows = a.before /\ k.rows = Open(k)
    \/ a.kind \in {"create", "add"} /\ \E k \in on : on = {k} /\ Exact(k) /\ k.rows = c

RecoveryPlan(c) ==
    LET a == RecoveryAction(c) IN
    IF /\ \A k \in stacks : Problems(k) \subseteq {"order"}
       /\ ValidTopology(c)
       /\ \A k \in RetainedRows(c) : Generation(k, 0)
       /\ MappingFits(a, c)
    THEN a ELSE NoAction

Recover(c) ==
    [Job("recover", c[1], <<"members", "converge", "members", "unpend">>)
     EXCEPT !.chain = c, !.act = RecoveryPlan(c), !.id = RecoveryPlan(c).id]

\* The Stack is a strict prefix of the caravan it stands for.
ActivePrefix(k) == \E c \in MappedTo(k) : IsPrefix(Open(k), c) /\ Open(k) # c
DriftRepairable(k) ==
    /\ Quarantinable(k)
    /\ Problems(k) # {"order"} \/ ActivePrefix(k)
    \* Otherwise rows that are no prefix are membership drift, which is not repaired.
    /\ "order" \in Problems(k) => ActivePrefix(k)
StaleBase(k) == Exact(k) /\ ~pull[Head(Open(k))].at /\ ~pull[Head(Open(k))].has

\* The first member that has to be replayed.
FirstDiverged(k, c) ==
    LET whole == UnsupportedHistory(k) \/ BaseDrift(k) \/ ActivePrefix(k) \/ ~pull[c[1]].at
        from == {i \in 1..Len(c) : (i > 1 \/ whole) /\ ~pull[c[i]].has}
    IN IF from = {} THEN Len(c) + 1 ELSE CHOOSE i \in from : \A j \in from : i <= j

\* The order of apply_plan; whoever stays alone gets no Stack.
RepairSteps(out, stay) ==
    <<"rewrite", "clear">> \o [i \in 1..out |-> "let_go"] \o (IF stay >= 2 THEN <<"create">> ELSE <<>>)

\* A member that cannot be replayed is let go with everything behind it.
Repair(k, c, u) ==
    LET out == Range(SubSeq(c, u, Len(c)))
        stay == SubSeq(c, 1, u - 1)
    IN [Job("repair", c[1], RepairSteps(Cardinality(out), Len(stay)))
        EXCEPT !.chain = c, !.id = k.id, !.act = k, !.out = out]

LowestRoot(ks) == CHOOSE k \in ks : \A j \in ks : \A c \in MappedTo(k), d \in MappedTo(j) : c[1] <= d[1]

RepairJobs(ks) ==
    LET k == LowestRoot(ks) IN
    UNION {{Repair(k, c, u) : u \in FirstDiverged(k, c)..(Len(c) + 1)} : c \in MappedTo(k)}

\* Mutant: a caravan without a Stack is reported, not recovered.
NoRecovery == {}

ToRecover == {c \in Caravans : NeedsRecovery(c)}

Refused == \/ \E k \in stacks : UnsupportedHistory(k) /\ ~Quarantinable(k)
           \/ Cardinality(ToRecover) > 1
           \/ \E c \in ToRecover : RecoveryPlan(c) = NoAction /\ ~Quarantined(c)

\* What comes after recovery: routine drift, then a root on an old default branch.
Later ==
    LET drift == {k \in stacks : DriftRepairable(k)}
        old == {k \in stacks : StaleBase(k)}
    IN IF drift # {} THEN RepairJobs(drift)
       ELSE IF Healthy /\ old # {} THEN RepairJobs(old) ELSE {Nothing}

\* A refused recovery that wrote nothing is contained when its caravan is quarantined.
Tick ==
    /\ Idle
    /\ LET closed == {k \in stacks : ClosedHistoryRepairable(k)}
           able == {c \in ToRecover : RecoveryPlan(c) # NoAction /\ ~\E k \in stacks : UnsupportedHistory(k)}
       IN IF closed # {} THEN op' \in RepairJobs(closed)
          ELSE /\ ~Refused
               /\ IF able = {} THEN op' \in Later \ {Nothing}
                  ELSE \E c \in able : \E then \in IF Quarantined(c) THEN Later ELSE {Nothing} :
                          op' = [Recover(c) EXCEPT !.alt = then]
    /\ claim' = {}
    /\ UNCHANGED <<pull, stacks, pending, shapes, left>>

VerifyMembers ==
    /\ Running /\ Step = "members"
    /\ IF Range(op.chain) \subseteq op.same THEN op' = Next1(op) ELSE GivesUp
    /\ UNCHANGED <<pull, stacks, pending, shapes, left, claim>>

Survivors == SelectSeq(op.chain, LAMBDA p : p \notin op.out)

\* One atomic push of all leased branches; then everything is read again.
Rewrite ==
    /\ Running /\ Step = "rewrite"
    /\ LET c == op.chain
           first == FirstDiverged(op.act, c)
           new == {c[i] : i \in first..Len(c)} \ op.out
       IN IF {0} \cup Range(c) \subseteq op.same
          THEN /\ pull' = [p \in Pulls |-> IF p \in new
                                           THEN [pull[p] EXCEPT !.at = TRUE, !.has = TRUE]
                                           ELSE Moved(pull, new)[p]]
               /\ Stale(new, {}) /\ op' = [Next1(op) EXCEPT !.same = Everything]
          ELSE Fails /\ UNCHANGED <<pull, pending, shapes>>
    /\ UNCHANGED <<stacks, left, claim>>

ClearDrifted ==
    /\ Running /\ Step = "clear"
    /\ LET at == {k \in stacks : k.id = op.id} IN
       IF \A k \in at : k.rows = op.act.rows
       THEN stacks' = stacks \ at /\ op' = Next1(op)
       ELSE Fails /\ UNCHANGED stacks
    /\ UNCHANGED <<pull, pending, shapes, left, claim>>

\* queue_evict_suffix, tail first.
LetGo ==
    /\ Running /\ Step = "let_go"
    /\ LET p == op.chain[Len(op.chain) - Cardinality(op.out \ {q \in Pulls : pull[q].in}) ] IN
       IF p \in op.same
       THEN /\ pull' = [pull EXCEPT ![p].in = FALSE] /\ Stale({}, {p}) /\ op' = Next1(op)
       ELSE Fails /\ UNCHANGED <<pull, pending, shapes>>
    /\ UNCHANGED <<stacks, left, claim>>

CreateReplacement ==
    /\ Running /\ Step = "create"
    /\ LET c == Survivors IN
       \/ /\ AlreadyCreated(c, op.same) /\ op' = Next1(op)
          /\ UNCHANGED <<pull, stacks, pending, shapes>>
       \/ /\ ~AlreadyCreated(c, op.same) /\ Creatable(c, op.same)
          /\ stacks' = stacks \cup {[id |-> FreshId, rows |-> c]}
          /\ AfterAppend(c) /\ op' = Next1(op)
       \/ /\ ~AlreadyCreated(c, op.same) /\ ~Creatable(c, op.same)
          /\ Fails /\ UNCHANGED <<pull, stacks, pending, shapes>>
    /\ UNCHANGED <<left, claim>>

------------------------------------------------------------------------------
(* The world.                                                                *)

Outside(hs, fs) ==
    /\ Spend("outside") /\ Stale(hs, fs) /\ claim' = {}
    /\ op' = IF op = Nothing THEN Nothing ELSE [op EXCEPT !.same = @ \ (hs \cup fs), !.calm = FALSE]

Push(p) ==
    /\ pull[p].st = "open"
    /\ pull' = [Moved(pull, {p}) EXCEPT ![p].at = TRUE]
    /\ Outside({p}, {}) /\ UNCHANGED stacks

DefaultMoves == pull' = Moved(pull, {0}) /\ Outside({0}, {}) /\ UNCHANGED stacks

\* A root is merged: its successor is retargeted, its row stays in the Stack.
Lands(r) ==
    /\ Member(r) /\ pull[r].base = 0
    /\ pull' = [q \in Pulls |->
          IF q = r THEN [pull[q] EXCEPT !.st = "merged"]
          ELSE IF pull[q].base = r THEN [pull[q] EXCEPT !.base = 0, !.at = TRUE, !.has = FALSE]
          ELSE Moved(pull, {0})[q]]
    /\ Outside({0}, {r} \cup {q \in Pulls : pull[q].base = r}) /\ UNCHANGED stacks

\* A person removes a Stack, or points a stranded member at a caravan's tail.
Dissolves(k) == k \in stacks /\ stacks' = stacks \ {k} /\ Outside({}, {}) /\ UNCHANGED pull
Relinks(q) ==
    /\ Member(q) /\ Containing(q) = {}
    /\ \E c \in Caravans : pull' = Onto(pull, q, Last(c), TRUE)
    /\ Outside({}, {q}) /\ UNCHANGED stacks

\* The process dies, or a call fails, before the next step.
Cut == /\ Running /\ Spend("cuts") /\ op' = Nothing
       /\ UNCHANGED <<pull, stacks, pending, shapes, claim>>

------------------------------------------------------------------------------

Init ==
    \E k \in 1..N :
      /\ pull = [p \in Pulls |-> [in |-> p <= k, st |-> "open", base |-> IF p <= k THEN p - 1 ELSE 0,
                                  at |-> TRUE, has |-> TRUE]]
      /\ stacks = IF k >= 2 THEN {[id |-> 1, rows |-> [i \in 1..k |-> i]]} ELSE {}
      /\ pending = [p \in Pulls |-> Nothing] /\ shapes = {} /\ op = Nothing /\ claim = {}
      /\ left \in Budgets

Progress == \/ EnterCaravan \/ PersistPending \/ Converge \/ ClearPending
            \/ WriteCheckpoint \/ Unstack \/ OrdinaryReshape \/ RecordExisting \/ RebuildNext
            \/ VerifyFinal \/ VerifyMembers \/ Rewrite \/ ClearDrifted \/ LetGo
            \/ CreateReplacement

Command == \E p \in Pulls : Join(p) \/ Reshape("evict", p) \/ Reshape("split", p) \/ ClearCheckpoint(p)
World == \/ \E p \in Pulls : Push(p) \/ Lands(p) \/ Relinks(p)
         \/ DefaultMoves
         \/ \E k \in stacks : Dissolves(k)
         \/ Cut

Next == Progress \/ Tick \/ Command \/ World

\* Ticks recur for ever and an operation that nothing kills goes on.
Spec == Init /\ [][Next]_vars /\ WF_vars(Progress \/ Tick)

------------------------------------------------------------------------------
(* Properties.                                                               *)

TypeOK ==
    /\ \A p \in Pulls : /\ pull[p].in \in BOOLEAN /\ pull[p].st \in {"open", "merged"}
                        /\ pull[p].base \in Everything
    /\ \A k \in stacks : k.rows \in Orders
    /\ \A s \in shapes : s.phase \in {"preflighted", "unstacked", "applied", "rebuilding"}

\* The pull requests of a reshape that took a Stack apart and has not been verified.
Interrupted == UNION {{s.p} \cup Range(s.rows) : s \in {t \in shapes : t.phase # "preflighted"}}

\* No open pull request is ever in two Stacks, unless a reshape of it was interrupted:
\* whatever dies or moves between the search of the inventory and the create, and
\* whatever a retry finds of an earlier attempt.  After an interruption a tick may put
\* the Stack back, the resumed eviction unlabels a row of it, and a join that is not bound
\* to reviewed facts appends that pull request elsewhere without searching the inventory.
OneStack == \A p \in Pulls \ Interrupted : pull[p].st = "open" => Cardinality(Touching({p})) <= 1

OpenPart(c) == SelectSeq(c, LAMBDA p : pull[p].st = "open")
Represented(c) == \E k \in stacks : Touching(Range(OpenPart(c))) = {k} /\ Open(k) = OpenPart(c)

\* When a join, an eviction, a split or a recovery reports success with nobody else at
\* work since, every chain it promised is exactly one Stack: also when it resumed a
\* checkpoint or took an earlier attempt's Stack for its own.
ClaimHolds == \A c \in claim : Range(c) \cap Interrupted = {} => Represented(c)

\* The Stacks: one for an open pull request, and those a success promised.
StackSound == TypeOK /\ OneStack /\ ClaimHolds

Settled == op = Nothing /\ \A c \in Caravans : Len(c) >= 2 => \E k \in stacks : Exact(k) /\ Open(k) = c

\* Where ticks give up: a member behind a pull request that left its caravan; a caravan
\* whose Stack is gone and whose members do not record each other's heads; a checkpoint
\* that no longer matches; two caravans without a Stack; a Stack with a row that no
\* caravan has.
Stranded == \E p \in Pulls : Member(p) /\ Containing(p) = {}
UnrecordedEdge == \E c \in Caravans : Missing(c) /\ ~ValidTopology(c)
Outdated == \E c \in Caravans : NeedsRecovery(c) /\ pending[c[1]] # Nothing
                                     /\ ~MappingFits(RecoveryAction(c), c)
Foreign == \E k \in stacks : (MappedTo(k) = {} /\ ~Terminal(k)) \/ \E c \in MappedTo(k) : ~IsPrefix(Open(k), c)
NeedsPerson == Stranded \/ UnrecordedEdge \/ Outdated \/ Foreign \/ Cardinality(ToRecover) > 1

\* Once commands, people and deaths stop, ticks bring every caravan back to one exact
\* Stack, or stop at one of the five states the code leaves to a person.
StackSettles == <>[](Settled \/ (op = Nothing /\ NeedsPerson))

\* "Interrupted receipts name the completed phase and rerun converges from provider
\* truth" (docs/design/github-native-stacks.md): a reshape with a checkpoint can be run
\* again, as long as its pull request is open.
ReshapeResumable == op = Nothing => \A s \in shapes : pull[s.p].st = "open" => ReshapeRequired(s.cmd, s.p)
=============================================================================
