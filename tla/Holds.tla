------------------------------- MODULE Holds -------------------------------
(***************************************************************************)
(* What keeps a caravan from landing, and what overrides it: the pause     *)
(* record with its resume and its fenced recovery (pause.rs), the parking  *)
(* label that a tick puts on a terminally red caravan, unpark and restore  *)
(* (unpark.rs, restore_parked.rs), and force intent (force.rs,             *)
(* force_intent.rs), against the ticks that read them (sync.rs).           *)
(*                                                                         *)
(* One caravan is modelled: its root `pull`, and whether a second pull     *)
(* request follows (`tail`).  Commands and ticks of one clone exclude each *)
(* other (OperationLock), so there is one operation `op` at a time; it is  *)
(* a list of steps, each one file write or one provider write, with people *)
(* and CI acting between any two of them.                                  *)
(***************************************************************************)
EXTENDS Naturals, Sequences, FiniteSets

CONSTANTS Actors,      \* the configured merge actors to consider: "cara", "github"
          MaxGen,      \* generations people push or rebase to
          Budgets      \* how often each kind of bounded event may happen, and which commands

CommandNames == {"review", "pause", "resume", "recovery", "unpark", "restore", "arm", "revoke",
                 "apply", "reviewed_revoke"}

ASSUME HoldsBounds ==
    /\ MaxGen \in Nat
    /\ Budgets \subseteq [runs : Nat, outside : Nat, commands : Nat, cuts : Nat,
                          may : SUBSET CommandNames]

VARIABLES actor,     \* head_merge.actor, fixed by the configuration
          pull,      \* the root on the provider
          tail,      \* a second member follows the root
          hold,      \* the pause record below the common Git directory
          terminal,  \* receipts of completed recoveries
          pending,   \* the authorized, unfinished unpark
          receipts,  \* unpark receipts
          event,     \* the last parking lifecycle event in the journal
          ask,       \* the evidence an operator reviewed, input of the next command
          op,        \* the operation in progress
          left,      \* what is left of the budget: CI results, changes by people,
                     \* commands (ticks are not counted), operations that die or fail
          parkedAs,  \* history: the evidence under which the label was last put on
          marks      \* history: what went wrong

vars == <<actor, pull, tail, hold, terminal, pending, receipts, event, ask, op,
          left, parkedAs, marks>>

Labels == {"caravan", "parked", "force"}
Reviewed == MaxGen + 1          \* the generation a recovery's owner installs
Gens == 0..Reviewed
Nothing == [none |-> TRUE]

PullRequest == [st : {"open", "merged"}, head : Gens, base : Gens, labels : SUBSET Labels,
                auto : BOOLEAN, ci : {"green", "red", "wait"}, run : Nat]
\* The status a command reads: provider facts, derived topology.
Status == [pull : PullRequest, tail : BOOLEAN]
Snap == [pull |-> pull, tail |-> tail]
Enrolled(s) == s.pull.st = "open" /\ "caravan" \in s.pull.labels
Parked(p) == "parked" \in p.labels
Forced(p) == "force" \in p.labels

\* The facts that authorize a write; checks are compared only where the code says so.
Identity(p) == <<p.st, p.head, p.base, p.labels, p.auto>>
\* What unpark, restore and force review: the members with their heads and bases.
Generation(s) == <<s.pull.head, s.pull.base, s.tail>>
\* The fingerprint of a parking: the caravan and the verdicts it was parked for.
Fingerprint(s) == <<s.pull.head, s.tail, s.pull.run>>

------------------------------------------------------------------------------
(* The pause record and how status classifies it.                           *)

Record(s) == [head |-> s.pull.head, base |-> s.pull.base, labels |-> s.pull.labels,
              tail |-> s.tail, auth |-> FALSE, rec |-> Nothing]

\* Where the provider stands on the path a recovery was bound to.
Stage(rec, s) == CASE s.pull.base = rec.base /\ s.pull.head = rec.head -> "old"
                   [] s.pull.base = Reviewed /\ s.pull.head = rec.head -> "base"
                   [] s.pull.base = Reviewed /\ s.pull.head = Reviewed -> "head"
                   [] OTHER -> "drift"

FactsMatch(h, s) ==
    /\ s.pull.head = h.head /\ s.pull.base = h.base /\ s.pull.labels = h.labels
    /\ s.pull.auto => h.auth
    /\ Enrolled(s) /\ s.tail = h.tail

Classify(h, s) ==
    CASE s.pull.st # "open" -> "retired"
      [] s.pull.st = "open" /\ h.rec # Nothing ->
            IF Stage(h.rec, s) # "drift" THEN "recovering" ELSE "recovery_drift"
      [] OTHER -> IF FactsMatch(h, s) THEN "active" ELSE "stale"

IsEffective(state) == state \in {"active", "recovering", "recovery_drift"}
Held(s) == hold # Nothing /\ IsEffective(Classify(hold, s))

------------------------------------------------------------------------------
(* Operations.                                                               *)

Idle == op = Nothing
Plan(cmd, steps) ==
    [cmd |-> cmd, s |-> Snap, cur |-> pull, todo |-> steps, ok |-> FALSE, raced |-> FALSE,
     ask |-> ask, ev |-> Nothing]

Spend(what) == left[what] > 0 /\ left' = [left EXCEPT ![what] = @ - 1]

Begin(cmd, steps) ==
    /\ Idle /\ cmd \in left.may /\ Spend("commands")
    /\ op' = Plan(cmd, steps)
    /\ UNCHANGED <<actor, pull, tail, hold, terminal, pending, receipts, event, ask,
                   parkedAs, marks>>

\* An operator reads status and the journal, and will act on what they say.
Review ==
    /\ Idle /\ "review" \in left.may /\ Spend("commands")
    /\ ask' = [gen |-> Generation(Snap), run |-> pull.run,
               fp |-> IF event = Nothing THEN <<>> ELSE event.parked]
    /\ UNCHANGED <<actor, pull, tail, hold, terminal, pending, receipts, event, op,
                   parkedAs, marks>>

Pause ==
    /\ hold = Nothing /\ Enrolled(Snap)
    /\ Begin("pause", (IF pull.auto THEN <<"disable">> ELSE <<>>) \o <<"hold">>)

ResumeReady ==
    /\ hold # Nothing /\ hold.rec = Nothing
    /\ Held(Snap) /\ pull.ci = "green"

Resume ==
    /\ ResumeReady
    /\ Begin("resume", (IF hold.auth THEN <<>> ELSE <<"auth">>)
                       \o (IF actor = "cara" \/ pull.auto THEN <<>> ELSE <<"checks", "enable">>)
                       \o <<"drop">>)

------------------------------------------------------------------------------
(* The fenced recovery of a paused caravan by an exact owner.  A completed   *)
(* key is replayed before anything else is looked at.                        *)

Key == IF hold.rec # Nothing THEN <<hold.rec.head, hold.rec.base>> ELSE <<hold.head, hold.base>>
Ended(key) == \E r \in terminal : r.key = key
\* Mutant: the terminal receipt is not looked up first.
RecoveringWithoutReplay == hold # Nothing /\ hold.rec # Nothing

Recovering == hold # Nothing /\ hold.rec # Nothing /\ ~Ended(Key)

OriginalTopology == Enrolled(Snap) /\ tail = hold.tail

PrepareReady ==
    /\ Classify(hold, Snap) = "active" /\ OriginalTopology
    /\ Stage(hold, Snap) = "old"

Prepare ==
    /\ hold # Nothing /\ hold.rec = Nothing /\ ~Ended(Key)
    /\ PrepareReady /\ pull.head # Reviewed /\ pull.base # Reviewed
    /\ Begin("recovery", <<"prepare">>)

CheckpointBase ==
    /\ Recovering /\ hold.rec.cp = "prepared" /\ Stage(hold.rec, Snap) = "base"
    /\ Begin("recovery", <<"checkpoint_base">>)

CheckpointHead ==
    /\ Recovering /\ hold.rec.cp = "base" /\ Stage(hold.rec, Snap) = "head"
    /\ Begin("recovery", <<"checkpoint_head">>)

\* The new head is the reviewed commit, and the provider's virtual merge is of it
\* and the reviewed base.
FinalEvidence == Stage(hold.rec, Snap) = "head" /\ OriginalTopology

Finalize ==
    /\ Recovering /\ hold.rec.cp = "head"
    /\ FinalEvidence
    /\ Begin("recovery", <<"advance", "finalized", "drop">>)

Rollback ==
    /\ Recovering /\ Stage(hold.rec, Snap) = "old"
    /\ OriginalTopology
    /\ Begin("recovery", <<"rolled_back", "drop">>)

ReplayTerminal ==
    /\ hold # Nothing /\ hold.rec # Nothing /\ Ended(Key)
    /\ Begin("recovery", <<"drop">>)

------------------------------------------------------------------------------
(* Unpark and restore.                                                       *)

\* The fingerprint of the last caravan_parked event in the journal.
ParkedProvenance == IF event = Nothing THEN <<>> ELSE event.parked
SameGeneration(s, evidence) == Generation(s) = evidence.gen
\* Every required context of the landing branch is satisfied on this very head.
RequiredGreen(p) == p.ci = "green"

UnparkReady ==
    /\ Enrolled(Snap) /\ Parked(pull)
    /\ SameGeneration(Snap, ask)
    /\ ~Held(Snap)
    /\ ParkedProvenance = ask.fp /\ ask.fp # <<>>
    /\ RequiredGreen(pull)

UnparkNew ==
    /\ ask # Nothing /\ ask \notin receipts /\ pending = Nothing
    /\ UnparkReady
    /\ Begin("unpark", <<"checks", "pend", "unpark", "finish", "receipt", "unpend">>)

\* The label is still there: the evidence must be the one that was authorized.
UnparkAgain ==
    /\ ask # Nothing /\ ask \notin receipts /\ pending # Nothing /\ pending.ask = ask
    /\ UnparkReady /\ pending.run = pull.run /\ pending.labels = pull.labels
    /\ Begin("unpark", <<"checks", "unpark", "finish", "receipt", "unpend">>)

\* The label is gone: the interrupted removal is taken to have happened.
UnparkRecovered ==
    /\ ask # Nothing /\ ask \notin receipts /\ pending # Nothing /\ pending.ask = ask
    /\ ParkedProvenance # <<>>
    /\ ~Parked(pull)
    /\ Begin("unpark", <<"finish", "receipt", "unpend">>)

\* finish: what the status read after the removal must still say.
UnparkHolds(s) ==
    /\ Enrolled(s) /\ ~Parked(s.pull)
    /\ SameGeneration(s, op.ask)
    /\ ~Held(s)
    /\ RequiredGreen(s.pull)

\* With both labels in place the command reports success and changes nothing; with
\* one of them it refuses.
RestoreCandidate ==
    /\ pull.st = "open" /\ ~pull.auto
    /\ "caravan" \notin pull.labels /\ ~Parked(pull)

\* The latest lifecycle event must be a parking, and its receipt must show both
\* labels on the generation that is to be restored.
LatestParkingEvent == event # Nothing /\ event.kind = "parked" /\ event.parked = ask.fp
ParkingProvesLabels == event.gen = ask.gen

Restore ==
    /\ ask # Nothing /\ SameGeneration(Snap, ask) /\ RestoreCandidate
    /\ LatestParkingEvent /\ ParkingProvesLabels
    /\ Begin("restore", <<"restore", "restored">>)

RestoredHolds(s) == Enrolled(s) /\ Parked(s.pull) /\ SameGeneration(s, op.ask) /\ ~s.pull.auto

------------------------------------------------------------------------------
(* Force intent.                                                             *)

ForceEligible == Enrolled(Snap) /\ ~Held(Snap)

Arm == ForceEligible
       /\ Begin("arm", (IF Forced(pull) THEN <<>> ELSE <<"force">>) \o <<"comment">>)

Revoke == ForceEligible
          /\ Begin("revoke", (IF Forced(pull) THEN <<"unforce">> ELSE <<>>) \o <<"comment">>)

\* The membership and the checks the reviewer saw are the present ones.
CurrentEvidence(s) == [gen |-> Generation(s), run |-> s.pull.run]
ReviewedEvidence ==
    /\ ask # Nothing /\ Enrolled(Snap)
    /\ CurrentEvidence(Snap) = [gen |-> ask.gen, run |-> ask.run]
ApplyPolicy == ~Held(Snap) /\ pull.ci = "red"

ReviewedApply ==
    /\ ReviewedEvidence /\ ApplyPolicy
    /\ Begin("apply", <<"force", "comment", "forced">>)

ReviewedRevoke ==
    /\ ReviewedEvidence
    /\ Begin("reviewed_revoke", <<"unforce", "comment", "unforced">>)

------------------------------------------------------------------------------
(* A tick: root-first landing, parking, convergence, then the events.        *)

TickStart ==
    /\ Idle
    /\ op' = Plan("tick", <<"root_first", "parking", "converge", "event">>)
    /\ UNCHANGED <<actor, pull, tail, hold, terminal, pending, receipts, event, ask,
                   left, parkedAs, marks>>

\* Mutant: the holds in the status are not looked at.
NoSelectionByHold(s) == Enrolled(s) /\ ~Parked(s.pull)

Selected(s) == Enrolled(s) /\ ~Parked(s.pull) /\ ~Held(s)

RootFirstSteps(s) ==
    IF actor = "cara" /\ Selected(s) /\ ~s.pull.auto /\ s.pull.ci = "green" /\ pull.ci = "green"
    THEN <<"merge", "event">> ELSE <<>>

\* Complete protection-declared green evidence on every member.
ParkingGreen(p) == p.ci = "green"

\* Mutant: a parked caravan is left alone.
NeverUnparked(s) ==
    IF Enrolled(s) /\ ~Parked(s.pull) /\ s.pull.ci = "red"
    THEN <<"checks", "comment", "checks", "park", "note", "reread">> ELSE <<>>

ParkingSteps(s) ==
    LET red == s.pull.ci = "red"
        green == ParkingGreen(s.pull)
        moved == <<"checks", "comment", "checks">>
    IN CASE ~Enrolled(s) -> <<>>
         [] Enrolled(s) /\ Parked(s.pull) /\ ~green ->
                IF s.pull.auto THEN <<"disable", "reread">> ELSE <<>>
         [] Enrolled(s) /\ Parked(s.pull) /\ green -> moved \o <<"unpark", "note", "reread">>
         [] Enrolled(s) /\ ~Parked(s.pull) /\ red -> moved \o <<"park", "disarm", "note", "reread">>
         [] OTHER -> <<>>

ForceSteps == <<"disarm", "verify", "comment", "admin", "consume">>

ConvergeSteps(s) ==
    CASE ~Selected(s) -> <<>>
      [] Selected(s) /\ Forced(s.pull) -> ForceSteps
      [] OTHER -> IF actor = "cara" THEN <<"disarm", "gate", "merge">>
                  ELSE <<"arm", "gate">>

------------------------------------------------------------------------------
(* The executor.                                                             *)

Step == Head(op.todo)
Done(o) == IF Tail(o.todo) = <<>> THEN Nothing ELSE [o EXCEPT !.todo = Tail(@), !.ok = FALSE]
Fail == op' = Nothing

\* The journal entry of a parking transition; restore reads the generation in it,
\* unpark the fingerprint of the last parking.
ParkingEvent ==
    IF Parked(op.cur)
    THEN [kind |-> "parked", parked |-> Fingerprint(op.s),
          gen |-> <<op.cur.head, op.cur.base, op.s.tail>>]
    ELSE [kind |-> "unparked", parked |-> IF event = Nothing THEN <<>> ELSE event.parked,
          gen |-> <<>>]

RemoteWrites == {"disable", "enable", "disarm", "arm", "park", "unpark", "restore", "force",
                 "unforce", "merge", "admin", "consume"}
Running == op # Nothing /\ op.todo # <<>>

Plans ==
    /\ Running /\ Step \in {"root_first", "parking", "converge"}
    /\ LET more == CASE Step = "root_first" -> RootFirstSteps(op.s)
                     [] Step = "parking" -> ParkingSteps(op.s)
                     [] Step = "converge" -> ConvergeSteps(op.s)
           rest == IF Step = "root_first" /\ more # <<>> THEN <<>> ELSE Tail(op.todo)
       IN op' = [op EXCEPT !.todo = more \o rest, !.cur = op.s.pull, !.ok = FALSE]
    /\ UNCHANGED <<hold, terminal, pending, receipts, event>>

\* Reads of the provider in the middle of an operation.
Reads ==
    /\ Running
    /\ \/ /\ Step = "reread"
          /\ op' = [Done(op) EXCEPT !.s = Snap, !.cur = pull, !.raced = FALSE]
       \/ Step = "checks" /\ IF pull = op.cur THEN op' = Done(op) ELSE Fail
       \/ Step = "verify" /\ IF Identity(pull) = Identity(op.cur) THEN op' = Done(op) ELSE Fail
       \/ /\ Step = "gate"
          /\ CASE pull.ci = "red" -> Fail
               [] pull.ci = "wait" \/ actor = "github" -> op' = [op EXCEPT !.todo = <<"event">>]
               [] OTHER -> op' = Done(op)
       \/ Step = "finish" /\ IF UnparkHolds(Snap) THEN op' = Done(op) ELSE Fail
       \/ Step = "restored" /\ IF RestoredHolds(Snap) THEN op' = Done(op) ELSE Fail
       \/ Step \in {"forced", "unforced"}
          /\ IF pull.head = op.ask.gen[1] /\ (Forced(pull) <=> Step = "forced")
             THEN op' = Done(op) ELSE Fail
       \/ Step = "note" /\ op' = [Done(op) EXCEPT !.ev = ParkingEvent]
       \* The audit comment is marked, so a repetition finds it.
       \/ Step = "comment" /\ IF Identity(pull) = Identity(op.cur) THEN op' = Done(op) ELSE Fail
    /\ UNCHANGED <<hold, terminal, pending, receipts, event>>

\* Finalization first moves the hold's own evidence to the new generation.
Advanced(s) == [Record(s) EXCEPT !.rec = hold.rec, !.auth = hold.auth]

RecordSteps == {"hold", "auth", "drop", "prepare", "checkpoint_base", "checkpoint_head", "advance"}

WriteRecord ==
    /\ Running /\ Step \in RecordSteps
    /\ hold' = CASE Step = "hold" -> Record(op.s)
                 [] Step = "auth" -> [hold EXCEPT !.auth = TRUE]
                 [] Step = "drop" -> Nothing
                 [] Step = "prepare" -> [hold EXCEPT !.rec = [head |-> hold.head, base |-> hold.base,
                                                             cp |-> "prepared"]]
                 [] Step = "checkpoint_base" -> [hold EXCEPT !.rec.cp = "base"]
                 [] Step = "checkpoint_head" -> [hold EXCEPT !.rec.cp = "head"]
                 [] Step = "advance" -> Advanced(op.s)
    /\ op' = Done(op)
    /\ UNCHANGED <<terminal, pending, receipts, event>>

WriteReceipt ==
    /\ Running
    /\ \/ /\ Step \in {"finalized", "rolled_back"}
          /\ terminal' = terminal \cup {[key |-> Key, outcome |-> Step]}
          /\ UNCHANGED <<pending, receipts, event>>
       \/ /\ Step = "pend"
          /\ pending' = [ask |-> op.ask, run |-> op.cur.run, labels |-> op.cur.labels]
          /\ UNCHANGED <<terminal, receipts, event>>
       \/ Step = "unpend" /\ pending' = Nothing /\ UNCHANGED <<terminal, receipts, event>>
       \/ /\ Step = "receipt"
          /\ receipts' = receipts \cup {op.ask}
          /\ UNCHANGED <<terminal, pending, event>>
       \/ /\ Step = "event"
          /\ event' = IF op.ev = Nothing THEN event ELSE op.ev
          /\ UNCHANGED <<terminal, pending, receipts>>
    /\ op' = Done(op)
    /\ UNCHANGED hold

LocalSteps == Plans \/ Reads \/ WriteRecord \/ WriteReceipt
Local ==
    /\ LocalSteps
    /\ UNCHANGED <<actor, pull, tail, ask, left, parkedAs, marks>>

\* A write is optimistic: a read proves the identity the operation planned with ...
Satisfied == \/ Step \in {"disable", "disarm"} /\ ~op.cur.auto
             \/ Step = "arm" /\ op.cur.auto
             \/ Step = "unforce" /\ ~Forced(op.cur)
             \/ Step = "force" /\ Forced(op.cur)

Verify ==
    /\ Running /\ Step \in RemoteWrites /\ ~op.ok
    /\ IF Satisfied THEN op' = Done(op)
       ELSE IF Identity(pull) = Identity(op.cur) THEN op' = [op EXCEPT !.ok = TRUE]
       ELSE Fail
    /\ UNCHANGED <<actor, pull, tail, hold, terminal, pending, receipts, event, ask,
                   left, parkedAs, marks>>

Written(step, p) ==
    CASE step \in {"disable", "disarm"} -> [p EXCEPT !.auto = FALSE]
      [] step \in {"enable", "arm"} -> [p EXCEPT !.auto = TRUE]
      [] step = "park" -> [p EXCEPT !.labels = @ \cup {"parked"}]
      [] step = "unpark" -> [p EXCEPT !.labels = @ \ {"parked"}]
      [] step = "restore" -> [p EXCEPT !.labels = @ \cup {"caravan", "parked"}]
      [] step = "force" -> [p EXCEPT !.labels = @ \cup {"force"}]
      [] step \in {"unforce", "consume"} -> [p EXCEPT !.labels = @ \ {"force"}]
      [] OTHER -> [p EXCEPT !.st = "merged", !.auto = FALSE]

Lands == Step \in {"merge", "admin", "arm"}

\* ... and the write follows, fenced only where the provider offers a fence.
Write ==
    /\ Running /\ Step \in RemoteWrites /\ op.ok
    /\ IF \/ Lands /\ pull.st # "open"
          \/ Step \in {"merge", "admin"} /\ pull.head # op.cur.head
       THEN Fail /\ UNCHANGED <<pull, parkedAs, marks>>
       ELSE /\ pull' = Written(Step, pull)
            /\ op' = IF Done(op) = Nothing THEN Nothing ELSE [Done(op) EXCEPT !.cur = pull']
            /\ parkedAs' = IF Step = "park" THEN Fingerprint(op.s) ELSE parkedAs
            /\ marks' = marks
                 \cup (IF op.cmd = "tick" /\ Lands /\ Held(Snap) /\ ~op.raced
                       THEN {IF op.s.pull.auto THEN "landed_rearmed" ELSE "landed_held"} ELSE {})
                 \cup (IF op.cmd = "unpark" /\ Step = "unpark" /\ op.ask.fp # parkedAs
                         /\ ParkedProvenance = parkedAs
                       THEN {"unparked_other"} ELSE {})
    /\ UNCHANGED <<actor, tail, hold, terminal, pending, receipts, event, ask, left>>

\* The operation dies, or a call of it fails; a tick's events go with it.
Cut ==
    /\ op # Nothing /\ Spend("cuts") /\ Fail
    /\ UNCHANGED <<actor, pull, tail, hold, terminal, pending, receipts, event, ask,
                   parkedAs, marks>>

------------------------------------------------------------------------------
(* Everyone else.                                                            *)

Raced == op' = IF op = Nothing THEN op ELSE [op EXCEPT !.raced = TRUE]
Elsewhere ==
    /\ Raced
    /\ UNCHANGED <<actor, hold, terminal, pending, receipts, event, ask, parkedAs, marks>>

CiResult ==
    /\ pull.st = "open" /\ Spend("runs")
    /\ \E c \in {"green", "red", "wait"} \ {pull.ci} :
          pull' = [pull EXCEPT !.ci = c, !.run = @ + 1]
    /\ UNCHANGED tail /\ Elsewhere

ProviderAutoMerge ==
    /\ pull.st = "open" /\ pull.auto /\ pull.ci = "green"
    /\ pull' = [pull EXCEPT !.st = "merged", !.auto = FALSE]
    /\ UNCHANGED <<tail, left>> /\ Elsewhere

\* The owner of a recovery moves the base, then the head, or puts them back.
OwnerMoves ==
    /\ hold # Nothing /\ hold.rec # Nothing /\ pull.st = "open"
    /\ \E to \in {<<hold.rec.base, hold.rec.head>>, <<Reviewed, hold.rec.head>>,
                   <<Reviewed, Reviewed>>} :
          /\ <<pull.base, pull.head>> # to
          /\ pull' = [pull EXCEPT !.base = to[1], !.head = to[2]]
    /\ Spend("outside")
    /\ UNCHANGED tail /\ Elsewhere

Person ==
    /\ pull.st = "open" /\ Spend("outside")
    /\ \/ /\ pull.head < MaxGen
          /\ pull' = [pull EXCEPT !.head = @ + 1, !.ci = "wait", !.run = @ + 1]
          /\ UNCHANGED tail
       \/ /\ pull.base < MaxGen
          /\ pull' = [pull EXCEPT !.base = @ + 1]
          /\ UNCHANGED tail
       \/ /\ \E l \in {"parked", "force"} :
                pull' = [pull EXCEPT !.labels = IF l \in @ THEN @ \ {l} ELSE @ \cup {l}]
          /\ UNCHANGED tail
       \/ /\ "caravan" \in pull.labels          \* a stale closed-row cleanup
          /\ pull' = [pull EXCEPT !.labels = @ \ {"caravan", "parked"}]
          /\ UNCHANGED tail
       \/ pull' = [pull EXCEPT !.auto = ~@] /\ UNCHANGED tail
       \/ tail' = ~tail /\ UNCHANGED pull
    /\ Elsewhere

------------------------------------------------------------------------------
Init ==
    /\ actor \in Actors
    /\ pull = [st |-> "open", head |-> 0, base |-> 0, labels |-> {"caravan"},
               auto |-> actor = "github", ci |-> "wait", run |-> 0]
    /\ tail = TRUE
    /\ hold = Nothing /\ terminal = {} /\ pending = Nothing /\ receipts = {}
    /\ event = Nothing /\ ask = Nothing /\ op = Nothing
    /\ left \in Budgets
    /\ parkedAs = <<>> /\ marks = {}

Command == \/ Pause \/ Resume \/ Prepare \/ CheckpointBase \/ CheckpointHead \/ Finalize
           \/ Rollback \/ ReplayTerminal \/ UnparkNew \/ UnparkAgain \/ UnparkRecovered
           \/ Restore \/ Arm \/ Revoke \/ ReviewedApply \/ ReviewedRevoke
Progress == TickStart \/ Local \/ Verify \/ Write
Next == Command \/ Progress \/ Review \/ Cut \/ CiResult \/ ProviderAutoMerge \/ OwnerMoves \/ Person

Spec == Init /\ [][Next]_vars /\ WF_vars(Progress) /\ WF_vars(ProviderAutoMerge)

------------------------------------------------------------------------------
HoldRecords == {Nothing} \cup
    [head : Gens, base : Gens, labels : SUBSET Labels, tail : BOOLEAN, auth : BOOLEAN,
     rec : {Nothing} \cup [head : Gens, base : Gens, cp : {"prepared", "base", "head"}]]

TypeOK ==
    /\ actor \in Actors /\ pull \in PullRequest /\ tail \in BOOLEAN
    /\ hold \in HoldRecords
    /\ \A r \in terminal : r.outcome \in {"finalized", "rolled_back"}
    /\ left.may \subseteq CommandNames

(* A hold that is in force stops a tick from landing the caravan: no merge,     *)
(* administrator merge or arming of auto-merge happens while pause.rs would     *)
(* classify the record as effective, unless something changed on the provider   *)
(* after the tick read it, or somebody had armed auto-merge by hand.            *)
HoldHonoured == "landed_held" \notin marks

(* The same without the exception for a root that was armed by hand: the tick   *)
(* takes the arming away, which makes the record match again.                   *)
HeldUntilResumed == marks \cap {"landed_held", "landed_rearmed"} = {}

(* unpark takes the label off only for the parking the operator reviewed, also  *)
(* when it is retried after that parking was undone and the caravan parked      *)
(* again, provided the journal has the later parking.                           *)
UnparksReviewedParking == "unparked_other" \notin marks

(* A recovery ends once: no key has both a finalized and a rolled-back receipt, *)
(* whatever phases are repeated after a crash.                                  *)
OneTerminalOutcome == \A r, q \in terminal : r.key = q.key => r = q

(* What a command repeated after a crash may do: one outcome for each key of a  *)
(* recovery, and no unpark of a parking that nobody reviewed.                   *)
RecoverySound == TypeOK /\ OneTerminalOutcome /\ UnparksReviewedParking

(* A caravan that stays green, enrolled and free of an effective hold lands:    *)
(* parking is undone by the ticks, and no leftover of a dead command stops it.  *)
StableGreenLands ==
    ~<>[](pull.ci = "green" /\ Enrolled(Snap) /\ ~Held(Snap))

=============================================================================
