---------------------------- MODULE StackLanding ----------------------------
(***************************************************************************)
(* The landing transaction of one native GitHub Stack: the checkpoint      *)
(* ladder of github/stack_land.rs (planned, locked, submitting, submitted, *)
(* terminal, released), driven once per sync tick by                       *)
(* reconcile_pending_native_stack_landing_checkpoints and then by          *)
(* drain_native_stack (sync.rs), over the ruleset lock of                  *)
(* github/stack_lock.rs and the asynchronous merge of                      *)
(* github/stack_merge.rs.                                                  *)
(*                                                                         *)
(* Every provider call and every durable write is a step of its own.  The  *)
(* provider, people pushing and merging by hand, and other clones act in   *)
(* between; a tick may be killed or fail with an error between two steps.  *)
(***************************************************************************)
EXTENDS Naturals

CONSTANTS N,            \* entries of the Stack, bottom to top
          MaxLandings,  \* bound: landing transactions begun
          MaxFaults,    \* bound: killed ticks and failed provider calls
          MaxOutside,   \* bound: pushes, unrelated landings, foreign cleanups
          NoCursor      \* land-<stack>.json does not exist

ASSUME NAssumption == N \in Nat \ {0}
ASSUME LandingBounds ==
  MaxLandings \in Nat /\ MaxFaults \in Nat /\ MaxOutside \in Nat

Entry == 1 .. N
Ops == 1 .. MaxLandings

(* What direct_squash_plan seals: the selected range lo..hi, and of the    *)
(* complete generation the heads and the default branch (counted in        *)
(* unrelated landings).                                                    *)
Plan == [lo : Entry, hi : Entry, heads : [Entry -> 0 .. MaxOutside],
         other : 0 .. MaxOutside]

(* GitHubStackLandPhase in its derived order.                              *)
Rank == [planned |-> 0, locked |-> 1, submitting |-> 2, submitted |-> 3,
         terminal |-> 4, released |-> 5]
Phase == DOMAIN Rank
Definite == {"merged", "failed"}
Status == Definite \cup {"none", "indeterminate"}

(* GitHubStackLandCheckpoint; uuid says whether merge is Some.             *)
Checkpoint == [op : Ops, phase : Phase, uuid : BOOLEAN, status : Status]

ASSUME NoCursorAssumption == NoCursor \notin Checkpoint

(* What the provider knows of a request: nothing, on its way, accepted and *)
(* running, ended without landing, ended landed.                           *)
Request == {"none", "sent", "running", "failed", "done"}
Outcome == {"none", "not_attempted", "unknown", "applied", "not_applied"}
Answer == {"none", "failed", "merged"}
LandPc == {"idle", "link", "step", "readback", "verify", "generation", "put",
       "reply", "get", "tip", "observe", "archive", "cursor", "released",
       "cleanup", "drain"}

VARIABLES
  merged,    \* provider: entries 1..merged are merged
  head,      \* provider: the head generation of each entry
  other,     \* provider: unrelated landings on the default branch
  tip,       \* provider: entry whose merge commit is the default tip, or 0
  by,        \* history: the operation whose request merged an entry, or 0
  suffix,    \* provider: the open suffix is rebased and represented exactly
  rules,     \* provider: operations whose lock ruleset is active
  req,       \* provider: the request of each operation
  cursor,    \* disk: land-<stack>.json
  archive,   \* disk: outcome in receipt-land-<op>.json
  plan,      \* the sealed plan of each operation
  pc, cp,    \* tick: next step; the checkpoint in memory
  draining,  \* tick: inside drain_native_stack, not the reconcile loop
  marked,    \* tick: submission_marked_now
  snap,      \* tick: merged and suffix as the tick's status read them
  seen,      \* tick: lock verified, provider answer, default tip
  puts,      \* history: PUTs sent for each operation
  foreign,   \* history: a foreign cleanup deleted a lock
  faults, outside   \* bounds used up

provider == <<merged, by, head, other, tip, suffix>>
disk == <<cursor, archive, plan>>
tick == <<draining, marked, snap, seen>>
landVars == <<provider, rules, req, disk, pc, cp, tick, puts, foreign, faults,
          outside>>

Blank == [lock |-> TRUE, answer |-> "none", tip |-> 0]

LandInit ==
  /\ merged = 0 /\ head = [i \in Entry |-> 0] /\ other = 0 /\ tip = 0
  /\ by = [i \in Entry |-> 0] /\ suffix = TRUE
  /\ rules = {} /\ req = [o \in Ops |-> "none"]
  /\ cursor = NoCursor /\ archive = [o \in Ops |-> "none"]
  /\ plan = [o \in Ops |-> [lo |-> 1, hi |-> 1, other |-> 0,
                            heads |-> [i \in Entry |-> 0]]]
  /\ pc = "idle" /\ cp = NoCursor
  /\ draining = FALSE /\ marked = FALSE
  /\ snap = [merged |-> 0, suffix |-> TRUE] /\ seen = Blank
  /\ puts = [o \in Ops |-> 0] /\ foreign = FALSE
  /\ faults = 0 /\ outside = 0

(* The plan of the transaction in memory.                                  *)
P == plan[cp.op]
HeadsExact(p) == \A i \in p.lo .. p.hi : head[i] = p.heads[i]

(* The request can still merge an entry.                                   *)
InFlight(o) == /\ req[o] \in {"sent", "running"}
               /\ merged < plan[o].hi

Fault == faults < MaxFaults /\ faults' = faults + 1
NoFault == UNCHANGED faults

(* The tick's result is an error or its work is over: memory is gone.      *)
EndTick == pc' = "idle" /\ cp' = NoCursor /\ draining' = FALSE
           /\ marked' = FALSE /\ seen' = Blank
           /\ snap' = [merged |-> 0, suffix |-> TRUE]
LandGoto(l) == pc' = l /\ UNCHANGED <<cp, tick>>

-----------------------------------------------------------------------------
(* A tick reads status, lists the land- cursor and links it to its own     *)
(* receipt by saving it once more.                                         *)
TickStart ==
  /\ pc = "idle"
  /\ snap' = [merged |-> merged, suffix |-> suffix]
  /\ pc' = IF cursor = NoCursor THEN "cleanup" ELSE "link"
  /\ cp' = cursor
  /\ UNCHANGED <<provider, rules, req, disk, draining, marked, seen, puts,
                 foreign, faults, outside>>

(* receipt::save_native derives the archived outcome from the checkpoint.  *)
OutcomeOf(c) ==
  CASE c.status = "merged" -> "applied"
    [] c.status = "failed" -> "not_applied"
    [] c.status \notin Definite /\ Rank[c.phase] < Rank["submitting"]
         -> "not_attempted"
    [] OTHER -> "unknown"

(* Mutant: the reconcile loop overlooks terminal checkpoints.              *)
LinkSkipsTerminal ==
  /\ pc = "link"
  /\ archive' = [archive EXCEPT ![cp.op] = OutcomeOf(cp)]
  /\ LandGoto(CASE cp.phase = "released" -> "released"
            [] cp.phase \in {"planned", "locked", "terminal"} -> "cleanup"
            [] OTHER -> "step")
  /\ UNCHANGED <<provider, rules, req, cursor, plan, puts, foreign, faults,
                 outside>>

(* The loaded cursor rewrites its archive entry; then the reconcile loop   *)
(* takes submitting, submitted and terminal checkpoints.                   *)
Link ==
  /\ pc = "link"
  /\ archive' = [archive EXCEPT ![cp.op] = OutcomeOf(cp)]
  /\ LandGoto(CASE cp.phase = "released" -> "released"
            [] cp.phase \in {"planned", "locked"} -> "cleanup"
            [] OTHER -> "step")
  /\ UNCHANGED <<provider, rules, req, cursor, plan, puts, foreign, faults,
                 outside>>

(* save_native: the archive is written before the cursor.                  *)
SaveArchive ==
  /\ pc = "archive"
  /\ archive' = [archive EXCEPT ![cp.op] = OutcomeOf(cp)]
  /\ LandGoto("cursor")
  /\ UNCHANGED <<provider, rules, req, cursor, plan, puts, foreign, faults,
                 outside>>

(* The reconcile loop leaves at released; the drain loop goes on.          *)
SaveCursor ==
  /\ pc = "cursor"
  /\ cursor' = cp
  /\ LandGoto(IF cp.phase = "released" /\ ~draining THEN "released" ELSE "step")
  /\ UNCHANGED <<provider, rules, req, archive, plan, puts, foreign, faults,
                 outside>>

(* The next checkpoint, on its way to save_native.                         *)
Advance(c) == cp' = c /\ pc' = "archive"

-----------------------------------------------------------------------------
(* drain_native_stack with no cursor: a ready prefix of the open entries   *)
(* is planned from a fresh generation and saved before any provider write. *)
Begin(o, hi) ==
  /\ pc = "drain" /\ cursor = NoCursor
  /\ archive[o] = "none"
  /\ \A q \in 1 .. (o - 1) : archive[q] # "none"
  /\ merged < hi
  /\ plan' = [plan EXCEPT ![o] = [lo |-> merged + 1, hi |-> hi,
                                  heads |-> head, other |-> other]]
  /\ Advance([op |-> o, phase |-> "planned", uuid |-> FALSE,
              status |-> "none"])
  /\ UNCHANGED <<provider, rules, req, cursor, archive, tick, puts, foreign,
                 faults, outside>>

(* drain_native_stack resumes the cursor it loads.                         *)
Resume ==
  /\ pc = "drain" /\ cursor # NoCursor
  /\ cp' = cursor /\ pc' = "step"
  /\ UNCHANGED <<provider, rules, req, disk, tick, puts, foreign, faults,
                 outside>>

(* The caravan does not reach drain_native_stack in this tick, its root or *)
(* prefix is not ready, or the loop is at a phase that waits for a later   *)
(* tick: native_required_ready refuses, or the cursor is released.         *)
Wait ==
  /\ \/ pc = "drain"
     \/ pc = "step" /\ cp.phase \in {"planned", "locked", "released"}
  /\ EndTick
  /\ UNCHANGED <<provider, rules, req, disk, puts, foreign, faults, outside>>

(* native_required_ready: every selected PR is open at its planned head.   *)
RequiredReady == merged < P.lo /\ HeadsExact(P)

(* planned: POST the ruleset, or find the one an earlier tick created.     *)
AcquireLock ==
  /\ pc = "step" /\ draining /\ cp.phase = "planned"
  /\ RequiredReady
  /\ rules' = rules \cup {cp.op}
  /\ LandGoto("readback")
  /\ UNCHANGED <<provider, req, disk, puts, foreign, faults, outside>>

(* The acquisition counts only when the ruleset is read back by name.      *)
ReadbackLock ==
  /\ pc = "readback"
  /\ IF cp.op \in rules
     THEN Advance([cp EXCEPT !.phase = "locked"]) /\ UNCHANGED tick
     ELSE EndTick
  /\ UNCHANGED <<provider, rules, req, disk, puts, foreign, faults, outside>>

(* locked: audit comments, a second readiness check, then the marker.      *)
MarkSubmitting ==
  /\ pc = "step" /\ cp.phase = "locked"
  /\ RequiredReady
  /\ Advance([cp EXCEPT !.phase = "submitting"])
  /\ marked' = TRUE
  /\ UNCHANGED <<provider, rules, req, disk, draining, snap, seen, puts,
                 foreign, faults, outside>>

(* submitting, marked by this very run: submit under the verified lock.    *)
BeginSubmit ==
  /\ pc = "step" /\ cp.phase = "submitting" /\ marked
  /\ LandGoto("verify")
  /\ UNCHANGED <<provider, rules, req, disk, puts, foreign, faults, outside>>

(* submitting, found on disk: sealed indeterminate, never submitted.       *)
AbandonUncertain ==
  /\ pc = "step" /\ cp.phase = "submitting" /\ ~marked
  /\ Advance([cp EXCEPT !.phase = "terminal", !.status = "indeterminate"])
  /\ UNCHANGED <<provider, rules, req, disk, tick, puts, foreign, faults,
                 outside>>

(* native_stack_branch_lock_verify.  A submission fails with StaleLock; a  *)
(* poll remembers that the lock is lost.                                   *)
VerifyLock ==
  /\ pc = "verify"
  /\ \E ok \in BOOLEAN :
       /\ \/ ok = (cp.op \in rules) /\ NoFault
          \/ ~ok /\ cp.op \in rules /\ Fault         \* the read failed
       /\ IF cp.phase = "submitting" /\ ~ok
          THEN EndTick
          ELSE /\ pc' = IF cp.phase = "submitting" THEN "generation"
                                                   ELSE "get"
               /\ seen' = [seen EXCEPT !.lock = ok]
               /\ UNCHANGED <<cp, draining, marked, snap>>
  /\ UNCHANGED <<provider, rules, req, disk, puts, foreign, outside>>

(* The final generation read: anything changed since the plan is an error, *)
(* and the cursor stays at its submitting marker.                          *)
GenerationCurrent ==
  merged = P.lo - 1 /\ head = P.heads /\ other = P.other

ReadGeneration ==
  /\ pc = "generation"
  /\ IF GenerationCurrent THEN LandGoto("put") ELSE EndTick
  /\ UNCHANGED <<provider, rules, req, disk, puts, foreign, faults, outside>>

Put ==
  /\ pc = "put"
  /\ req' = [req EXCEPT ![cp.op] = "sent"]
  /\ puts' = [puts EXCEPT ![cp.op] = @ + 1]
  /\ LandGoto("reply")
  /\ UNCHANGED <<provider, rules, disk, foreign, faults, outside>>

(* Remember the answer and go on to observe_stack_merge.                   *)
Observe(c, a) ==
  /\ cp' = c /\ pc' = "tip"
  /\ seen' = [seen EXCEPT !.answer = a]
  /\ UNCHANGED <<draining, marked, snap>>

(* The response to the PUT: a pending UUID, a terminal status, a refusal   *)
(* that carries no status, or nothing at all.                              *)
Reply ==
  /\ pc = "reply"
  /\ \/ /\ req[cp.op] = "running" /\ NoFault
        /\ Advance([cp EXCEPT !.phase = "submitted", !.uuid = TRUE])
        /\ UNCHANGED tick
     \/ /\ req[cp.op] = "done" /\ NoFault
        /\ Observe([cp EXCEPT !.uuid = TRUE], "merged")
     \/ /\ req[cp.op] = "failed" /\ NoFault
        /\ Observe(cp, "failed")
     \/ /\ Fault
        /\ Observe(cp, "none")
  /\ UNCHANGED <<provider, rules, req, disk, puts, foreign, outside>>

(* submitted: verify the lock, then ask for the UUID.                      *)
BeginPoll ==
  /\ pc = "step" /\ cp.phase = "submitted"
  /\ LandGoto("verify")
  /\ UNCHANGED <<provider, rules, req, disk, puts, foreign, faults, outside>>

(* GET merge-async/<uuid>.  Pending leaves the phase alone and ends the    *)
(* loop, except that a lost lock makes it indeterminate.                   *)
Poll ==
  /\ pc = "get"
  /\ \/ /\ req[cp.op] = "running" /\ NoFault
        /\ IF cp.phase = "submitted" /\ ~seen.lock
           THEN /\ Advance([cp EXCEPT !.phase = "terminal",
                                      !.status = "indeterminate"])
                /\ UNCHANGED tick
           ELSE IF draining THEN EndTick ELSE LandGoto("cleanup")
     \/ /\ req[cp.op] \in {"failed", "done"} /\ NoFault
        /\ Observe(cp, IF req[cp.op] = "done" THEN "merged" ELSE "failed")
     \/ /\ Fault
        /\ Observe(cp, "none")
  /\ UNCHANGED <<provider, rules, req, disk, puts, foreign, outside>>

(* observe_stack_merge reads the default branch before the pull requests.  *)
ObserveTip ==
  /\ pc = "tip"
  /\ seen' = [seen EXCEPT !.tip = tip]
  /\ pc' = "observe"
  /\ UNCHANGED <<provider, rules, req, disk, cp, draining, marked, snap, puts,
                 foreign, faults, outside>>

(* classify_observation and terminal_stack_merge_receipt: merged needs     *)
(* every selected entry merged in order at its planned head with the top   *)
(* merge commit on the default tip and the suffix still open; failed needs *)
(* the provider's word and no selected entry merged.                       *)
Classify ==
  CASE merged = P.hi /\ seen.tip = P.hi /\ HeadsExact(P) -> "merged"
    [] merged < P.lo /\ seen.answer = "failed" -> "failed"
    [] OTHER -> "indeterminate"

(* The pull requests and the Stack.  A lost lock overrides what a poll     *)
(* observed; a released checkpoint only ever gains a definite status.      *)
ObserveStack ==
  /\ pc = "observe"
  /\ \E s \in Status :
       /\ \/ s = Classify /\ NoFault
          \/ s = "indeterminate" /\ Fault             \* a read failed
       /\ IF cp.phase = "released"
          THEN IF s \in Definite
               THEN Advance([cp EXCEPT !.status = s])
               ELSE pc' = "cleanup" /\ UNCHANGED cp
          ELSE Advance([cp EXCEPT !.phase = "terminal",
                                  !.status = IF seen.lock
                                             THEN s ELSE "indeterminate"])
  /\ seen' = Blank
  /\ UNCHANGED <<provider, rules, req, disk, draining, marked, snap, puts,
                 foreign, outside>>

(* terminal: delete the exact ruleset, or find it already gone.            *)
Release ==
  /\ pc = "step" /\ cp.phase = "terminal"
  /\ rules' = rules \ {cp.op}
  /\ Advance([cp EXCEPT !.phase = "released"])
  /\ UNCHANGED <<provider, req, disk, tick, puts, foreign, faults, outside>>

-----------------------------------------------------------------------------
(* Mutant: a definite result is observed again as well.                    *)
ReobserveAlways ==
  /\ pc = "released" /\ cp.status # "none"
  /\ LandGoto(IF cp.uuid THEN "get" ELSE "tip")
  /\ UNCHANGED <<provider, rules, req, disk, puts, foreign, faults, outside>>

(* A released indeterminate result is observed again: its UUID if it has   *)
(* one, the pull requests alone if not.                                    *)
Reobserve ==
  /\ pc = "released" /\ cp.status = "indeterminate"
  /\ LandGoto(IF cp.uuid THEN "get" ELSE "tip")
  /\ UNCHANGED <<provider, rules, req, disk, puts, foreign, faults, outside>>

(* Mutant: an unknown outcome may converge too.                            *)
ConvergedUnknown ==
  /\ snap.merged > 0
  /\ 1 .. snap.merged \subseteq P.lo .. P.hi
  /\ cp.status = "merged" => P.hi <= snap.merged
  /\ snap.merged < N => snap.suffix

(* native_stack_landing_converged, over the status the tick began with.    *)
Converged ==
  /\ cp.status \in Definite
  /\ snap.merged > 0
  /\ 1 .. snap.merged \subseteq P.lo .. P.hi
  /\ cp.status = "merged" => P.hi <= snap.merged
  /\ snap.merged < N => snap.suffix

(* The receipt is kept under a retired- key and the cursor is removed.     *)
Retire ==
  /\ pc = "released" /\ Converged
  /\ cursor' = NoCursor
  /\ pc' = "cleanup" /\ cp' = NoCursor
  /\ UNCHANGED <<provider, rules, req, archive, plan, tick, puts, foreign,
                 faults, outside>>

(* observe_convergence_pending: the cursor stays, with one more count.     *)
ConvergencePending ==
  /\ pc = "released" /\ cp.status # "indeterminate" /\ ~Converged
  /\ LandGoto("cleanup")
  /\ UNCHANGED <<provider, rules, req, disk, puts, foreign, faults, outside>>

(* Mutant: a submitted checkpoint no longer protects its lock.             *)
LockWithoutSubmitted ==
  IF cursor # NoCursor /\ cursor.phase \in {"locked", "submitting", "terminal"}
  THEN {cursor.op} ELSE {}

(* outstanding_lock of the cursor on disk.                                 *)
OutstandingLock ==
  IF cursor # NoCursor /\ cursor.phase \notin {"planned", "released"}
  THEN {cursor.op} ELSE {}

(* Rulesets with Cara's name prefix that no cursor accounts for are        *)
(* deleted; then the tick goes on towards drain_native_stack.              *)
CleanupOrphans ==
  /\ pc = "cleanup"
  /\ rules' = rules \cap OutstandingLock
  /\ pc' = "drain" /\ cp' = NoCursor /\ draining' = TRUE
  /\ UNCHANGED <<provider, req, disk, marked, snap, seen, puts, foreign,
                 faults, outside>>

(* The tick is killed, or returns an error, between two steps.             *)
Abort ==
  /\ pc # "idle" /\ Fault
  /\ EndTick
  /\ UNCHANGED <<provider, rules, req, disk, puts, foreign, outside>>

Tick ==
  \/ TickStart \/ Link \/ SaveArchive \/ SaveCursor
  \/ \E o \in Ops, hi \in Entry : Begin(o, hi)
  \/ Resume \/ Wait \/ AcquireLock \/ ReadbackLock \/ MarkSubmitting
  \/ BeginSubmit \/ AbandonUncertain \/ VerifyLock \/ ReadGeneration \/ Put
  \/ Reply \/ BeginPoll \/ Poll \/ ObserveTip \/ ObserveStack \/ Release
  \/ Reobserve \/ Retire \/ ConvergencePending \/ CleanupOrphans

-----------------------------------------------------------------------------
(* The provider.  A request is accepted only with the planned top SHA; the *)
(* lower heads are not leased.                                             *)
Accept(o) ==
  /\ req[o] = "sent"
  /\ req' = [req EXCEPT ![o] =
       IF head[plan[o].hi] = plan[o].heads[plan[o].hi] THEN "running"
                                                       ELSE "failed"]
  /\ UNCHANGED <<provider, rules, disk, pc, cp, tick, puts, foreign, faults,
                 outside>>

(* One more entry is merged, by a request or by hand.                      *)
Land(i, o) ==
  /\ merged' = i /\ tip' = i /\ by' = [by EXCEPT ![i] = o] /\ suffix' = (i = N)
  /\ UNCHANGED <<head, other>>

MergeEntry(o) ==
  /\ req[o] = "running" /\ merged < plan[o].hi
  /\ Land(merged + 1, o)
  /\ req' = [req EXCEPT ![o] = IF merged + 1 = plan[o].hi THEN "done" ELSE @]
  /\ UNCHANGED <<rules, disk, pc, cp, tick, puts, foreign, faults, outside>>

FailRequest(o) ==
  /\ req[o] = "running"
  /\ req' = [req EXCEPT ![o] = "failed"]
  /\ UNCHANGED <<provider, rules, disk, pc, cp, tick, puts, foreign, faults,
                 outside>>

(* Ordinary sync, outside this module, rebases and rebuilds the suffix.    *)
RepairSuffix ==
  /\ ~suffix /\ suffix' = TRUE
  /\ UNCHANGED <<merged, by, head, other, tip, rules, req, disk, pc, cp, tick,
                 puts, foreign, faults, outside>>

Outside == outside < MaxOutside /\ outside' = outside + 1

ManualMerge ==
  /\ merged < N /\ Outside
  /\ Land(merged + 1, 0)
  /\ UNCHANGED <<rules, req, disk, pc, cp, tick, puts, foreign, faults>>

(* A push to an open entry; any active ruleset refuses it.                 *)
Push(i) ==
  /\ i > merged /\ rules = {} /\ Outside
  /\ head' = [head EXCEPT ![i] = @ + 1]
  /\ UNCHANGED <<merged, by, other, tip, suffix, rules, req, disk, pc, cp, tick,
                 puts, foreign, faults>>

OtherLanding ==
  /\ Outside
  /\ other' = other + 1 /\ tip' = 0
  /\ UNCHANGED <<merged, by, head, suffix, rules, req, disk, pc, cp, tick, puts,
                 foreign, faults>>

(* The orphan cleanup of another clone, which has no cursor for our locks. *)
ForeignCleanup ==
  /\ rules # {} /\ Outside
  /\ rules' = {} /\ foreign' = TRUE
  /\ UNCHANGED <<provider, req, disk, pc, cp, tick, puts, faults>>

Provider ==
  \/ \E o \in Ops : Accept(o) \/ MergeEntry(o) \/ FailRequest(o)
  \/ RepairSuffix

Environment ==
  \/ ManualMerge \/ \E i \in Entry : Push(i)
  \/ OtherLanding \/ ForeignCleanup

LandNext == Tick \/ Abort \/ Provider \/ Environment

LandSpec == LandInit /\ [][LandNext]_landVars

(* The scheduler keeps running ticks and a tick keeps taking steps; the    *)
(* provider ends every request; ordinary sync repairs the suffix.          *)
LandFairness ==
  /\ WF_landVars(Tick)
  /\ \A o \in Ops : WF_landVars(Accept(o)) /\ WF_landVars(MergeEntry(o) \/ FailRequest(o))
  /\ WF_landVars(RepairSuffix)

-----------------------------------------------------------------------------
Pair == [merged : 0 .. N, suffix : BOOLEAN]
Seen == [lock : BOOLEAN, answer : Answer, tip : 0 .. N]

(* The state is well formed: provider, disk, the tick's memory, history.   *)
LandTypeOK ==
  /\ merged \in 0 .. N /\ tip \in 0 .. N /\ suffix \in BOOLEAN
  /\ by \in [Entry -> Ops \cup {0}]
  /\ head \in [Entry -> 0 .. MaxOutside] /\ other \in 0 .. MaxOutside
  /\ rules \in SUBSET Ops /\ req \in [Ops -> Request]
  /\ cursor \in Checkpoint \cup {NoCursor}
  /\ archive \in [Ops -> Outcome] /\ plan \in [Ops -> Plan]
  /\ pc \in LandPc /\ cp \in Checkpoint \cup {NoCursor}
  /\ draining \in BOOLEAN /\ marked \in BOOLEAN
  /\ snap \in Pair /\ seen \in Seen
  /\ puts \in [Ops -> Nat] /\ foreign \in BOOLEAN
  /\ faults \in 0 .. MaxFaults /\ outside \in 0 .. MaxOutside

(* However ticks are killed, resumed and retried, a transaction sends its  *)
(* merge PUT at most once: an unidentified submission is never replayed.   *)
AtMostOneSubmission == \A o \in Ops : puts[o] <= 1

(* What receipt-land-<op>.json claims is true of the provider: applied     *)
(* entries are merged at the planned heads; a request recorded as not      *)
(* applied has ended and merged nothing; not attempted means no PUT.       *)
OutcomeSound ==
  \A o \in Ops :
    /\ archive[o] = "applied" => plan[o].hi <= merged /\ HeadsExact(plan[o])
    /\ archive[o] = "not_applied" =>
         req[o] = "failed" /\ \A i \in Entry : by[i] # o
    /\ archive[o] = "not_attempted" => puts[o] = 0

(* No transaction begins while the request of an earlier one can still     *)
(* merge an entry, so no two requests ever race on the same Stack.         *)
OneRequestAtATime ==
  \A o, q \in Ops : InFlight(o) /\ InFlight(q) => o = q

(* What a tick may send and claim: one PUT for a transaction, none while   *)
(* an earlier request of the Stack is open, and no result that is false.   *)
RequestsSound == AtMostOneSubmission /\ OneRequestAtATime /\ OutcomeSound

(* Every active ruleset belongs to the transaction of the cursor, and none *)
(* outlives a saved release: no lock is left that no cursor would remove.  *)
LocksAccounted ==
  /\ rules # {} => cursor # NoCursor /\ rules = {cursor.op}
  /\ cursor # NoCursor /\ cursor.phase = "released" => rules = {}

(* From locked to submitted the saved transaction has its lock in force,   *)
(* whatever orphan cleanup, crash and resume do, unless another clone      *)
(* deleted it.                                                             *)
InFlightKeepsLock ==
  /\ cursor # NoCursor
  /\ cursor.phase \in {"locked", "submitting", "submitted"}
  /\ ~foreign
  => cursor.op \in rules

(* What the release of a lock relies on: an active ruleset is the cursor's *)
(* own, and a landing in flight has one, so authors are stopped for as     *)
(* long as a landing needs it and by no lock nobody would remove.          *)
LockSound == LandTypeOK /\ LocksAccounted /\ InFlightKeepsLock

(* A definite result of a transaction is never rewritten, also when the    *)
(* pull requests of a failed request are later merged by hand.             *)
TerminalIsFinal ==
  [][\/ cursor = NoCursor \/ cursor' = NoCursor
     \/ cursor.op # cursor'.op \/ cursor.status \notin Definite
     \/ cursor'.status = cursor.status]_cursor

AtPhase(o, phases) ==
  cursor # NoCursor /\ cursor.op = o /\ cursor.phase \in phases

(* Once submission is marked, the lock is eventually released: no mix of   *)
(* crashes, lost answers and pending polls leaves it behind for good.      *)
LockReleased ==
  \A o \in Ops :
    AtPhase(o, {"submitting", "submitted", "terminal"})
      ~> ~AtPhase(o, {"submitting", "submitted", "terminal"}) /\ o \notin rules

=============================================================================
