-------------------------------- MODULE Tick --------------------------------
(***************************************************************************)
(* One sync tick from beginning to end (sync_with_lock): which phases run, *)
(* in which order, what each may write, when the fleet is read again, and  *)
(* what the tick tells its scheduler (sync/decision.rs); beside it the dry *)
(* run of the same tick (sync/plan.rs) and the policy generation it is     *)
(* fenced on (sync_authority.rs).                                          *)
(*                                                                         *)
(* A phase is one action.  What it does to a caravan is abstract here: the *)
(* modules StackLanding, StackRebuild, RootMerge, Holds, CI and Admission  *)
(* have the details.  A tick acts on the status it has read; people, CI    *)
(* and GitHub change the fleet between any two of its steps.               *)
(***************************************************************************)
EXTENDS Naturals, FiniteSets

CONSTANTS
  Caravans,    \* caravans, by age
  Configs,     \* the configurations to consider
  MaxLeft,     \* members a caravan has at most
  MaxEvents    \* what people do to the fleet, failed checks, and ticks that die

\* What an instance has to satisfy.
ASSUME TickBounds == Caravans \subseteq Nat /\ {MaxLeft, MaxEvents} \subseteq Nat

VARIABLES
  config,   \* [native, rewrite, github, park, all, authority]
  fleet,    \* what GitHub has of each caravan
  queue,    \* an unqueued pull request is eligible for admission
  moved,    \* the default branch moved since the tick fetched its policy
  tick,     \* the tick in progress
  out,      \* what the tick has reported
  left      \* events still to come

tickVars == <<config, fleet, queue, moved, tick, out, left>>

\* A caravan: its open members; CI and base of its root; whether the chain is built on the
\* default branch; whether somebody else armed a merge; its marks; its native Stack, a
\* landing that GitHub works on, and a closed member whose labels are still active.
Caravan == [left: 0..MaxLeft, ci: {"waiting", "green", "red"}, based: BOOLEAN, built: BOOLEAN,
            armed: BOOLEAN, parked: BOOLEAN, held: BOOLEAN, conflict: BOOLEAN,
            stack: {"ok", "append", "history", "missing", "drift", "broken"},
            landing: {"none", "submitted", "merged"}, closed: BOOLEAN]

New == [left |-> 1, ci |-> "waiting", based |-> TRUE, built |-> TRUE, armed |-> FALSE, parked |-> FALSE,
        held |-> FALSE, conflict |-> FALSE, stack |-> "ok", landing |-> "none", closed |-> FALSE]

Phases == {"idle", "discover", "gate", "closed", "landing", "stack", "root", "parking", "prefix", "rewrite",
           "midpoint", "converge", "final", "complete", "admit", "joined", "report", "reread", "only"}

IdleTick == [pc |-> "idle", then |-> "idle", rebind |-> FALSE, seen |-> <<>>, fresh |-> FALSE, bound |-> FALSE,
         done |-> {}, synced |-> {}, ci |-> {}, steps |-> FALSE, plan |-> {}, calm |-> TRUE, path |-> "none", wrote |-> {}]

NoOutput == [ok |-> FALSE, wake |-> "none", path |-> "none", fresh |-> FALSE]

--------------------------------------------------------------------------------
(* Selection and the graph.                                                    *)

Active(s) == {c \in Caravans : s[c].left > 0}

\* quarantined_native_caravan_ids: drift that automatic repair has refused.
Quarantined(s) == {c \in Active(s) : config.native /\ s[c].stack = "broken"}

\* blocking_native_stack_problems: a Stack that is neither right nor quarantined.
BackendHealthy(s) == ~config.native \/ \A c \in Active(s) : s[c].stack \in {"ok", "broken"}

\* select_caravans; a targeted tick has one caravan, and only while it knows its own.
Target == CHOOSE c \in Caravans : \A d \in Caravans : c <= d
Selects == config.all \/ (tick.bound /\ Target \in Active(tick.seen) \ Quarantined(tick.seen) /\ ~tick.seen[Target].parked)
Selected(s) == (IF config.all THEN Active(s) ELSE {Target} \cap Active(s))
                 \ (Quarantined(s) \cup {c \in Caravans : s[c].parked})
Unpaused(s) == {c \in Selected(s) : ~s[c].held}

\* The first caravan of a set, by age.
First(cs) == CHOOSE c \in cs : \A d \in cs : c <= d

\* validate_graph and validate_rebase_preflight_graph: a conflict of a selected caravan
\* stops the tick.
Blocked(s, cs) == \E c \in cs : s[c].conflict

--------------------------------------------------------------------------------
(* The end of a tick.                                                          *)

\* Mutant: the front of a queue that cannot proceed is not looked at.
DispositionNoStalls(s, ci) ==
  CASE Quarantined(s) # {}                 -> "external"
    [] \E o \in ci : o[2] = "waiting"      -> "waiting"
    [] \E c \in Selected(s) : s[c].held    -> "held"
    [] OTHER                               -> "healthy"

\* head_of_line_stalls: the front of a queue cannot proceed.
HeadOfLine(s, ci) == {c \in Active(s) : s[c].conflict \/ <<c, "red">> \in ci}

\* successful_scheduler_status: s is the status the tick reports, ci what it observed.
Disposition(s, ci) ==
  CASE Quarantined(s) # {}                 -> "external"
    [] \E o \in ci : o[2] = "waiting"      -> "waiting"
    [] HeadOfLine(s, ci) # {}              -> "external"
    [] \E c \in Selected(s) : s[c].held    -> "held"
    [] OTHER                               -> "healthy"

\* scheduler_failure_status and sync_failed_event: who is woken by an error.
Fail(wake) ==
  /\ tick' = IdleTick
  /\ out' = [ok |-> FALSE, wake |-> wake, path |-> tick.path, fresh |-> tick.fresh]

\* The outputs of the phases that end a tick early, and of a complete one.  d overrides
\* the disposition that the status yields.
Report(d) ==
  LET own == Disposition(tick.seen, tick.ci)
      result == IF d = "healthy_retries" THEN (IF own = "healthy" THEN "retry" ELSE own)
                ELSE IF d = "own" THEN own ELSE d
  IN /\ tick' = IdleTick
     /\ out' = [ok |-> TRUE, wake |-> result, path |-> tick.path, fresh |-> tick.fresh]

\* A write whose precondition no longer holds, and a graph problem that needs a decision.
StaleStop == Fail("retry")
DecisionStop == Fail("external")

Go(pc) == tick' = [tick EXCEPT !.pc = pc]

\* A write: it is fenced on what the tick has read, and it makes that status old.
Same(c) == /\ [fleet[c] EXCEPT !.ci = "waiting", !.landing = "none"]
                = [tick.seen[c] EXCEPT !.ci = "waiting", !.landing = "none"]
Wrote(kind, cs) == [tick EXCEPT !.fresh = FALSE, !.steps = TRUE, !.wrote = @ \cup ({kind} \X cs),
                               !.calm = @ /\ kind \notin {"retire", "append", "recover", "park"}]

\* fleet_status_for_sync, and what the tick does next; bind_invocation is not called by
\* every one of them.
ReadAgain(t, then, rebind) == [t EXCEPT !.pc = "reread", !.then = then, !.rebind = rebind]

Reread ==
  /\ tick.pc = "reread"
  /\ tick' = [tick EXCEPT !.pc = tick.then, !.then = "idle", !.rebind = FALSE, !.seen = fleet, !.fresh = TRUE,
                          !.bound = tick.rebind \/ ~config.authority]
  /\ UNCHANGED <<config, fleet, queue, moved, out, left>>

--------------------------------------------------------------------------------
(* The dry run.                                                                *)

\* What a plan from status s names, as written now or after a rediscovery.
PlanClosed(s) == {"closed"} \X {c \in Caravans : s[c].closed}

Repairs(s) == IF config.native
              THEN <<{c \in Active(s) : s[c].stack = "history"}, {c \in Active(s) : s[c].stack = "drift"},
                     {c \in Active(s) : ~s[c].built /\ s[c].stack = "ok" /\ ~s[c].held}>>
              ELSE <<{}, {}, {}>>

PlanRepair(s) == LET r == Repairs(s) IN
                 IF r[1] # {} THEN {<<"repair", First(r[1])>>}
                 ELSE IF r[2] # {} THEN {<<"repair", First(r[2])>>}
                 ELSE IF r[3] # {} THEN {<<"repair", First(r[3])>>} ELSE {}

\* plan_caravan_convergence: with rewrites ahead everything is deferred and named; without,
\* the plan of a caravan stops at a failed check.
PlanPromotions(s) == {"promote"} \X Unpaused(s)
PlanMerges(s, deferred) == {"disarm", "merge"} \X {c \in Unpaused(s) : deferred \/ s[c].ci # "red"}

\* plan_auto_admission_with_checker: a place is not named, it depends on the writes before.
PlanAdmission == {"admit"} \X Caravans

\* plan_sync_inner: the chains that prepare_physical_chains would write.
PlanRewrites(s) == IF config.rewrite THEN {"rewrite"} \X {c \in Unpaused(s) : ~s[c].built} ELSE {}

PlanSync(s) == IF \E c \in Caravans : s[c].closed THEN PlanClosed(s)
               ELSE IF PlanRepair(s) # {} THEN PlanRepair(s)
               ELSE PlanRewrites(s) \cup PlanPromotions(s) \cup PlanMerges(s, PlanRewrites(s) # {}) \cup PlanAdmission

--------------------------------------------------------------------------------
(* The tick.                                                                   *)

\* sync_authority::prepare: the policy of one fetched default-branch generation.
Prepare ==
  /\ tick.pc = "idle"
  /\ tick' = [IdleTick EXCEPT !.pc = "discover", !.then = "closed"]
  /\ out' = NoOutput
  /\ moved' = FALSE
  /\ UNCHANGED <<config, fleet, queue, left>>

\* The initial discovery and bind_invocation.
Discover ==
  /\ tick.pc = "discover"
  /\ tick' = [tick EXCEPT !.pc = "gate", !.seen = fleet, !.fresh = TRUE, !.bound = TRUE, !.plan = PlanSync(fleet)]
  /\ UNCHANGED <<config, fleet, queue, moved, out, left>>

\* DefaultBranchAuthority::revalidate, before the first write.
Gate ==
  /\ tick.pc = "gate"
  /\ IF moved /\ config.authority THEN StaleStop ELSE Go(tick.then) /\ UNCHANGED out
  /\ UNCHANGED <<config, fleet, queue, moved, left>>

\* reconcile_closed_lifecycle: labels of closed members, and nothing else in this tick.
Closed ==
  /\ tick.pc = "closed"
  /\ LET rows == {c \in Caravans : tick.seen[c].closed} IN
     \/ rows = {} /\ Go(IF config.native THEN "landing" ELSE "root") /\ UNCHANGED <<fleet, out>>
     \/ /\ rows # {} /\ \A c \in rows : Same(c)
        /\ fleet' = [c \in Caravans |-> [fleet[c] EXCEPT !.closed = @ /\ c \notin rows]]
        /\ tick' = ReadAgain([Wrote("closed", rows) EXCEPT !.path = "closed"], "report", FALSE)
        /\ UNCHANGED out
     \/ (\E c \in rows : ~Same(c)) /\ StaleStop /\ UNCHANGED fleet
  /\ UNCHANGED <<config, queue, moved, left>>

\* reconcile_pending_native_stack_landing_checkpoints: a landing that GitHub has finished is
\* retired, and the tick goes on with a new status.
Landing ==
  /\ tick.pc = "landing"
  /\ LET ended == {c \in Caravans : fleet[c].landing = "merged"} IN
     IF ended # {}
     THEN /\ fleet' = [c \in Caravans |-> IF c \in ended THEN [fleet[c] EXCEPT !.landing = "none"] ELSE fleet[c]]
          /\ tick' = ReadAgain([Wrote("retire", ended) EXCEPT !.steps = tick.steps], "stack", TRUE)
     ELSE Go("stack") /\ UNCHANGED fleet
  /\ UNCHANGED <<config, queue, moved, out, left>>

\* The Stacks of a kind, and the kinds in the order in which a tick looks for them: a tick
\* that finds one changes it, and ends.
Stacks(kind) == {c \in Active(tick.seen) : tick.seen[c].stack = kind}
OneStack(kind, earlier, write, path, new) ==
  LET c == First(Stacks(kind)) IN
  /\ tick.pc = "stack" /\ Stacks(kind) # {} /\ \A k \in earlier : Stacks(k) = {}
  /\ IF Same(c)
     THEN /\ fleet' = [fleet EXCEPT ![c] = new[c]]
          /\ tick' = ReadAgain([Wrote(write, {c}) EXCEPT !.path = path], "report", TRUE)
          /\ UNCHANGED out
     ELSE StaleStop /\ UNCHANGED fleet
  /\ UNCHANGED <<config, queue, moved, left>>

Rebuilt == [c \in Caravans |-> [fleet[c] EXCEPT !.stack = "ok", !.built = TRUE, !.ci = "waiting"]]

\* project_provider_visible_append: the membership of a tail that the Stack already shows;
\* the Stack itself is repaired by a later tick.
Append == OneStack("append", {}, "append", "append", [c \in Caravans |-> [fleet[c] EXCEPT !.stack = "drift"]])

\* repair_drift_for_sync with ClosedHistory, and with RoutineDrift.  What it refuses stays
\* quarantined.
History == OneStack("history", {"append"}, "repair", "repair", Rebuilt)
Drift == OneStack("drift", {"append", "history", "missing"}, "repair", "repair", Rebuilt)

\* auto_recover_missing: one missing Stack is created again, two are ambiguous; a refusal
\* that concerns a quarantined caravan is passed over (contained_recovery_refusal).
Missing ==
  /\ tick.pc = "stack"
  /\ IF Cardinality(Stacks("missing")) > 1
     THEN /\ Stacks("append") = {} /\ Stacks("history") = {}
          /\ DecisionStop
          /\ UNCHANGED <<config, fleet, queue, moved, left>>
     ELSE OneStack("missing", {"append", "history"}, "recover", "recover",
                   [c \in Caravans |-> [fleet[c] EXCEPT !.stack = "ok"]])

\* repair_drift_for_sync with StaleBase: a root behind the default branch.
Stale ==
  /\ tick.pc = "stack"
  /\ \A k \in {"append", "history", "missing", "drift"} : Stacks(k) = {}
  /\ LET cs == Repairs(tick.seen)[3] IN
     IF cs = {} THEN Go("parking") /\ UNCHANGED <<fleet, out>>
     ELSE IF Same(First(cs))
     THEN /\ fleet' = [fleet EXCEPT ![First(cs)] = Rebuilt[First(cs)]]
          /\ tick' = ReadAgain([Wrote("repair", {First(cs)}) EXCEPT !.path = "repair"], "report", TRUE)
          /\ UNCHANGED out
     ELSE StaleStop /\ UNCHANGED fleet
  /\ UNCHANGED <<config, queue, moved, left>>

\* The root of c lands, and n members in all: every other chain is behind the new default
\* branch, and so is the rest of this one.  based: the next root was promoted.
Landed(c, n, based) ==
  [d \in Caravans |-> IF d # c THEN [fleet[d] EXCEPT !.built = FALSE]
                      ELSE [fleet[c] EXCEPT !.left = @ - n, !.ci = "waiting", !.built = FALSE,
                                            !.based = based \/ fleet[c].left = n, !.landing = "none"]]

Ready(c) == c.ci = "green" /\ c.based /\ c.built /\ ~c.armed

\* execute_root_first, with the backend and the merges of Cara: one root that was ready when
\* the tick read it, and still is, lands; its status stays the one from before.
RootFirst ==
  /\ tick.pc = "root"
  /\ LET cs == {c \in Unpaused(tick.seen) : Ready(tick.seen[c])}
         now == {c \in cs : Same(c) /\ Ready(fleet[c])}
     IN IF config.github THEN Go("parking") /\ UNCHANGED <<fleet, out, moved>>
        ELSE IF ~Selects THEN StaleStop /\ UNCHANGED <<fleet, moved>>
        ELSE IF now = {} THEN Go("parking") /\ UNCHANGED <<fleet, out, moved>>
        ELSE /\ fleet' = Landed(First(now), 1, FALSE)
             /\ tick' = [Wrote("merge", {First(now)}) EXCEPT !.path = "root_first", !.pc = "report"]
             /\ moved' = TRUE
             /\ UNCHANGED out
  /\ UNCHANGED <<config, queue, left>>

\* reconcile_terminal_red_parking: red caravans are parked, green ones unparked.
Parking ==
  /\ tick.pc = "parking"
  /\ LET s == tick.seen
         change == {c \in Active(s) : s[c].parked # (s[c].ci = "red") /\ s[c].ci # "waiting"}
         next == IF config.native THEN "prefix" ELSE "rewrite"
     IN IF ~config.park \/ change = {} THEN Go(next) /\ UNCHANGED <<fleet, out>>
        ELSE IF \A c \in change : Same(c)
        THEN /\ fleet' = [c \in Caravans |-> IF c \in change THEN [fleet[c] EXCEPT !.parked = ~@] ELSE fleet[c]]
             /\ tick' = ReadAgain(Wrote("park", change), next, FALSE)
             /\ UNCHANGED out
        ELSE StaleStop /\ UNCHANGED fleet
  /\ UNCHANGED <<config, queue, moved, left>>

--------------------------------------------------------------------------------
(* reconcile_caravan.                                                          *)

\* Promotion of the root and removal of foreign auto-merge come first.
Prepared(c) == [c EXCEPT !.based = TRUE, !.armed = config.github /\ @]
Needs(c) == (IF c.based THEN {} ELSE {"promote"}) \cup (IF c.armed /\ ~config.github THEN {"disarm"} ELSE {})

\* What reconcile_caravan does with c: a drain of n roots, a submitted Stack landing, a root
\* armed for GitHub, or a wait.  The tick learns CI as it is now.
Lands(c, n) ==
  /\ fleet[c].ci = "green" /\ fleet[c].built /\ n \in 1..fleet[c].left
  /\ fleet' = Landed(c, n, TRUE)
  /\ moved' = TRUE

Submits(c) ==
  /\ fleet[c].ci = "green" /\ fleet[c].built /\ fleet[c].landing = "none"
  /\ fleet' = [fleet EXCEPT ![c] = [Prepared(@) EXCEPT !.landing = "submitted"]]
  /\ UNCHANGED moved

Waits(c) ==
  /\ ~(fleet[c].ci = "green" /\ fleet[c].built) \/ fleet[c].landing # "none" \/ config.github
  /\ fleet' = [fleet EXCEPT ![c] = [Prepared(@) EXCEPT !.armed = config.github]]
  /\ UNCHANGED moved

Reconcile(c, then) ==
  \/ ~Same(c) /\ StaleStop /\ UNCHANGED <<fleet, moved>>
  \/ /\ Same(c) /\ fleet[c].ci = "red" /\ ~config.native
     /\ fleet' = [fleet EXCEPT ![c] = Prepared(@)] /\ UNCHANGED moved
     /\ DecisionStop
  \/ /\ Same(c) /\ (fleet[c].ci # "red" \/ config.native)
     /\ IF config.native THEN Submits(c) \/ Waits(c) ELSE (\E n \in 1..MaxLeft : ~config.github /\ Lands(c, n)) \/ Waits(c)
     /\ LET kinds == Needs(fleet[c]) \cup (IF fleet'[c].left # fleet[c].left \/ fleet'[c].landing # fleet[c].landing
                                           THEN {"merge"} ELSE IF fleet'[c] # fleet[c] THEN {"promote"} ELSE {})
        IN tick' = [tick EXCEPT !.pc = then, !.done = @ \cup {c}, !.synced = @ \cup {c}, !.ci = @ \cup {<<c, fleet[c].ci>>},
                                !.wrote = @ \cup (kinds \X {c}), !.steps = @ \/ kinds # {},
                                !.fresh = @ /\ kinds = {}]
     /\ UNCHANGED out

\* execute_native_stack_prefix_first: the caravans one by one until one of them advances;
\* if there is any, the tick ends here, also when all of them wait.
\* Mutant: one caravan is visited, whatever comes of it.
AdvancedByVisit == tick.done # {}

Advanced == \E w \in tick.wrote : w[1] \in {"promote", "disarm", "merge"}

Prefix ==
  /\ tick.pc = "prefix"
  /\ LET todo == Unpaused(tick.seen) \ tick.done
     IN IF ~Selects THEN StaleStop /\ UNCHANGED <<fleet, moved>>
        ELSE IF todo \cup tick.done = {} THEN Go("converge") /\ UNCHANGED <<fleet, out, moved>>
        ELSE IF Advanced \/ todo = {}
        THEN tick' = [tick EXCEPT !.pc = "report", !.path = "prefix"] /\ UNCHANGED <<fleet, out, moved>>
        ELSE IF tick.seen[First(todo)].conflict THEN DecisionStop /\ UNCHANGED <<fleet, moved>>
        ELSE Reconcile(First(todo), "prefix")
  /\ UNCHANGED <<config, queue, left>>

--------------------------------------------------------------------------------
(* Rewrites, convergence and admission.                                        *)

\* validate_rebase_preflight_graph.
PreflightBlocked(s) == Blocked(s, Unpaused(s))

\* project: the deadline admits a prefix of the chains, never nothing.
DeadlineAdmits(now, behind) == (now # {} \/ behind = {}) /\ \A c \in now, d \in behind \ now : c < d

\* prepare_physical_chains and apply_physical_chains: every selected chain is planned before
\* the first write.
Rewrite ==
  /\ tick.pc = "rewrite"
  /\ LET cs == Unpaused(tick.seen)
         behind == {c \in cs : ~tick.seen[c].built}
     IN IF ~config.rewrite THEN Go("converge") /\ UNCHANGED <<fleet, out>>
        ELSE IF ~Selects THEN StaleStop /\ UNCHANGED fleet
        ELSE IF PreflightBlocked(tick.seen) THEN DecisionStop /\ UNCHANGED fleet
        ELSE IF \E c \in behind : ~Same(c) THEN StaleStop /\ UNCHANGED fleet
        ELSE \E now \in SUBSET behind :
               /\ DeadlineAdmits(now, behind)
               /\ fleet' = [c \in Caravans |-> IF c \in now THEN [fleet[c] EXCEPT !.built = TRUE, !.ci = "waiting"] ELSE fleet[c]]
               /\ LET t == IF now = {} THEN tick ELSE Wrote("rewrite", now)
                      path == IF now = behind THEN "none" ELSE "bounded"
                  IN tick' = ReadAgain([t EXCEPT !.path = path, !.done = now], "midpoint", FALSE)
               /\ UNCHANGED out
  /\ UNCHANGED <<config, queue, moved, left>>

\* The midpoint: every pushed head must be what the tick now reads.
Midpoint ==
  /\ tick.pc = "midpoint"
  /\ IF \E c \in tick.done : ~tick.seen[c].built THEN DecisionStop
     ELSE IF tick.path = "bounded" THEN (IF Selects THEN Go("report") /\ UNCHANGED out ELSE StaleStop)
     ELSE tick' = [tick EXCEPT !.pc = "converge", !.done = {}] /\ UNCHANGED out
  /\ UNCHANGED <<config, fleet, queue, moved, left>>

\* execute_bounded_with_native: all selected caravans, in the order of their age.
Convergence(next) ==
  LET todo == Unpaused(tick.seen) \ tick.done IN
  IF todo = {} THEN tick' = next /\ UNCHANGED <<fleet, out, moved>>
  ELSE IF Blocked(tick.seen, Unpaused(tick.seen)) THEN DecisionStop /\ UNCHANGED <<fleet, moved>>
  ELSE Reconcile(First(todo), tick.pc)

Converge ==
  /\ tick.pc = "converge"
  /\ IF Selects THEN Convergence([tick EXCEPT !.pc = "final"]) ELSE StaleStop /\ UNCHANGED <<fleet, moved>>
  /\ UNCHANGED <<config, queue, left>>

\* Mutant: only merges count.
RediscoveryAfterMerge == \E w \in tick.wrote : w[1] = "merge"

\* requires_post_mutation_rediscovery.
RequiresRediscovery == tick.steps

Final ==
  /\ tick.pc = "final"
  /\ tick' = IF RequiresRediscovery THEN ReadAgain(tick, "complete", FALSE) ELSE [tick EXCEPT !.pc = "complete"]
  /\ UNCHANGED <<config, fleet, queue, moved, out, left>>

\* first_blocking_completion_problem.
Complete ==
  /\ tick.pc = "complete"
  /\ IF Blocked(tick.seen, tick.synced \cap Active(tick.seen)) THEN DecisionStop
     ELSE Go(IF config.all THEN "admit" ELSE "report") /\ UNCHANGED out
  /\ UNCHANGED <<config, fleet, queue, moved, left>>

Room == {c \in Caravans : fleet[c].left = 0 /\ ~fleet[c].closed /\ fleet[c].landing = "none"}

\* run_auto_admission: the candidate starts a caravan if there is room.
Admit ==
  /\ tick.pc = "admit"
  /\ IF ~queue \/ Room = {} THEN Go("report") /\ UNCHANGED <<fleet, queue>>
     ELSE /\ fleet' = [fleet EXCEPT ![First(Room)] = New]
          /\ queue' = FALSE
          /\ tick' = ReadAgain([Wrote("admit", {First(Room)}) EXCEPT !.done = {}], "joined", FALSE)
  /\ UNCHANGED <<config, moved, out, left>>

\* The convergence after an admission, and the last read.
Joined ==
  /\ tick.pc = "joined"
  /\ Convergence(ReadAgain(tick, "report", FALSE))
  /\ UNCHANGED <<config, queue, left>>

\* What an early end reports, and a complete tick.
ClosedLifecycleOutput == tick.path = "closed" /\ Report("healthy_retries")
NativeAppendOutput == tick.path = "append" /\ Report("external")
NativeDriftRepairOutput == tick.path = "repair" /\ Report("retry")
NativeMembershipRecoveryOutput == tick.path = "recover" /\ Report("retry")
RootFirstOutput == tick.path = "root_first" /\ Report("retry")
PrefixOutput == tick.path = "prefix" /\ Report(IF tick.steps THEN "retry" ELSE "healthy_retries")
BoundedPrefixOutput == tick.path = "bounded" /\ Report("retry")
CompleteOutput ==
  /\ tick.path = "none"
  /\ IF Blocked(tick.seen, tick.synced \cap Active(tick.seen)) THEN DecisionStop ELSE Report("own")

End ==
  /\ tick.pc = "report"
  /\ \/ ClosedLifecycleOutput \/ NativeAppendOutput \/ NativeDriftRepairOutput \/ NativeMembershipRecoveryOutput
     \/ RootFirstOutput \/ PrefixOutput \/ BoundedPrefixOutput \/ CompleteOutput
  /\ UNCHANGED <<config, fleet, queue, moved, left>>

\* cara admit: one candidate, and only where an ordinary tick has nothing to do.
AdmitFleetReadiness(s) ==
  CASE \E c \in Active(s) : s[c].conflict                                   -> "external"
    [] \E c \in Active(s) : s[c].held \/ s[c].parked \/ config.rewrite       -> "waiting"
    [] \E c \in Active(s) : s[c].ci = "red"                                 -> "external"
    [] \E c \in Active(s) : s[c].ci = "green"                               -> "waiting"
    [] OTHER                                                                -> "ready"

\* admit_preflight_decision and classify_admit_success.
AdmitDisposition(s) ==
  IF ~queue THEN "none"
  ELSE IF AdmitFleetReadiness(s) # "ready" THEN AdmitFleetReadiness(s)
  ELSE IF Room = {} THEN "waiting" ELSE "admitted"

AdmitOnly ==
  /\ tick.pc = "only"
  /\ IF ~BackendHealthy(tick.seen) THEN StaleStop /\ UNCHANGED <<fleet, queue>>
     ELSE LET d == AdmitDisposition(tick.seen) IN
          /\ fleet' = IF d = "admitted" THEN [fleet EXCEPT ![First(Room)] = New] ELSE fleet
          /\ queue' = (queue /\ d # "admitted")
          /\ out' = [ok |-> TRUE, wake |-> d, path |-> "admit", fresh |-> TRUE]
          /\ tick' = IdleTick
  /\ UNCHANGED <<config, moved, left>>

Counted == left > 0 /\ left' = left - 1

AdmitPrepared ==
  /\ tick.pc = "idle" /\ Counted
  /\ tick' = [IdleTick EXCEPT !.pc = "discover", !.then = "only"]
  /\ out' = NoOutput
  /\ moved' = FALSE
  /\ UNCHANGED <<config, fleet, queue>>

\* The tick fails at a deadline, a refused read or a lost connection, or is killed.
Abort ==
  /\ tick.pc # "idle" /\ Counted
  /\ Fail("retry")
  /\ UNCHANGED <<config, fleet, queue, moved>>

Step == \/ Prepare \/ Discover \/ Gate \/ Reread \/ Closed \/ Landing \/ Append \/ History \/ Missing \/ Drift
        \/ Stale \/ RootFirst \/ Parking \/ Prefix \/ Rewrite \/ Midpoint \/ Converge \/ Final \/ Complete
        \/ Admit \/ Joined \/ End \/ AdmitOnly

--------------------------------------------------------------------------------
(* CI, GitHub and people.                                                      *)

\* Something outside of the tick happens to a caravan, and a plan made before is void.
Outside(new) ==
  /\ fleet' = new
  /\ tick' = [tick EXCEPT !.calm = FALSE]
  /\ UNCHANGED <<config, out>>

\* A check ends; failures are counted.
Pending(c) == fleet[c].left > 0 /\ fleet[c].ci = "waiting"

CIReports(c) ==
  /\ Pending(c)
  /\ \/ Outside([fleet EXCEPT ![c].ci = "green"]) /\ UNCHANGED left
     \/ Outside([fleet EXCEPT ![c].ci = "red"]) /\ Counted
  /\ UNCHANGED <<queue, moved>>

\* GitHub lands a part of the Stack that was submitted.
StackLands(c) ==
  /\ fleet[c].landing = "submitted"
  /\ \E n \in 1..fleet[c].left : Outside([Landed(c, n, TRUE) EXCEPT ![c].landing = "merged"])
  /\ moved' = TRUE
  /\ UNCHANGED <<queue, left>>

\* Auto-merge of a root that is armed.
AutoMergeable(c) == fleet[c].left > 0 /\ fleet[c].armed /\ fleet[c].based /\ fleet[c].built /\ fleet[c].ci = "green"

AutoMerges(c) ==
  /\ AutoMergeable(c)
  /\ Outside([Landed(c, 1, FALSE) EXCEPT ![c].armed = FALSE])
  /\ moved' = TRUE
  /\ UNCHANGED <<queue, left>>

\* People push, arm auto-merge, hold and resume, close a member, or change the Stack; work on
\* a caravan may end in a conflict.
Disturb(c) ==
  /\ fleet[c].left > 0 /\ Counted
  /\ \E new \in {[fleet[c] EXCEPT !.ci = "waiting", !.built = FALSE], [fleet[c] EXCEPT !.armed = TRUE],
                 [fleet[c] EXCEPT !.conflict = TRUE], [fleet[c] EXCEPT !.held = ~@]}
               \cup (IF config.native THEN {[fleet[c] EXCEPT !.stack = k] : k \in {"append", "history", "missing", "drift", "broken"}} ELSE {})
               \cup (IF fleet[c].left > 1 /\ fleet[c].landing = "none"
                      THEN {[fleet[c] EXCEPT !.left = @ - 1, !.closed = TRUE, !.built = FALSE, !.ci = "waiting"]} ELSE {}) :
       Outside([fleet EXCEPT ![c] = new])
  /\ UNCHANGED <<queue, moved>>

\* Somebody else merges into the default branch.
DefaultMoves ==
  /\ Counted
  /\ Outside([c \in Caravans |-> [fleet[c] EXCEPT !.built = FALSE]])
  /\ moved' = TRUE
  /\ UNCHANGED queue

\* An owner repairs what a tick does not.
Repaired(c) ==
  /\ fleet[c].conflict \/ fleet[c].stack = "broken" \/ fleet[c].ci = "red"
  /\ LET stack == IF fleet[c].stack = "broken" THEN "ok" ELSE fleet[c].stack IN
     Outside([fleet EXCEPT ![c] = [fleet[c] EXCEPT !.conflict = FALSE, !.stack = stack, !.ci = "waiting"]])
  /\ UNCHANGED <<queue, moved, left>>

Environment ==
  \/ \E c \in Caravans : CIReports(c) \/ StackLands(c) \/ AutoMerges(c) \/ Disturb(c) \/ Repaired(c)
  \/ DefaultMoves

TickInit ==
  /\ config \in Configs
  /\ fleet = [c \in Caravans |-> [New EXCEPT !.left = IF c = Target THEN MaxLeft ELSE 1]]
  /\ queue = TRUE
  /\ moved = FALSE /\ tick = IdleTick
  /\ out = NoOutput
  /\ left = MaxEvents

TickNext == Step \/ AdmitPrepared \/ Abort \/ Environment

\* The loop goes on ticking; CI ends, and GitHub lands what it accepted.
TickFairness ==
  /\ []<><<Step>>_tickVars
  /\ \A c \in Caravans : WF_tickVars(CIReports(c)) /\ WF_tickVars(StackLands(c)) /\ WF_tickVars(AutoMerges(c))

TickSpec == TickInit /\ [][TickNext]_tickVars /\ TickFairness

--------------------------------------------------------------------------------
(* Properties.                                                                 *)

\* What a tick reports after writes was read after the last of them, except where it lands a
\* root or a prefix and ends at once (final rediscovery in sync_with_lock).
ReportIsFresh == out.ok => out.fresh \/ out.path \in {"root_first", "prefix"}

\* A dry run names what a tick from the same fleet will rewrite, repair, promote, merge or
\* admit, if nothing else happens in between (sync/plan.rs).
PlanNamesWrites ==
  tick.calm => \A w \in tick.wrote : w \in tick.plan \/ w[1] = "disarm" \/ (w[1] # "admit" /\ <<"admit", w[2]>> \in tick.wrote)

\* Safety of a tick: its report and its plan.
TickSound == ReportIsFresh /\ PlanNamesWrites

\* What stops a caravan until somebody comes: a hold, failed CI, a Stack that only its owner
\* repairs, a conflict of any active caravan, a failed check of an older one, two Stacks that
\* are missing, and the lack of rewrites.
Obstructed(c) ==
  \/ fleet[c].held \/ fleet[c].ci = "red" \/ fleet[c].parked \/ fleet[c].stack = "broken"
  \/ \E d \in Active(fleet) : fleet[d].conflict \/ (fleet[d].ci = "red" /\ ~config.native /\ ~fleet[d].parked)
  \/ Cardinality({d \in Active(fleet) : fleet[d].stack = "missing"}) > 1
  \/ ~config.native /\ ~config.rewrite /\ ~fleet[c].built

\* Every caravan lands in the end, and a candidate gets its place, unless something is in the
\* way that a tick cannot remove (sync_with_lock, over many ticks).
FleetDrains ==
  config.all => /\ \A c \in Caravans : []<>(fleet[c].left = 0 \/ Obstructed(c))
                /\ config.rewrite \/ config.native => []<>(~queue \/ \E c \in Caravans : Obstructed(c))

\* Whoever has to act is woken: a caravan that stays in conflict, or red without parking, or
\* quarantined, is an external decision again and again (sync/decision.rs).
OwnersWoken ==
  config.all => \A c \in Caravans :
    <>[](fleet[c].left > 0 /\ ~fleet[c].held /\ ~fleet[c].parked
         /\ (fleet[c].conflict \/ (fleet[c].ci = "red" /\ ~config.park) \/ Quarantined(fleet) = {c}))
      => []<>(out.wake = "external")
=============================================================================
