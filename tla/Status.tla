------------------------------- MODULE Status -------------------------------
(***************************************************************************)
(* read.rs, run_status of main.rs: the read-only look at a repository that *)
(* every answer about its health comes from.  The command runs it in a     *)
(* worker under a watchdog and degrades to a checkpoint, or to the last    *)
(* complete answer on disk; commands that write, and the dashboard's polls *)
(* with their short cache, run it exactly and get everything or an error.  *)
(*                                                                         *)
(* The repository moves from generation to generation; one is sound, the   *)
(* others have the same thing wrong with them: the graph with its merges,  *)
(* the labels, or the Stacks.  A pass reads these at different moments.    *)
(* Provider and git children end by a deadline; the worker itself may      *)
(* hang, and then the watchdog ends it when it is due (the host is not     *)
(* suspended).  A check of one pull request, and a pass after a push that  *)
(* is bound to the pushed head, are exact passes with other budgets.       *)
(***************************************************************************)
EXTENDS Integers

CONSTANTS Callers,
          LastGen,        \* the last generation of the repository
          StatusBudget,   \* STATUS_READ_BUDGET less its completion reserve, and the budget of exact passes
          PostReserve,    \* STATUS_POST_ANALYSIS_RESERVE
          CompatBudget,   \* STATUS_COMPATIBILITY_BUDGET
          Watchdog,       \* STATUS_COMMAND_WATCHDOG
          LastGoodAge,    \* STATUS_LAST_GOOD_MAX_AGE
          CacheAge,       \* what a poll accepts from the cache
          LabelAge,       \* LABEL_CACHE_MAX_AGE
          MaxCalls,       \* calls of all callers together
          Horizon         \* the clock stops here

ASSUME StatusBounds ==
  /\ {LastGen, StatusBudget, PostReserve, CompatBudget, Watchdog, LastGoodAge, CacheAge, LabelAge, MaxCalls, Horizon} \subseteq Nat
  /\ PostReserve <= StatusBudget /\ StatusBudget < Watchdog

Generations == 0 .. LastGen
Never == Horizon + 1
Absent == -1

VARIABLES now,
          gen,       \* the present generation
          began,     \* history: when each generation began
          faulty,    \* what is wrong with each
          config,    \* the configuration file
          lastGood,  \* status-last-good-v1.json
          polled,    \* STATUS_CACHE of the dashboard's process
          labels,    \* LABEL_CACHE of that process
          prepared,  \* generations whose commits that process has prepared
          call,      \* every caller's present call, or the answer it got
          calls      \* how many there were

statusVars == <<now, gen, began, faulty, config, lastGood, polled, labels, prepared, call, calls>>
stores == <<lastGood, polled, labels, prepared>>
outer == <<now, gen, began, faulty, config>>

(* An answer, and what is kept of one: since when its evidence was read.     *)
Answer(kind, healthy, from, cfg) == [kind |-> kind, healthy |-> healthy, from |-> from, at |-> now, config |-> cfg]
NoAnswer == [kind |-> "none", healthy |-> FALSE, from |-> 0, at |-> 0, config |-> 0]
Failed(kind) == [NoAnswer EXCEPT !.kind = kind]

NoCall == [at |-> "idle", mode |-> "cli", parent |-> 0, config |-> 0, start |-> 0, deadline |-> 0,
           compat |-> 0, graph |-> 0, label |-> 0, complete |-> FALSE,
           checkpoint |-> FALSE, watch |-> FALSE, answer |-> NoAnswer]

Cli(c) == call[c].mode = "cli"
Running(c) == call[c].at \notin {"idle", "done"}
InTime(c) == now < call[c].deadline
GoTo(c, place) == call' = [call EXCEPT ![c].at = place]

(* The pass is over, and what it read forgotten.                             *)
Over(c, place, answer) ==
  call' = [call EXCEPT ![c] = [NoCall EXCEPT !.at = place, !.answer = answer, !.mode = call[c].mode, !.start = call[c].start,
                                 !.parent = call[c].parent, !.config = call[c].config, !.watch = place # "done" /\ call[c].watch,
                                 !.checkpoint = place # "done" /\ call[c].checkpoint]]
Answered(c, answer) == Over(c, "done", answer)
Expires(c) == Over(c, "expired", NoAnswer)

-----------------------------------------------------------------------------
(* The beginning.                                                            *)

(* Parent and worker each load the configuration.                            *)
CliBegins(c) ==
  /\ call' = [call EXCEPT ![c] = [NoCall EXCEPT !.at = "load", !.parent = config, !.start = now]]
  /\ UNCHANGED stores

WorkerLoads(c) ==
  /\ call[c].at = "load"
  /\ call' = [call EXCEPT ![c] = [@ EXCEPT !.at = "discover", !.config = config, !.deadline = now + StatusBudget]]
  /\ UNCHANGED <<outer, stores>>

ExactBegins(c, mode) ==
  /\ call' = [call EXCEPT ![c] = [NoCall EXCEPT !.at = "discover", !.mode = mode, !.parent = config,
                                    !.config = config, !.start = now, !.deadline = now + StatusBudget]]
  /\ UNCHANGED stores

PollHit == polled.kind # "none" /\ polled.config = config /\ now - polled.at <= CacheAge

PollBegins(c) ==
  IF PollHit
  THEN /\ call' = [call EXCEPT ![c] = [NoCall EXCEPT !.at = "done", !.mode = "poll", !.start = now, !.parent = config,
                                         !.config = config, !.answer = [polled EXCEPT !.at = now]]]
       /\ UNCHANGED stores
  ELSE ExactBegins(c, "poll")

Begin(c) ==
  /\ ~Running(c) /\ calls < MaxCalls /\ calls' = calls + 1
  /\ CliBegins(c) \/ PollBegins(c) \/ ExactBegins(c, "exact")
  /\ UNCHANGED outer

-----------------------------------------------------------------------------
(* status_with_discovery_options, phase by phase.                            *)

Discover(c) ==
  /\ call[c].at = "discover" /\ InTime(c)
  /\ call' = [call EXCEPT ![c] = [@ EXCEPT !.at = "labels", !.graph = gen]]
  /\ UNCHANGED <<outer, stores>>

(* The compatibility proofs have what is left, less the reserve for what     *)
(* comes after them, and no time at all for a large fleet.                   *)
CompatDeadline(c) ==
  LET left == call[c].deadline - PostReserve
  IN  IF ~Cli(c) THEN call[c].deadline
      ELSE IF left < now + CompatBudget THEN left ELSE now + CompatBudget

LabelsFresh == labels.gen # Absent /\ now - labels.at <= LabelAge

(* A worker has no cache and writes the watchdog's checkpoint if it can.     *)
ReadLabels(c) ==
  /\ call[c].at = "labels"
  /\ \E label \in Generations, large \in BOOLEAN, written \in BOOLEAN :
       /\ IF ~Cli(c) /\ LabelsFresh THEN label = labels.gen /\ UNCHANGED labels
          ELSE /\ InTime(c) /\ label = gen
               /\ labels' = IF Cli(c) THEN labels ELSE [at |-> now, gen |-> gen]
       /\ written => Cli(c)
       /\ large => Cli(c)
       /\ call' = [call EXCEPT ![c] =
            [@ EXCEPT !.at = IF large THEN "project" ELSE "prepare", !.label = label, !.checkpoint = written, !.compat = CompatDeadline(c)]]
  /\ UNCHANGED <<outer, lastGood, polled, prepared>>

Deferred(c) == Cli(c) /\ now >= call[c].compat /\ GoTo(c, "project") /\ UNCHANGED prepared
Provable(c) == now < call[c].compat

(* The branches are at the commits that discovery saw, before and after they *)
(* are fetched, or the process has those commits already.                    *)
StillAdvertised(c) == gen = call[c].graph
HasPrepared(c) == ~Cli(c) /\ call[c].graph \in prepared

PrepareRevisions(c) ==
  /\ call[c].at = "prepare"
  /\ \/ Deferred(c)
     \/ HasPrepared(c) /\ GoTo(c, "check") /\ UNCHANGED prepared
     \/ /\ Provable(c) /\ StillAdvertised(c) /\ GoTo(c, "check")
        /\ prepared' = IF Cli(c) THEN prepared ELSE prepared \cup {gen}
     \/ Provable(c) /\ ~StillAdvertised(c) /\ Answered(c, Failed("error")) /\ UNCHANGED prepared
  /\ UNCHANGED <<outer, lastGood, polled, labels>>

CheckCompatibility(c) ==
  /\ call[c].at = "check"
  /\ \/ Deferred(c)
     \/ /\ Provable(c) /\ UNCHANGED prepared
        /\ call' = [call EXCEPT ![c] = [@ EXCEPT !.at = "project", !.complete = TRUE]]
  /\ UNCHANGED <<outer, lastGood, polled, labels>>

(* Mutant: what was deferred counts as sound.                                *)
HealthySoFar(c) ==
  faulty[call[c].graph] # "graph" /\ faulty[call[c].label] # "labels" /\ faulty[gen] # "stack"

Healthy(c) ==
  /\ call[c].complete
  /\ faulty[call[c].graph] # "graph"
  /\ faulty[call[c].label] # "labels"
  /\ faulty[gen] # "stack"

(* recover_current_partial_status: a pass with deferred proofs is current,   *)
(* not complete.                                                             *)
PassAnswer(c) == Answer(IF call[c].complete THEN "complete" ELSE "current", Healthy(c), call[c].start, call[c].config)

(* The Stack is read last.  A pass that claims to be complete must have      *)
(* ended in time.                                                            *)
Project(c) ==
  /\ call[c].at = "project"
  /\ IF (~Cli(c) \/ call[c].complete) /\ ~InTime(c) THEN Expires(c)
     ELSE Over(c, "return", PassAnswer(c))
  /\ UNCHANGED <<outer, stores>>

-----------------------------------------------------------------------------
(* What becomes of the pass.                                                 *)

(* persist_last_good, of complete answers only; a write may fail.            *)
Persisted(answer) == IF answer.kind = "complete" THEN {answer, lastGood} ELSE {lastGood}

Returns(c) ==
  /\ call[c].at = "return"
  /\ LET answer == [call[c].answer EXCEPT !.at = now] IN
     CASE call[c].mode = "cli" ->
            /\ lastGood' \in Persisted(answer) /\ GoTo(c, "exit") /\ UNCHANGED polled
       [] call[c].mode = "poll" -> polled' = answer /\ Answered(c, answer) /\ UNCHANGED lastGood
       [] OTHER -> Answered(c, answer) /\ UNCHANGED <<lastGood, polled>>
  /\ UNCHANGED <<outer, labels, prepared>>

Usable(good, cfg) == good.kind # "none" /\ good.config = cfg /\ now - good.at <= LastGoodAge

RecoverPartialStatus(good) == [good EXCEPT !.kind = "last_good", !.healthy = FALSE]

LastGoodFor(cfg) ==
  IF Usable(lastGood, cfg) THEN RecoverPartialStatus(lastGood) ELSE Failed("unavailable")

(* A phase that is out of time: the worker looks for the last complete       *)
(* answer, an exact pass is an error.                                        *)
Expired(c) ==
  /\ call[c].at = "expired"
  /\ IF Cli(c)
     THEN Over(c, "exit", LastGoodFor(call[c].config))
     ELSE Answered(c, Failed("error"))
  /\ UNCHANGED <<outer, stores>>

(* A child is out of its own time or of the pass's.                          *)
TimesOut(c) ==
  /\ \/ call[c].at \in {"discover", "labels"} /\ Expires(c)
     \/ call[c].at \in {"prepare", "check"} /\ IF Cli(c) THEN GoTo(c, "project") ELSE Expires(c)
  /\ UNCHANGED <<outer, stores>>

Fails(c) ==
  /\ call[c].at \in {"load", "discover", "labels", "prepare", "check"}
  /\ Answered(c, Failed("error"))
  /\ UNCHANGED <<outer, stores>>

(* run_status: the parent relays what the worker printed, unless it has      *)
(* already begun to end it.                                                  *)
Relays(c) ==
  /\ call[c].at = "exit" /\ ~call[c].watch
  /\ Answered(c, call[c].answer)
  /\ UNCHANGED <<outer, stores>>

WatchdogFires(c) ==
  /\ Cli(c) /\ Running(c) /\ ~call[c].watch /\ now >= call[c].start + Watchdog
  /\ call' = [call EXCEPT ![c].watch = TRUE]
  /\ UNCHANGED <<outer, stores>>

(* The checkpoint is of what discovery saw, and of the worker's              *)
(* configuration, which the parent's must be.                                *)
CheckpointUsable(c) == call[c].checkpoint /\ call[c].config = call[c].parent
CheckpointAnswer(c) == Answer("current", FALSE, call[c].start, call[c].parent)

(* status_watchdog_fallback, once the worker's tree is terminated.           *)
Fallback(c) ==
  /\ Running(c) /\ call[c].watch
  /\ Answered(c, IF CheckpointUsable(c) THEN CheckpointAnswer(c) ELSE LastGoodFor(call[c].parent))
  /\ UNCHANGED <<outer, stores>>

-----------------------------------------------------------------------------
(* invalidate_status_cache after an action in the dashboard's process.       *)
Invalidate ==
  /\ polled.kind # "none" /\ polled' = NoAnswer
  /\ UNCHANGED <<outer, lastGood, labels, prepared, call>>

Going == calls < MaxCalls \/ \E c \in Callers : Running(c)

Moves ==
  /\ gen < LastGen /\ Going /\ gen' = gen + 1 /\ began' = [began EXCEPT ![gen + 1] = now]
  /\ UNCHANGED <<now, faulty, config, stores, call>>

(* Only calls that begin look at the file.                                   *)
Reconfigure ==
  /\ config = 0 /\ Going /\ config' = 1 /\ \A c \in Callers : Running(c) => call[c].at = "load"
  /\ UNCHANGED <<now, gen, began, faulty, stores, call>>

Due(c) == IF Cli(c) THEN call[c].start + Watchdog
          ELSE call[c].start + StatusBudget

Tick ==
  /\ now < Horizon /\ Going /\ \A c \in Callers : Running(c) => now < Due(c)
  /\ now' = now + 1
  /\ UNCHANGED <<gen, began, faulty, config, stores, call>>

Parts == {"graph", "labels", "stack"}

StatusInit ==
  /\ now = 0 /\ gen = 0 /\ began = [g \in Generations |-> IF g = 0 THEN 0 ELSE Never]
  /\ \E sound \in Generations, part \in Parts : faulty = [g \in Generations |-> IF g = sound THEN "nothing" ELSE part]
  /\ config = 0 /\ lastGood = NoAnswer /\ polled = NoAnswer /\ labels = [at |-> 0, gen |-> Absent]
  /\ prepared = {} /\ call = [c \in Callers |-> NoCall] /\ calls = 0

Pass(c) ==
  \/ WorkerLoads(c) \/ Discover(c) \/ ReadLabels(c) \/ PrepareRevisions(c) \/ CheckCompatibility(c)
  \/ Project(c) \/ Returns(c) \/ Expired(c) \/ TimesOut(c) \/ Fails(c)
  \/ Relays(c) \/ WatchdogFires(c) \/ Fallback(c)

StatusNext ==
  \/ \E c \in Callers : Begin(c)
  \/ ((\E c \in Callers : Pass(c)) \/ Invalidate \/ Moves \/ Reconfigure \/ Tick) /\ UNCHANGED calls

StatusSpec == StatusInit /\ [][StatusNext]_statusVars

-----------------------------------------------------------------------------
Answers == {c \in Callers : call[c].at = "done"}

(* Generation g was the present one at some moment of the interval.          *)
WasCurrent(g, from, to) == began[g] <= to /\ (g = gen \/ began[g + 1] >= from)

(* A repository that is called healthy was so in the course of the call, in  *)
(* a pass that left nothing out: its graph with the merges at one moment,    *)
(* its Stack at a later one.  A poll may be as old as the cache and the pass *)
(* that filled it, the labels as old as their own cache.                     *)
HealthyWasTrue ==
  \A c \in Answers : call[c].answer.healthy =>
    LET from == call[c].start - (IF call[c].mode = "poll" THEN CacheAge + StatusBudget ELSE 0)
        Sound(part, since) == \E g \in Generations : WasCurrent(g, since, call[c].answer.at) /\ faulty[g] # part
    IN  call[c].answer.kind = "complete" /\ Sound("graph", from) /\ Sound("stack", from) /\ Sound("labels", from - LabelAge)

(* What is shown instead of an answer is a complete one of this caller's     *)
(* configuration, and no older than its age limit and the longest pass.      *)
EvidenceBounded ==
  \A c \in Answers : LET answer == call[c].answer IN
    /\ answer.kind = "last_good" => call[c].start - answer.from <= LastGoodAge + Watchdog
    /\ answer.kind \in {"complete", "current", "last_good"} => answer.config \in {call[c].parent, call[c].config}

(* Nobody but the command itself is ever given less than a complete pass.    *)
ExactOrError == \A c \in Answers : ~Cli(c) => call[c].answer.kind \in {"complete", "error"}

(* What an answer about the repository's health is worth.                    *)
StatusSound == HealthyWasTrue /\ EvidenceBounded /\ ExactOrError
=============================================================================
