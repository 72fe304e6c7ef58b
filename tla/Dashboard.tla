----------------------------- MODULE Dashboard -----------------------------
(***************************************************************************)
(* `cara web`: one repository behind the dashboard and webhook server of   *)
(* web.rs.  A poller, request threads and one worker thread per accepted   *)
(* action share the repository's snapshot, a status cache, the list of      *)
(* jobs, the log of webhook deliveries and, for a hosted worker, the       *)
(* projection of what the installation may touch.  The process may be      *)
(* killed and started again at any point.                                  *)
(*                                                                         *)
(* The facts of the repository are a number; two of them share a           *)
(* generation of branches and differ in labels only.  A fingerprint is     *)
(* what it digests.  A status read is one step: Discovery has the detail.  *)
(***************************************************************************)
EXTENDS Integers, Sequences, SequencesExt

CONSTANTS Requests,       \* request threads
          Jobs,           \* identities of actions, each with its worker thread
          MaxFacts,       \* the last facts
          Starts,         \* how the server is started, and what may happen outside
          MaxHistory,     \* MAX_ACTION_HISTORY
          MaxLogged,      \* MAX_WEBHOOK_DELIVERIES
          Deliveries

Modes == {"hosted", "local", "local_sync", "read_only"}

ASSUME DashboardBounds ==
  /\ {MaxFacts, MaxHistory, MaxLogged} \subseteq Nat \ {0}
  /\ Requests \cap Jobs = {} /\ {"poll", "none"} \cap (Requests \union Jobs) = {}
  /\ Starts \subseteq [mode : Modes,
                      left : [polls : Nat, requests : Nat, views : Nat, restarts : Nat, changes : Nat, grants : Nat]]

VARIABLES mode,           \* how the server was started
          facts, granted, \* the repository, and whether the installation may touch it
          life,           \* the process, whose CSRF token is its own
          serving,        \* requests are accepted
          snap,           \* RepositoryEntry.snapshot
          cached,         \* STATUS_CACHE
          holds,          \* who holds the action, refresh and reconciliation locks
          jobs, recent,   \* RepositoryEntry.actions
          owed,           \* webhook_sync_pending
          known, logged,  \* webhook deliveries in memory and on disk
          tenancy, savedTenancy,  \* the tenancy projection in memory and on disk
          at, got,        \* where each thread is and what it has read
          browser,        \* the state the operator looks at
          left,           \* what may still happen outside
          writes,         \* actions that have run
          took, displaced, seenGrant  \* deliveries acted on, and pushed out; the last observation

dashboardVars == <<mode, facts, granted, life, serving, snap, cached, holds, jobs, recent, owed, known, logged,
                   tenancy, savedTenancy, at, got, browser, left, writes, took, displaced, seenGrant>>

beyond == <<mode, facts, granted, life, left>>
deliveryVars == <<known, logged, took, displaced>>
tenancyVars == <<tenancy, savedTenancy, seenGrant>>
actionVars == <<jobs, recent, owed>>
screen == <<browser, writes>>

Threads == {"poll"} \union Requests \union Jobs
Hosted == mode = "hosted"
WebhookSync == mode \in {"hosted", "local_sync"}
WebhookEvents == {"push", "check", "lifecycle", "other"}

NoStatus == [read |-> FALSE, facts |-> 0, after |-> 0]
NoPrint == [known |-> FALSE, facts |-> 0, rows |-> FALSE]
FreeJob == [state |-> "free", seq |-> 0, print |-> NoPrint, mutates |-> FALSE, seen |-> NoPrint, result |-> "none"]
Nothing == [status |-> NoStatus, job |-> FreeJob, grant |-> "none"]
NoRows == [generation |-> 0, complete |-> FALSE]
Unlocked == [action |-> "none", refresh |-> "none", reconcile |-> "none"]

Generation(f) == f \div 2

\* mutation_authority_fingerprint: nothing without a status or with an error.
Fingerprint == IF snap.status.read /\ ~snap.err
               THEN [known |-> TRUE, facts |-> snap.status.facts, rows |-> snap.rows.complete] ELSE NoPrint

Active(j) == jobs[j].state \in {"queued", "running"}
HasActiveAction == \E i \in DOMAIN recent : Active(recent[i])

\* A hosted repository asks the projection, any other has no row and is active.
TenancyActive == Hosted => tenancy = "active"

Go(t, place) == at' = [at EXCEPT ![t] = place]

\* A thread's function returns: the guards it holds are dropped.
Leave(t) ==
  /\ at' = [at EXCEPT ![t] = IF t \in Jobs THEN "ended" ELSE "idle"]
  /\ got' = [got EXCEPT ![t] = Nothing]
  /\ holds' = [l \in DOMAIN holds |-> IF holds[l] = t THEN "none" ELSE holds[l]]
  /\ serving' = (serving \/ t = "poll")

-----------------------------------------------------------------------------
(* refresh_repository and its locked body. *)

\* A refresh gives way to an accepted action before it waits for the lock.
AskRefresh(t) ==
  /\ at[t] = "ask"
  /\ IF HasActiveAction THEN Leave(t) ELSE Go(t, "wait") /\ UNCHANGED <<got, holds, serving>>
  /\ UNCHANGED <<beyond, snap, cached, actionVars, deliveryVars, tenancyVars, screen>>

\* ... and again when it has the lock.
TakeRefreshLock(t) ==
  /\ at[t] = "wait" /\ holds.refresh = "none"
  /\ IF HasActiveAction THEN Leave(t)
     ELSE /\ holds' = [holds EXCEPT !.refresh = t] /\ Go(t, "read") /\ UNCHANGED <<got, serving>>
  /\ UNCHANGED <<beyond, snap, cached, actionVars, deliveryVars, tenancyVars, screen>>

\* status_cached: a young entry is returned as it is.
CacheHit(t) ==
  /\ at[t] = "read" /\ cached.read
  /\ got' = [got EXCEPT ![t].status = cached]
  /\ Go(t, "publish")
  /\ UNCHANGED <<beyond, serving, snap, cached, holds, actionVars, deliveryVars, tenancyVars, screen>>

\* ... otherwise the provider is read, outside the cache's mutex, and may fail.
ReadStatus(t) ==
  /\ at[t] = "read" /\ ~cached.read
  /\ \/ got' = [got EXCEPT ![t].status = [read |-> TRUE, facts |-> facts, after |-> writes]] /\ Go(t, "insert")
     \/ got' = [got EXCEPT ![t].status = NoStatus] /\ Go(t, "publish")
  /\ UNCHANGED <<beyond, serving, snap, cached, holds, actionVars, deliveryVars, tenancyVars, screen>>

InsertStatus(t) ==
  /\ at[t] = "insert"
  /\ cached' = got[t].status
  /\ Go(t, "publish")
  /\ UNCHANGED <<beyond, serving, snap, holds, actionVars, deliveryVars, tenancyVars, got, screen>>

\* project_candidate_compatibility: a complete row of the same generation is reused,
\* another is checked within the bounds and may stay incomplete.
CompatibilityRows(f) ==
  IF snap.rows.complete /\ snap.rows.generation = Generation(f) THEN {snap.rows}
  ELSE [generation : {Generation(f)}, complete : BOOLEAN]

Published(status) ==
  IF status.read
  THEN {[snap EXCEPT !.seq = @ + 1, !.status = status, !.err = FALSE, !.rows = r] : r \in CompatibilityRows(status.facts)}
  ELSE {[snap EXCEPT !.seq = @ + 1, !.err = TRUE, !.rows = NoRows]}

\* The result replaces the snapshot; a worker keeps its locks, others return.
Publish(t) ==
  /\ at[t] = "publish"
  /\ snap' \in Published(got[t].status)
  /\ IF t \in Jobs
     THEN /\ Go(t, IF jobs[t].result = "none" THEN "validate" ELSE "finish")
          /\ UNCHANGED <<got, holds, serving>>
     ELSE Leave(t)
  /\ UNCHANGED <<beyond, cached, actionVars, deliveryVars, tenancyVars, screen>>

RefreshStep(t) == AskRefresh(t) \/ TakeRefreshLock(t) \/ CacheHit(t) \/ ReadStatus(t) \/ InsertStatus(t) \/ Publish(t)

-----------------------------------------------------------------------------
(* Hosted tenancy: reconcile_hosted_tenancy_with_provider. *)

\* The projection is quarantined before the provider is asked.
QuarantinePending(t) ==
  /\ at[t] = "reconcile" /\ holds.reconcile = "none"
  /\ holds' = [holds EXCEPT !.reconcile = t]
  /\ tenancy' = "quarantined"
  /\ Go(t, "observe")
  /\ UNCHANGED <<beyond, serving, snap, cached, actionVars, deliveryVars, savedTenancy, got, screen, seenGrant>>

\* The bounded pages of the installation, intersected with the allowlist; any
\* failure quarantines.
Observe(t) ==
  /\ at[t] = "observe"
  /\ \E grant \in {IF granted THEN "active" ELSE "absent", "failed"} :
       got' = [got EXCEPT ![t].grant = grant] /\ seenGrant' = grant
  /\ Go(t, "persist")
  /\ UNCHANGED <<beyond, serving, snap, cached, holds, actionVars, deliveryVars, tenancy, savedTenancy, screen>>

ReconcileTenancy(grant) == IF grant = "active" THEN "active" ELSE "quarantined"

\* persist_tenancy writes a temporary and renames it; when it fails the pending
\* quarantine stays.
PersistTenancy(t) ==
  /\ at[t] = "persist"
  /\ \/ savedTenancy' = got[t].grant /\ tenancy' = ReconcileTenancy(got[t].grant)
     \/ UNCHANGED <<savedTenancy, tenancy>>
  /\ IF t = "poll"
     THEN /\ Go(t, "ask") /\ holds' = [holds EXCEPT !.reconcile = "none"]
          /\ got' = [got EXCEPT ![t] = Nothing] /\ UNCHANGED serving
     ELSE Leave(t)
  /\ UNCHANGED <<beyond, snap, cached, actionVars, deliveryVars, screen, seenGrant>>

TenancyStep(t) == QuarantinePending(t) \/ Observe(t) \/ PersistTenancy(t)

\* load_tenancy: only a complete projection of the same installation counts.
LoadTenancy(onDisk) == IF onDisk = "active" THEN "active" ELSE "quarantined"

-----------------------------------------------------------------------------
(* The poller and the requests. *)

RefreshAll == IF Hosted THEN "reconcile" ELSE "ask"

PollerWakes ==
  /\ at["poll"] = "idle" /\ left.polls > 0
  /\ Go("poll", RefreshAll)
  /\ left' = [left EXCEPT !.polls = @ - 1]
  /\ UNCHANGED <<mode, facts, granted, life, serving, snap, cached, holds, actionVars, deliveryVars, tenancyVars, got, screen>>

\* GET /api/v1/state: the snapshot with the token of this process.
ViewState ==
  /\ serving /\ left.views > 0 /\ left' = [left EXCEPT !.views = @ - 1]
  /\ browser' = [life |-> life, seq |-> snap.seq, print |-> Fingerprint]
  /\ UNCHANGED <<mode, facts, granted, life, serving, snap, cached, holds, actionVars, deliveryVars, tenancyVars, at, got, writes>>

Accepted(r) == serving /\ at[r] = "idle" /\ left.requests > 0 /\ left' = [left EXCEPT !.requests = @ - 1]

TokenKept == browser.life > 0
CsrfValid == browser.life = life

\* POST .../refresh.
HandleRefresh(r) ==
  /\ Accepted(r) /\ CsrfValid
  /\ cached' = NoStatus
  /\ Go(r, "ask")
  /\ UNCHANGED <<mode, facts, granted, life, serving, snap, holds, actionVars, deliveryVars, tenancyVars, got, screen>>

InteractiveMutationRefused(mutates) == mutates /\ (Hosted \/ mode = "read_only")

\* POST .../action, up to the exact sequence; the fingerprint is taken with it.
HandleAction(r) ==
  \E mutates \in BOOLEAN :
    /\ Accepted(r) /\ CsrfValid /\ ~InteractiveMutationRefused(mutates)
    /\ snap.seq = browser.seq /\ Fingerprint.known
    /\ got' = [got EXCEPT ![r].job = [FreeJob EXCEPT !.state = "queued", !.seq = snap.seq, !.print = Fingerprint,
                                        !.mutates = mutates, !.seen = browser.print]]
    /\ Go(r, "enqueue")
    /\ UNCHANGED <<mode, facts, granted, life, serving, snap, cached, holds, actionVars, deliveryVars, tenancyVars, screen>>

\* persist_webhook_delivery: remembered first and written next, by an append or,
\* past the bound, by rewriting the log; a write that fails leaves what it wrote.
Remembered(d) == LET all == Append(known, d) IN IF Len(all) > MaxLogged THEN Tail(all) ELSE all
Rewrites == Len(known) >= MaxLogged
LogWritten(d) == IF Rewrites THEN Remembered(d) ELSE Append(logged, d)
LogTorn(d) == IF Rewrites THEN {SubSeq(Remembered(d), 1, k) : k \in 0..(MaxLogged - 1)} ELSE {logged}

\* Deliveries that neither memory nor the log would recognise any more.
Forgotten == {d \in Deliveries : d \notin ToSet(known') \/ d \notin ToSet(logged')}

\* A verified delivery, which GitHub may send again at any time; what it asks for
\* follows only when it was new and was written.
RecordWebhookDelivery(r) ==
  \E d \in Deliveries :
    /\ Accepted(r)
    /\ \/ Contains(known, d) /\ UNCHANGED <<deliveryVars, at>>
       \/ /\ ~Contains(known, d) /\ known' = Remembered(d)
          /\ \/ /\ logged' = LogWritten(d)
                /\ took' = [took EXCEPT ![d] = @ + 1]
                /\ \E event \in WebhookEvents : Go(r, IF event = "lifecycle" /\ Hosted THEN "reconcile" ELSE event)
             \/ logged' \in LogTorn(d) /\ UNCHANGED <<took, at>>
          /\ displaced' = displaced \union {e \in Forgotten : took[e] > 0 /\ e # d}
    /\ UNCHANGED <<mode, facts, granted, life, serving, snap, cached, holds, actionVars, tenancyVars, got, screen>>

\* webhook_event_is_wake: a push only once the default branch is known.
IsWake(event) == event = "check" \/ (event = "push" /\ snap.status.read)

\* What the delivery wakes: a sync, or a refresh past the cache.
RouteWebhook(r) ==
  /\ at[r] \in WebhookEvents
  /\ IF TenancyActive /\ IsWake(at[r])
     THEN /\ IF WebhookSync THEN Go(r, "authority") /\ UNCHANGED cached
             ELSE Go(r, "ask") /\ cached' = NoStatus
          /\ UNCHANGED <<got, holds, serving>>
     ELSE Leave(r) /\ UNCHANGED cached
  /\ UNCHANGED <<beyond, snap, actionVars, deliveryVars, tenancyVars, screen>>

\* enqueue_webhook_sync, for a request or for a worker that ends: the sync is bound
\* to the snapshot of this moment; without one the wake is owed.
DraftSync(t) ==
  /\ at[t] = "authority"
  /\ IF ~TenancyActive THEN Leave(t) /\ UNCHANGED owed
     ELSE IF ~Fingerprint.known THEN Leave(t) /\ owed' = TRUE
     ELSE /\ got' = [got EXCEPT ![t].job = [FreeJob EXCEPT !.state = "queued", !.seq = snap.seq, !.print = Fingerprint,
                                              !.mutates = TRUE, !.seen = Fingerprint]]
          /\ Go(t, "enqueue_sync") /\ UNCHANGED <<holds, serving, owed>>
  /\ UNCHANGED <<beyond, snap, cached, jobs, recent, deliveryVars, tenancyVars, screen>>

\* enqueue_action_job: one action at a time, while identities are left; the oldest of
\* a full history goes.
Enqueued(j) ==
  /\ ~HasActiveAction
  /\ recent' = Append(IF Len(recent) >= MaxHistory THEN Tail(recent) ELSE recent, j)

EnqueueActionJob(t) ==
  /\ at[t] \in {"enqueue", "enqueue_sync"}
  /\ \/ /\ \E k \in Jobs : at[k] = "idle"
        /\ LET j == CHOOSE k \in Jobs : at[k] = "idle" IN
             /\ Enqueued(j)
             /\ jobs' = [jobs EXCEPT ![j] = got[t].job]
             /\ at' = [at EXCEPT ![j] = "queued", ![t] = IF t \in Jobs THEN "ended" ELSE "idle"]
        /\ got' = [got EXCEPT ![t] = Nothing]
        /\ holds' = [l \in DOMAIN holds |-> IF holds[l] = t THEN "none" ELSE holds[l]]
        /\ UNCHANGED serving
     \/ /\ HasActiveAction
        /\ IF at[t] = "enqueue" THEN Leave(t) ELSE Go(t, "owe") /\ UNCHANGED <<got, holds, serving>>
        /\ UNCHANGED <<jobs, recent>>
  /\ UNCHANGED <<beyond, snap, cached, owed, deliveryVars, tenancyVars, screen>>

\* The flag is stored after the jobs' mutex was released.
OweSync(t) ==
  /\ at[t] = "owe"
  /\ owed' = TRUE
  /\ Leave(t)
  /\ UNCHANGED <<beyond, snap, cached, jobs, recent, deliveryVars, tenancyVars, screen>>

RequestStep(t) == RouteWebhook(t) \/ DraftSync(t) \/ EnqueueActionJob(t) \/ OweSync(t)

-----------------------------------------------------------------------------
(* execute_action_job, in the worker thread of job j. *)

\* The job is called running while it waits for the first of its two locks.
TakeActionLock(j) ==
  /\ at[j] = "queued" /\ holds.action = "none"
  /\ holds' = [holds EXCEPT !.action = j]
  /\ jobs' = [jobs EXCEPT ![j].state = "running"]
  /\ Go(j, "lock_refresh")
  /\ UNCHANGED <<beyond, serving, snap, cached, recent, owed, deliveryVars, tenancyVars, got, screen>>

\* fresh_action_authority: past the cache when the sequence has moved.
FreshActionAuthority(j) ==
  /\ at[j] = "lock_refresh" /\ holds.refresh = "none"
  /\ holds' = [holds EXCEPT !.refresh = j]
  /\ IF snap.seq # jobs[j].seq THEN cached' = NoStatus /\ Go(j, "read") ELSE UNCHANGED cached /\ Go(j, "validate")
  /\ UNCHANGED <<beyond, serving, snap, actionVars, deliveryVars, tenancyVars, got, screen>>

\* validate_action_authority.
AuthorityHolds(j) == Fingerprint.known /\ (snap.seq = jobs[j].seq \/ Fingerprint = jobs[j].print)

\* Whatever the outcome, the refresh that follows goes past the cache.
CacheAfterAction == NoStatus

ValidateAction(j) ==
  /\ at[j] = "validate"
  /\ IF AuthorityHolds(j) /\ (jobs[j].mutates => TenancyActive)
     THEN Go(j, "operate") /\ UNCHANGED <<jobs, cached>>
     ELSE Go(j, "read") /\ jobs' = [jobs EXCEPT ![j].result = "failed"] /\ cached' = CacheAfterAction
  /\ UNCHANGED <<beyond, serving, snap, holds, recent, owed, deliveryVars, tenancyVars, got, screen>>

\* run_action: the domain operation, with its own preflight and locks.
RunAction(j) ==
  /\ at[j] = "operate"
  /\ facts' \in (facts .. IF jobs[j].mutates /\ facts < MaxFacts THEN facts + 1 ELSE facts)
  /\ writes' = writes + 1
  /\ \E result \in {"succeeded", "failed"} : jobs' = [jobs EXCEPT ![j].result = result]
  /\ cached' = CacheAfterAction
  /\ Go(j, "read")
  /\ UNCHANGED <<mode, granted, life, left, serving, snap, holds, recent, owed, deliveryVars, tenancyVars, got, browser>>

\* last_action and the terminal state.
FinishJob(j) ==
  /\ at[j] = "finish"
  /\ snap' = [snap EXCEPT !.last = jobs[j].result]
  /\ jobs' = [jobs EXCEPT ![j].state = jobs[j].result]
  /\ Go(j, "swap")
  /\ UNCHANGED <<beyond, serving, cached, holds, recent, owed, deliveryVars, tenancyVars, got, screen>>

\* A wake that came meanwhile is served by one more sync.
SwapOwed(j) ==
  /\ at[j] = "swap"
  /\ owed' = FALSE
  /\ IF owed THEN Go(j, "authority") /\ UNCHANGED <<got, holds, serving>> ELSE Leave(j)
  /\ UNCHANGED <<beyond, snap, cached, jobs, recent, deliveryVars, tenancyVars, screen>>

JobStep(j) == \/ TakeActionLock(j) \/ FreshActionAuthority(j) \/ ValidateAction(j)
              \/ RunAction(j) \/ FinishJob(j) \/ SwapOwed(j)

-----------------------------------------------------------------------------
(* Outside. *)

\* Somebody works on the repository.
FactsChange ==
  /\ left.changes > 0 /\ facts < MaxFacts
  /\ facts' = facts + 1 /\ left' = [left EXCEPT !.changes = @ - 1]
  /\ UNCHANGED <<mode, granted, life, serving, snap, cached, holds, actionVars, deliveryVars, tenancyVars, at, got, screen>>

\* The owner of the installation grants or withdraws the repository.
GrantChanges ==
  /\ Hosted /\ left.grants > 0
  /\ granted' = ~granted /\ left' = [left EXCEPT !.grants = @ - 1]
  /\ UNCHANGED <<mode, facts, life, serving, snap, cached, holds, actionVars, deliveryVars, tenancyVars, at, got, screen>>

\* Five seconds pass.
CacheExpires ==
  /\ cached.read /\ cached' = NoStatus
  /\ UNCHANGED <<beyond, serving, snap, holds, actionVars, deliveryVars, tenancyVars, at, got, screen>>

NoSnapshot == [seq |-> 0, status |-> NoStatus, err |-> FALSE, rows |-> NoRows, last |-> "none"]

\* build_dashboard and serve: what a process starts with; it refreshes before it serves.
Started(projection, log) ==
  /\ serving' = FALSE /\ snap' = NoSnapshot /\ cached' = NoStatus /\ holds' = Unlocked
  /\ recent' = <<>> /\ owed' = FALSE
  /\ known' = SubSeq(log, IF Len(log) > MaxLogged THEN Len(log) - MaxLogged + 1 ELSE 1, Len(log))
  /\ tenancy' = LoadTenancy(projection)
  /\ at' = [t \in Threads |-> IF t = "poll" THEN RefreshAll
                              ELSE IF t \in Jobs /\ at[t] # "idle" THEN "ended" ELSE "idle"]
  /\ got' = [t \in Threads |-> Nothing]
  /\ seenGrant' = "none"

\* The process is killed, in the middle of anything, and started again.
Restart ==
  /\ left.restarts > 0 /\ left' = [left EXCEPT !.restarts = @ - 1]
  /\ life' = life + 1
  /\ Started(savedTenancy, logged)
  /\ jobs' = [j \in Jobs |-> IF Active(j) THEN [jobs[j] EXCEPT !.state = "killed"] ELSE jobs[j]]
  /\ UNCHANGED <<mode, facts, granted, logged, savedTenancy, screen, took, displaced>>

DashboardInit ==
  /\ \E start \in Starts : mode = start.mode /\ left = start.left
  /\ facts = 0 /\ granted = TRUE /\ life = 1 /\ serving = FALSE
  /\ snap = NoSnapshot /\ cached = NoStatus /\ holds = Unlocked
  /\ jobs = [j \in Jobs |-> FreeJob] /\ recent = <<>> /\ owed = FALSE
  /\ known = <<>> /\ logged = <<>> /\ savedTenancy = "none" /\ tenancy = LoadTenancy(savedTenancy)
  /\ at = [t \in Threads |-> IF t = "poll" THEN RefreshAll ELSE "idle"]
  /\ got = [t \in Threads |-> Nothing]
  /\ browser = [life |-> 0, seq |-> 0, print |-> NoPrint]
  /\ writes = 0 /\ took = [d \in Deliveries |-> 0] /\ displaced = {} /\ seenGrant = "none"

ThreadStep(t) == RefreshStep(t) \/ TenancyStep(t) \/ RequestStep(t)

DashboardNext ==
  \/ \E t \in Threads : ThreadStep(t)
  \/ \E j \in Jobs : JobStep(j)
  \/ PollerWakes \/ ViewState
  \/ \E r \in Requests : HandleRefresh(r) \/ HandleAction(r) \/ RecordWebhookDelivery(r)
  \/ FactsChange \/ GrantChanges \/ CacheExpires \/ Restart

DashboardSpec == DashboardInit /\ [][DashboardNext]_dashboardVars

-----------------------------------------------------------------------------

InFlight == {j \in Jobs : at[j] = "operate"}
Settling == \E j \in Jobs : jobs[j].result # "none" /\ at[j] \in {"read", "insert", "publish"}

\* One action runs at a time, no refresh reads or publishes meanwhile, and it runs on
\* the facts the submitter was shown, a reload of the process between them included
\* (execute_action_job, refresh_repository, the CSRF token of build_dashboard).
ActionFenced ==
  \A j \in InFlight :
    /\ InFlight = {j} /\ holds.action = j /\ holds.refresh = j
    /\ \A t \in Threads : at[t] \notin {"read", "insert", "publish"}
    /\ Fingerprint = jobs[j].seen

\* Whoever holds the refresh or the reconciliation lock waits for no other lock, so
\* that nobody waits for ever (the order action_lock, refresh_lock of every worker).
NobodyStuck ==
  \A l \in {"refresh", "reconcile"} :
    holds[l] # "none" => at[holds[l]] \notin {"wait", "queued", "lock_refresh", "reconcile", "idle", "ended"}

\* Once an action has ended, the snapshot that is shown without an error was read after
\* it, and so was what the cache holds (the invalidation of execute_action_job under
\* the refresh lock).
SnapshotFollowsAction ==
  ~Settling /\ InFlight = {} =>
    /\ snap.status.read /\ ~snap.err => snap.status.after = writes
    /\ cached.read => cached.after = writes

\* A hosted worker writes only on access that this process has observed, and never
\* on a projection it loaded or on one whose reconciliation has not ended
\* (reconcile_hosted_tenancy_with_provider, load_tenancy, refresh_all before serving).
TenancyFresh ==
  Hosted /\ serving /\ tenancy = "active" => seenGrant = "active" /\ holds.reconcile = "none"

\* A delivery is acted on once, over restarts too, while it is among the recent ones
\* that the log was able to keep (persist_webhook_delivery, load_webhook_deliveries).
DeliveredOnce == \A d \in Deliveries : took[d] > 1 => d \in displaced

\* The dashboard's safety: what its locks, its cache, its tokens and its two durable
\* files are for.
DashboardSound == ActionFenced /\ NobodyStuck /\ SnapshotFollowsAction /\ TenancyFresh /\ DeliveredOnce
=============================================================================
