--------------------------- MODULE ServicesProofs ---------------------------
(***************************************************************************)
(* Proofs about what runs for a long time beside the commands, for any     *)
(* number of threads, workers, hosts and events.                           *)
(***************************************************************************)
EXTENDS Dashboard, Recovery, CloneCache, Reads, SequenceTheorems, FiniteSetTheorems, NaturalsInduction,
        WellFoundedInduction, TLAPS

-----------------------------------------------------------------------------
(* The dashboard.  Where a thread is says which locks it holds (LocksAgree); *)
(* what a snapshot's sequence number stands for does not change while a     *)
(* process lives (PrintsAgree); whoever holds a status that is not yet      *)
(* published or cached read it after the last action (ReadsAgree).          *)

JobPlaces == {"idle", "queued", "lock_refresh", "read", "insert", "publish", "validate", "operate", "finish", "swap",
              "authority", "enqueue_sync", "owe", "ended"}
PollPlaces == {"idle", "ask", "wait", "read", "insert", "publish", "reconcile", "observe", "persist"}
RequestPlaces == PollPlaces \cup WebhookEvents \cup {"authority", "enqueue", "enqueue_sync", "owe"}

StatusRead == [read : BOOLEAN, facts : Nat, after : Nat]
PrintShape == [known : BOOLEAN, facts : Nat, rows : BOOLEAN]
Results == {"none", "succeeded", "failed"}
Grants == {"none", "active", "absent", "failed"}
ActionJob == [state : Results \cup {"free", "queued", "running", "killed"}, seq : Nat, print : PrintShape,
              mutates : BOOLEAN, seen : PrintShape, result : Results]
Gotten == [status : StatusRead, job : ActionJob, grant : Grants]
RowShape == [generation : Nat, complete : BOOLEAN]
SnapshotShape == [seq : Nat, status : StatusRead, err : BOOLEAN, rows : RowShape, last : Results]
Holder == Threads \cup {"none"}

PlacesOf(t) == IF t \in Jobs THEN JobPlaces ELSE IF t = "poll" THEN PollPlaces ELSE RequestPlaces

DashboardTypes ==
  /\ facts \in Nat /\ life \in Nat \ {0} /\ serving \in BOOLEAN /\ writes \in Nat
  /\ snap \in SnapshotShape /\ cached \in StatusRead
  /\ holds \in [action : Holder, refresh : Holder, reconcile : Holder]
  /\ jobs \in [Jobs -> ActionJob] /\ got \in [Threads -> Gotten]
  /\ at \in [Threads -> JobPlaces \cup RequestPlaces] /\ \A t \in Threads : at[t] \in PlacesOf(t)
  /\ browser \in [life : Nat, seq : Nat, print : PrintShape]

\* Which lock a thread holds at which place.
HasAction(t, place) == t \in Jobs /\ place \notin {"idle", "queued", "ended"}
HasRefresh(t, place) ==
  \/ place \in {"read", "insert", "publish"}
  \/ t \in Jobs /\ place \in {"validate", "operate", "finish", "swap", "authority", "enqueue_sync", "owe"}
HasReconcile(place) == place \in {"observe", "persist"}

LocksAgree ==
  \A t \in Threads : /\ holds.action = t <=> HasAction(t, at[t])
                     /\ holds.refresh = t <=> HasRefresh(t, at[t])
                     /\ holds.reconcile = t <=> HasReconcile(at[t])

\* What was seen at a sequence number is what is there while the number is.
SeenAt(seq, print) == seq <= snap.seq /\ (seq = snap.seq => print = Fingerprint)
JobSound(job) == job.print = job.seen /\ SeenAt(job.seq, job.print)

PrintsAgree ==
  /\ browser.life <= life
  /\ browser.life = life => SeenAt(browser.seq, browser.print)
  /\ \A t \in Threads : at[t] \in {"enqueue", "enqueue_sync"} => JobSound(got[t].job)
  /\ \A j \in Jobs : at[j] \notin {"idle", "ended"} => JobSound(jobs[j])
  /\ \A j \in Jobs : at[j] = "operate" => Fingerprint = jobs[j].seen

\* A status on its way to the cache or the snapshot has seen every action.
ReadsAgree ==
  /\ cached.read => cached.after = writes
  /\ \A t \in Threads : at[t] \in {"insert", "publish"} /\ got[t].status.read => got[t].status.after = writes
  /\ Settling \/ (snap.status.read /\ ~snap.err => snap.status.after = writes)

TenancyAgrees ==
  /\ holds.reconcile # "none" => tenancy = "quarantined"
  /\ \A t \in Threads : at[t] = "persist" => got[t].grant = seenGrant
  /\ Hosted /\ tenancy = "active" /\ seenGrant # "active" => ~serving /\ at["poll"] = "reconcile"

DeliveriesAgree ==
  /\ known \in Seq(Deliveries) /\ logged \in Seq(Deliveries)
  /\ took \in [Deliveries -> Nat]
  /\ Len(logged) <= Len(known) /\ Len(known) <= MaxLogged
  /\ \A d \in Deliveries : took[d] > 0 /\ d \notin displaced => d \in ToSet(known) /\ d \in ToSet(logged)
  /\ DeliveredOnce

DashboardInv == DashboardTypes /\ LocksAgree /\ PrintsAgree /\ ReadsAgree /\ TenancyAgrees /\ DeliveriesAgree

\* Threads are the poller, the requests and the workers, and nobody is two of them.
LEMMA ThreadFacts ==
  /\ "none" \notin Threads /\ "poll" \in Threads /\ Jobs \subseteq Threads /\ Requests \subseteq Threads
  /\ "poll" \notin Jobs /\ "poll" \notin Requests /\ Requests \cap Jobs = {}
  /\ \A t \in Threads : t = "poll" \/ t \in Requests \/ t \in Jobs
  BY DashboardBounds DEF Threads

\* What the bookkeeping of the server starts with.
LEMMA Blanks ==
  /\ NoStatus \in StatusRead /\ NoPrint \in PrintShape /\ FreeJob \in ActionJob /\ Nothing \in Gotten
  /\ NoRows \in RowShape /\ NoSnapshot \in SnapshotShape
<1>1. NoStatus \in StatusRead /\ NoPrint \in PrintShape
  BY DEF NoStatus, StatusRead, NoPrint, PrintShape
<1>2. FreeJob \in ActionJob
  BY <1>1 DEF FreeJob, ActionJob, Results
<1>3. NoRows \in RowShape
  BY DEF NoRows, RowShape
<1> QED
  BY <1>1, <1>2, <1>3 DEF Nothing, Gotten, Grants, Results, NoSnapshot, SnapshotShape

\* The digest of a snapshot.
LEMMA FingerprintShape ==
  ASSUME snap \in SnapshotShape
  PROVE  Fingerprint \in PrintShape
<1>1. snap.status.facts \in Nat /\ snap.rows.complete \in BOOLEAN
  BY DEF SnapshotShape, StatusRead, RowShape
<1>2. \A f \in Nat, k, r \in BOOLEAN : [known |-> k, facts |-> f, rows |-> r] \in PrintShape
  BY DEF PrintShape
<1> QED
  BY <1>1, <1>2, Blanks, Zenon DEF Fingerprint

\* A thread goes to a place of its own.
LEMMA GoTypes ==
  ASSUME DashboardTypes, NEW t \in Threads, NEW place \in PlacesOf(t), Go(t, place)
  PROVE  at' \in [Threads -> JobPlaces \cup RequestPlaces] /\ \A u \in Threads : at'[u] \in PlacesOf(u)
<1>1. place \in JobPlaces \cup RequestPlaces
  BY DEF PlacesOf, RequestPlaces
<1> QED
  BY <1>1 DEF Go, DashboardTypes

\* Dropping the guards of a thread keeps the shapes.
LEMMA LeaveTypes ==
  ASSUME DashboardTypes, NEW t \in Threads, Leave(t)
  PROVE  /\ holds' \in [action : Holder, refresh : Holder, reconcile : Holder] /\ serving' \in BOOLEAN
         /\ got' \in [Threads -> Gotten]
         /\ at' \in [Threads -> JobPlaces \cup RequestPlaces] /\ \A u \in Threads : at'[u] \in PlacesOf(u)
<1>1. holds' \in [action : Holder, refresh : Holder, reconcile : Holder]
  BY ThreadFacts DEF Leave, DashboardTypes, Holder
<1>2. got' \in [Threads -> Gotten] /\ serving' \in BOOLEAN
  BY Blanks DEF Leave, DashboardTypes
<1>3. at' \in [Threads -> JobPlaces \cup RequestPlaces] /\ \A u \in Threads : at'[u] \in PlacesOf(u)
  BY ThreadFacts DEF Leave, DashboardTypes, JobPlaces, RequestPlaces, PollPlaces, PlacesOf
<1> QED
  BY <1>1, <1>2, <1>3

\* What a refresh publishes is a snapshot.
LEMMA SnapshotUpdate ==
  ASSUME NEW s \in SnapshotShape, NEW n \in Nat, NEW err \in BOOLEAN, NEW rows \in RowShape
  PROVE  /\ \A status \in StatusRead : [s EXCEPT !.seq = n, !.status = status, !.err = err, !.rows = rows] \in SnapshotShape
         /\ [s EXCEPT !.seq = n, !.err = err, !.rows = rows] \in SnapshotShape
<1>1. \A z \in SnapshotShape : /\ [z EXCEPT !.seq = n] \in SnapshotShape
                               /\ [z EXCEPT !.err = err] \in SnapshotShape /\ [z EXCEPT !.rows = rows] \in SnapshotShape
  BY DEF SnapshotShape
<1>2. \A z \in SnapshotShape, status \in StatusRead : [z EXCEPT !.status = status] \in SnapshotShape
  BY DEF SnapshotShape
<1> QED
  BY <1>1, <1>2, Zenon

\* ... of whichever outcome.
LEMMA PublishedShape ==
  ASSUME snap \in SnapshotShape, NEW status \in StatusRead
  PROVE  Published(status) \subseteq SnapshotShape
<1> snap.seq + 1 \in Nat
  BY DEF SnapshotShape
<1>1. Generation(status.facts) \in Nat
  BY DEF Generation, StatusRead
<1>2. CompatibilityRows(status.facts) \subseteq RowShape
  BY <1>1 DEF CompatibilityRows, SnapshotShape, RowShape
<1>3. \A r \in RowShape : [snap EXCEPT !.seq = @ + 1, !.status = status, !.err = FALSE, !.rows = r] \in SnapshotShape
  BY SnapshotUpdate
<1>4. [snap EXCEPT !.seq = @ + 1, !.err = TRUE, !.rows = NoRows] \in SnapshotShape
  BY SnapshotUpdate, Blanks
<1>5. CASE status.read
  BY <1>5, <1>2, <1>3 DEF Published
<1>6. CASE ~status.read
  BY <1>6, <1>4 DEF Published
<1> QED
  BY <1>5, <1>6

\* What a thread has read keeps its shape when one part of it changes.
LEMMA GottenShape ==
  ASSUME got \in [Threads -> Gotten], NEW t \in Threads
  PROVE  /\ \A status \in StatusRead : [got EXCEPT ![t].status = status] \in [Threads -> Gotten]
         /\ \A job \in ActionJob : [got EXCEPT ![t].job = job] \in [Threads -> Gotten]
<1>1. got[t] \in Gotten
  OBVIOUS
<1>2. ASSUME NEW status \in StatusRead PROVE [got EXCEPT ![t].status = status] \in [Threads -> Gotten]
  <2>1. [got[t] EXCEPT !.status = status] \in Gotten
    BY <1>1 DEF Gotten
  <2> QED
    BY <2>1
<1>3. ASSUME NEW job \in ActionJob PROVE [got EXCEPT ![t].job = job] \in [Threads -> Gotten]
  <2>1. [got[t] EXCEPT !.job = job] \in Gotten
    BY <1>1 DEF Gotten
  <2> QED
    BY <2>1
<1> QED
  BY <1>2, <1>3

\* A job that is drafted for the snapshot there is.
Draft(mutates, seen) == [FreeJob EXCEPT !.state = "queued", !.seq = snap.seq, !.print = Fingerprint,
                                        !.mutates = mutates, !.seen = seen]

LEMMA DraftShape ==
  ASSUME snap \in SnapshotShape, NEW mutates \in BOOLEAN, NEW seen \in PrintShape
  PROVE  /\ Draft(mutates, seen) \in ActionJob
         /\ Draft(mutates, seen).seq = snap.seq /\ Draft(mutates, seen).print = Fingerprint
         /\ Draft(mutates, seen).seen = seen
<1>1. Fingerprint \in PrintShape /\ snap.seq \in Nat
  BY FingerprintShape DEF SnapshotShape
<1> QED
  BY <1>1, Blanks DEF Draft, ActionJob, Results

\* Every step keeps the shapes.
LEMMA TypesStep ==
  ASSUME DashboardTypes, DashboardNext
  PROVE  DashboardTypes'
<1>1. ASSUME NEW t \in Threads, AskRefresh(t) PROVE DashboardTypes'
  <2>1. "wait" \in PlacesOf(t)
    <3>1. at[t] \in PlacesOf(t)
      BY DEF DashboardTypes
    <3> QED
      BY <1>1, <3>1, ThreadFacts DEF AskRefresh, PlacesOf, JobPlaces, RequestPlaces, PollPlaces, WebhookEvents
  <2>2. at' \in [Threads -> JobPlaces \cup RequestPlaces] /\ \A u \in Threads : at'[u] \in PlacesOf(u)
    BY <1>1, <2>1, GoTypes, LeaveTypes DEF AskRefresh
  <2>3. holds' \in [action : Holder, refresh : Holder, reconcile : Holder] /\ serving' \in BOOLEAN /\ got' \in [Threads -> Gotten]
    BY <1>1, LeaveTypes DEF AskRefresh, DashboardTypes
  <2> QED
    BY <1>1, <2>2, <2>3 DEF AskRefresh, DashboardTypes, beyond, deliveryVars, tenancyVars, actionVars, screen
<1>2. ASSUME NEW t \in Threads, TakeRefreshLock(t) PROVE DashboardTypes'
  <2>1. "read" \in PlacesOf(t)
    <3>1. at[t] \in PlacesOf(t)
      BY DEF DashboardTypes
    <3> QED
      BY <1>2, <3>1, ThreadFacts DEF TakeRefreshLock, PlacesOf, JobPlaces, RequestPlaces, PollPlaces, WebhookEvents
  <2>2. at' \in [Threads -> JobPlaces \cup RequestPlaces] /\ \A u \in Threads : at'[u] \in PlacesOf(u)
    BY <1>2, <2>1, GoTypes, LeaveTypes DEF TakeRefreshLock
  <2>3. holds' \in [action : Holder, refresh : Holder, reconcile : Holder] /\ serving' \in BOOLEAN /\ got' \in [Threads -> Gotten]
    BY <1>2, LeaveTypes DEF TakeRefreshLock, DashboardTypes, Holder
  <2> QED
    BY <1>2, <2>2, <2>3 DEF TakeRefreshLock, DashboardTypes, beyond, deliveryVars, tenancyVars, actionVars, screen, Holder
<1>3. ASSUME NEW t \in Threads, CacheHit(t) PROVE DashboardTypes'
  <2>1. "publish" \in PlacesOf(t)
    <3>1. at[t] \in PlacesOf(t)
      BY DEF DashboardTypes
    <3> QED
      BY <1>3, <3>1, ThreadFacts DEF CacheHit, PlacesOf, JobPlaces, RequestPlaces, PollPlaces, WebhookEvents
  <2>2. at' \in [Threads -> JobPlaces \cup RequestPlaces] /\ \A u \in Threads : at'[u] \in PlacesOf(u)
    BY <1>3, <2>1, GoTypes, LeaveTypes DEF CacheHit
  <2>3. holds' \in [action : Holder, refresh : Holder, reconcile : Holder] /\ serving' \in BOOLEAN /\ got' \in [Threads -> Gotten]
    BY <1>3, LeaveTypes DEF CacheHit, DashboardTypes, Gotten
  <2> QED
    BY <1>3, <2>2, <2>3 DEF CacheHit, DashboardTypes, beyond, deliveryVars, tenancyVars, actionVars, screen, Gotten
<1>4. ASSUME NEW t \in Threads, ReadStatus(t) PROVE DashboardTypes'
  <2>1. "insert" \in PlacesOf(t) /\ "publish" \in PlacesOf(t)
    <3>1. at[t] \in PlacesOf(t)
      BY DEF DashboardTypes
    <3> QED
      BY <1>4, <3>1, ThreadFacts DEF ReadStatus, PlacesOf, JobPlaces, RequestPlaces, PollPlaces, WebhookEvents
  <2>2. at' \in [Threads -> JobPlaces \cup RequestPlaces] /\ \A u \in Threads : at'[u] \in PlacesOf(u)
    BY <1>4, <2>1, GoTypes DEF ReadStatus
  <2>3. [read |-> TRUE, facts |-> facts, after |-> writes] \in StatusRead
    BY DEF DashboardTypes, StatusRead
  <2>4. got' \in [Threads -> Gotten]
    <3>1. \A status \in StatusRead : [got EXCEPT ![t].status = status] \in [Threads -> Gotten]
      BY GottenShape DEF DashboardTypes
    <3> QED
      BY <1>4, <2>3, <3>1, Blanks DEF ReadStatus
  <2> QED
    BY <1>4, <2>2, <2>4 DEF ReadStatus, DashboardTypes, beyond, deliveryVars, tenancyVars, actionVars, screen
<1>5. ASSUME NEW t \in Threads, InsertStatus(t) PROVE DashboardTypes'
  <2>1. "publish" \in PlacesOf(t)
    <3>1. at[t] \in PlacesOf(t)
      BY DEF DashboardTypes
    <3> QED
      BY <1>5, <3>1, ThreadFacts DEF InsertStatus, PlacesOf, JobPlaces, RequestPlaces, PollPlaces, WebhookEvents
  <2>2. at' \in [Threads -> JobPlaces \cup RequestPlaces] /\ \A u \in Threads : at'[u] \in PlacesOf(u)
    BY <1>5, <2>1, GoTypes, LeaveTypes DEF InsertStatus
  <2>3. holds' \in [action : Holder, refresh : Holder, reconcile : Holder] /\ serving' \in BOOLEAN /\ got' \in [Threads -> Gotten]
    BY <1>5, LeaveTypes DEF InsertStatus, DashboardTypes, Gotten
  <2> QED
    BY <1>5, <2>2, <2>3 DEF InsertStatus, DashboardTypes, beyond, deliveryVars, tenancyVars, actionVars, screen, Gotten
<1>6. ASSUME NEW t \in Threads, Publish(t) PROVE DashboardTypes'
  <2>1. t \in Jobs => "validate" \in PlacesOf(t) /\ "finish" \in PlacesOf(t)
    <3>1. at[t] \in PlacesOf(t)
      BY DEF DashboardTypes
    <3> QED
      BY <1>6, <3>1, ThreadFacts DEF Publish, PlacesOf, JobPlaces, RequestPlaces, PollPlaces, WebhookEvents
  <2>2. at' \in [Threads -> JobPlaces \cup RequestPlaces] /\ \A u \in Threads : at'[u] \in PlacesOf(u)
    BY <1>6, <2>1, GoTypes, LeaveTypes DEF Publish
  <2>3. holds' \in [action : Holder, refresh : Holder, reconcile : Holder] /\ serving' \in BOOLEAN /\ got' \in [Threads -> Gotten]
    BY <1>6, LeaveTypes DEF Publish, DashboardTypes
  <2>4. snap' \in SnapshotShape
    BY <1>6, PublishedShape DEF Publish, DashboardTypes, Gotten
  <2> QED
    BY <1>6, <2>2, <2>3, <2>4 DEF Publish, DashboardTypes, beyond, deliveryVars, tenancyVars, actionVars, screen
<1>7. ASSUME NEW t \in Threads, QuarantinePending(t) PROVE DashboardTypes'
  <2>1. "observe" \in PlacesOf(t)
    <3>1. at[t] \in PlacesOf(t)
      BY DEF DashboardTypes
    <3> QED
      BY <1>7, <3>1, ThreadFacts DEF QuarantinePending, PlacesOf, JobPlaces, RequestPlaces, PollPlaces, WebhookEvents
  <2>2. at' \in [Threads -> JobPlaces \cup RequestPlaces] /\ \A u \in Threads : at'[u] \in PlacesOf(u)
    BY <1>7, <2>1, GoTypes, LeaveTypes DEF QuarantinePending
  <2>3. holds' \in [action : Holder, refresh : Holder, reconcile : Holder] /\ serving' \in BOOLEAN /\ got' \in [Threads -> Gotten]
    BY <1>7, LeaveTypes DEF QuarantinePending, DashboardTypes, Holder
  <2> QED
    BY <1>7, <2>2, <2>3 DEF QuarantinePending, DashboardTypes, beyond, deliveryVars, tenancyVars, actionVars, screen, Holder
<1>8. ASSUME NEW t \in Threads, Observe(t) PROVE DashboardTypes'
  <2>1. "persist" \in PlacesOf(t)
    <3>1. at[t] \in PlacesOf(t)
      BY DEF DashboardTypes
    <3> QED
      BY <1>8, <3>1, ThreadFacts DEF Observe, PlacesOf, JobPlaces, RequestPlaces, PollPlaces, WebhookEvents
  <2>2. at' \in [Threads -> JobPlaces \cup RequestPlaces] /\ \A u \in Threads : at'[u] \in PlacesOf(u)
    BY <1>8, <2>1, GoTypes, LeaveTypes DEF Observe
  <2>3. holds' \in [action : Holder, refresh : Holder, reconcile : Holder] /\ serving' \in BOOLEAN /\ got' \in [Threads -> Gotten]
    BY <1>8, LeaveTypes DEF Observe, DashboardTypes, Gotten, Grants
  <2> QED
    BY <1>8, <2>2, <2>3 DEF Observe, DashboardTypes, beyond, deliveryVars, tenancyVars, actionVars, screen, Gotten, Grants
<1>9. ASSUME NEW t \in Threads, PersistTenancy(t) PROVE DashboardTypes'
  <2>1. "ask" \in PlacesOf(t)
    <3>1. at[t] \in PlacesOf(t)
      BY DEF DashboardTypes
    <3> QED
      BY <1>9, <3>1, ThreadFacts DEF PersistTenancy, PlacesOf, JobPlaces, RequestPlaces, PollPlaces, WebhookEvents
  <2>2. at' \in [Threads -> JobPlaces \cup RequestPlaces] /\ \A u \in Threads : at'[u] \in PlacesOf(u)
    BY <1>9, <2>1, GoTypes, LeaveTypes DEF PersistTenancy
  <2>3. holds' \in [action : Holder, refresh : Holder, reconcile : Holder] /\ serving' \in BOOLEAN /\ got' \in [Threads -> Gotten]
    BY <1>9, LeaveTypes, Blanks DEF PersistTenancy, DashboardTypes, Holder
  <2> QED
    BY <1>9, <2>2, <2>3, Blanks DEF PersistTenancy, DashboardTypes, beyond, deliveryVars, tenancyVars, actionVars, screen, Holder
<1>10. ASSUME NEW t \in Threads, RouteWebhook(t) PROVE DashboardTypes'
  <2>1. "authority" \in PlacesOf(t) /\ "ask" \in PlacesOf(t)
    <3>1. at[t] \in PlacesOf(t)
      BY DEF DashboardTypes
    <3> QED
      BY <1>10, <3>1, ThreadFacts DEF RouteWebhook, PlacesOf, JobPlaces, RequestPlaces, PollPlaces, WebhookEvents
  <2>2. at' \in [Threads -> JobPlaces \cup RequestPlaces] /\ \A u \in Threads : at'[u] \in PlacesOf(u)
    BY <1>10, <2>1, GoTypes, LeaveTypes DEF RouteWebhook
  <2>3. holds' \in [action : Holder, refresh : Holder, reconcile : Holder] /\ serving' \in BOOLEAN /\ got' \in [Threads -> Gotten]
    BY <1>10, LeaveTypes, Blanks DEF RouteWebhook, DashboardTypes
  <2> QED
    BY <1>10, <2>2, <2>3, Blanks DEF RouteWebhook, DashboardTypes, beyond, deliveryVars, tenancyVars, actionVars, screen
<1>11. ASSUME NEW t \in Threads, DraftSync(t) PROVE DashboardTypes'
  <2>1. "enqueue_sync" \in PlacesOf(t)
    <3>1. at[t] \in PlacesOf(t)
      BY DEF DashboardTypes
    <3> QED
      BY <1>11, <3>1, ThreadFacts DEF DraftSync, PlacesOf, JobPlaces, RequestPlaces, PollPlaces, WebhookEvents
  <2>2. at' \in [Threads -> JobPlaces \cup RequestPlaces] /\ \A u \in Threads : at'[u] \in PlacesOf(u)
    BY <1>11, <2>1, GoTypes, LeaveTypes DEF DraftSync
  <2>3. Draft(TRUE, Fingerprint) \in ActionJob
    BY FingerprintShape, DraftShape DEF DashboardTypes
  <2>4. [got EXCEPT ![t].job = Draft(TRUE, Fingerprint)] \in [Threads -> Gotten]
    BY <2>3, GottenShape DEF DashboardTypes
  <2>5. holds' \in [action : Holder, refresh : Holder, reconcile : Holder] /\ serving' \in BOOLEAN /\ got' \in [Threads -> Gotten]
    BY <1>11, <2>4, LeaveTypes DEF DraftSync, Draft, DashboardTypes
  <2> QED
    BY <1>11, <2>2, <2>5 DEF DraftSync, DashboardTypes, beyond, deliveryVars, tenancyVars, actionVars, screen
<1>12. ASSUME NEW t \in Threads, EnqueueActionJob(t) PROVE DashboardTypes'
  <2>1. at[t] \in PlacesOf(t) /\ got[t].job \in ActionJob
    BY DEF DashboardTypes, Gotten
  <2>2. CASE HasActiveAction /\ UNCHANGED <<jobs, recent>>
    <3>1. at[t] # "enqueue" => "owe" \in PlacesOf(t)
      BY <1>12, <2>1, ThreadFacts DEF EnqueueActionJob, PlacesOf, JobPlaces, RequestPlaces, PollPlaces, WebhookEvents
    <3>2. Leave(t) \/ ("owe" \in PlacesOf(t) /\ Go(t, "owe") /\ UNCHANGED <<got, holds, serving>>)
      BY <1>12, <2>2, <3>1 DEF EnqueueActionJob, Enqueued
    <3> QED
      BY <1>12, <2>2, <3>2, GoTypes, LeaveTypes DEF EnqueueActionJob, DashboardTypes, beyond, deliveryVars, tenancyVars, actionVars, screen
  <2>3. ASSUME NEW j \in Jobs, at[j] = "idle", jobs' = [jobs EXCEPT ![j] = got[t].job],
               at' = [at EXCEPT ![j] = "queued", ![t] = IF t \in Jobs THEN "ended" ELSE "idle"],
               got' = [got EXCEPT ![t] = Nothing], UNCHANGED serving,
               holds' = [l \in DOMAIN holds |-> IF holds[l] = t THEN "none" ELSE holds[l]]
        PROVE  DashboardTypes'
    <3>1. at' \in [Threads -> JobPlaces \cup RequestPlaces] /\ \A u \in Threads : at'[u] \in PlacesOf(u)
      BY <2>3, ThreadFacts DEF DashboardTypes, JobPlaces, RequestPlaces, PollPlaces, PlacesOf
    <3>2. holds' \in [action : Holder, refresh : Holder, reconcile : Holder]
      BY <2>3, ThreadFacts DEF DashboardTypes, Holder
    <3>3. jobs' \in [Jobs -> ActionJob] /\ got' \in [Threads -> Gotten]
      BY <2>1, <2>3, Blanks DEF DashboardTypes
    <3> QED
      BY <1>12, <2>3, <3>1, <3>2, <3>3 DEF EnqueueActionJob, DashboardTypes, beyond, deliveryVars, tenancyVars, actionVars, screen
  <2> QED
    BY <1>12, <2>2, <2>3 DEF EnqueueActionJob
<1>13. ASSUME NEW t \in Threads, OweSync(t) PROVE DashboardTypes'
  BY <1>13, LeaveTypes DEF OweSync, DashboardTypes, beyond, deliveryVars, tenancyVars, actionVars, screen
<1>14. ASSUME NEW j \in Jobs, TakeActionLock(j) PROVE DashboardTypes'
  <2>1. "lock_refresh" \in PlacesOf(j)
    <3>1. at[j] \in PlacesOf(j)
      BY ThreadFacts DEF DashboardTypes
    <3> QED
      BY <1>14, <3>1, ThreadFacts DEF TakeActionLock, PlacesOf, JobPlaces, RequestPlaces, PollPlaces, WebhookEvents
  <2>2. at' \in [Threads -> JobPlaces \cup RequestPlaces] /\ \A u \in Threads : at'[u] \in PlacesOf(u)
    BY <1>14, <2>1, ThreadFacts, GoTypes, LeaveTypes DEF TakeActionLock
  <2>3. holds' \in [action : Holder, refresh : Holder, reconcile : Holder] /\ serving' \in BOOLEAN /\ got' \in [Threads -> Gotten]
    BY <1>14, LeaveTypes, ThreadFacts DEF TakeActionLock, DashboardTypes, Holder, ActionJob
  <2> QED
    BY <1>14, <2>2, <2>3, ThreadFacts DEF TakeActionLock, DashboardTypes, beyond, deliveryVars, tenancyVars, actionVars, screen, Holder, ActionJob
<1>15. ASSUME NEW j \in Jobs, FreshActionAuthority(j) PROVE DashboardTypes'
  <2>1. "read" \in PlacesOf(j) /\ "validate" \in PlacesOf(j)
    <3>1. at[j] \in PlacesOf(j)
      BY ThreadFacts DEF DashboardTypes
    <3> QED
      BY <1>15, <3>1, ThreadFacts DEF FreshActionAuthority, PlacesOf, JobPlaces, RequestPlaces, PollPlaces, WebhookEvents
  <2>2. at' \in [Threads -> JobPlaces \cup RequestPlaces] /\ \A u \in Threads : at'[u] \in PlacesOf(u)
    BY <1>15, <2>1, ThreadFacts, GoTypes, LeaveTypes DEF FreshActionAuthority
  <2>3. holds' \in [action : Holder, refresh : Holder, reconcile : Holder] /\ serving' \in BOOLEAN /\ got' \in [Threads -> Gotten]
    BY <1>15, LeaveTypes, Blanks, ThreadFacts DEF FreshActionAuthority, DashboardTypes, Holder
  <2> QED
    BY <1>15, <2>2, <2>3, Blanks, ThreadFacts DEF FreshActionAuthority, DashboardTypes, beyond, deliveryVars, tenancyVars, actionVars, screen, Holder
<1>16. ASSUME NEW j \in Jobs, ValidateAction(j) PROVE DashboardTypes'
  <2>1. "read" \in PlacesOf(j) /\ "operate" \in PlacesOf(j)
    <3>1. at[j] \in PlacesOf(j)
      BY ThreadFacts DEF DashboardTypes
    <3> QED
      BY <1>16, <3>1, ThreadFacts DEF ValidateAction, PlacesOf, JobPlaces, RequestPlaces, PollPlaces, WebhookEvents
  <2>2. at' \in [Threads -> JobPlaces \cup RequestPlaces] /\ \A u \in Threads : at'[u] \in PlacesOf(u)
    BY <1>16, <2>1, ThreadFacts, GoTypes, LeaveTypes DEF ValidateAction
  <2>3. holds' \in [action : Holder, refresh : Holder, reconcile : Holder] /\ serving' \in BOOLEAN /\ got' \in [Threads -> Gotten]
    BY <1>16, LeaveTypes, Blanks, ThreadFacts DEF ValidateAction, DashboardTypes, ActionJob, Results, CacheAfterAction
  <2> QED
    BY <1>16, <2>2, <2>3, Blanks, ThreadFacts DEF ValidateAction, DashboardTypes, beyond, deliveryVars, tenancyVars, actionVars, screen, ActionJob, Results, CacheAfterAction
<1>17. ASSUME NEW j \in Jobs, RunAction(j) PROVE DashboardTypes'
  <2>1. "read" \in PlacesOf(j)
    <3>1. at[j] \in PlacesOf(j)
      BY ThreadFacts DEF DashboardTypes
    <3> QED
      BY <1>17, <3>1, ThreadFacts DEF RunAction, PlacesOf, JobPlaces, RequestPlaces, PollPlaces, WebhookEvents
  <2>2. at' \in [Threads -> JobPlaces \cup RequestPlaces] /\ \A u \in Threads : at'[u] \in PlacesOf(u)
    BY <1>17, <2>1, ThreadFacts, GoTypes, LeaveTypes DEF RunAction
  <2>3. holds' \in [action : Holder, refresh : Holder, reconcile : Holder] /\ serving' \in BOOLEAN /\ got' \in [Threads -> Gotten]
    BY <1>17, LeaveTypes, Blanks, ThreadFacts DEF RunAction, DashboardTypes, ActionJob, Results, CacheAfterAction
  <2> QED
    BY <1>17, <2>2, <2>3, Blanks, ThreadFacts DEF RunAction, DashboardTypes, beyond, deliveryVars, tenancyVars, actionVars, screen, ActionJob, Results, CacheAfterAction
<1>18. ASSUME NEW j \in Jobs, FinishJob(j) PROVE DashboardTypes'
  <2>1. "swap" \in PlacesOf(j)
    <3>1. at[j] \in PlacesOf(j)
      BY ThreadFacts DEF DashboardTypes
    <3> QED
      BY <1>18, <3>1, ThreadFacts DEF FinishJob, PlacesOf, JobPlaces, RequestPlaces, PollPlaces, WebhookEvents
  <2>2. at' \in [Threads -> JobPlaces \cup RequestPlaces] /\ \A u \in Threads : at'[u] \in PlacesOf(u)
    BY <1>18, <2>1, ThreadFacts, GoTypes, LeaveTypes DEF FinishJob
  <2>3. holds' \in [action : Holder, refresh : Holder, reconcile : Holder] /\ serving' \in BOOLEAN /\ got' \in [Threads -> Gotten]
    BY <1>18, LeaveTypes, ThreadFacts DEF FinishJob, DashboardTypes, ActionJob, SnapshotShape
  <2> QED
    BY <1>18, <2>2, <2>3, ThreadFacts DEF FinishJob, DashboardTypes, beyond, deliveryVars, tenancyVars, actionVars, screen, ActionJob, SnapshotShape
<1>19. ASSUME NEW j \in Jobs, SwapOwed(j) PROVE DashboardTypes'
  <2>1. "authority" \in PlacesOf(j)
    <3>1. at[j] \in PlacesOf(j)
      BY ThreadFacts DEF DashboardTypes
    <3> QED
      BY <1>19, <3>1, ThreadFacts DEF SwapOwed, PlacesOf, JobPlaces, RequestPlaces, PollPlaces, WebhookEvents
  <2>2. at' \in [Threads -> JobPlaces \cup RequestPlaces] /\ \A u \in Threads : at'[u] \in PlacesOf(u)
    BY <1>19, <2>1, ThreadFacts, GoTypes, LeaveTypes DEF SwapOwed
  <2>3. holds' \in [action : Holder, refresh : Holder, reconcile : Holder] /\ serving' \in BOOLEAN /\ got' \in [Threads -> Gotten]
    BY <1>19, LeaveTypes, ThreadFacts DEF SwapOwed, DashboardTypes
  <2> QED
    BY <1>19, <2>2, <2>3, ThreadFacts DEF SwapOwed, DashboardTypes, beyond, deliveryVars, tenancyVars, actionVars, screen
<1>20. ASSUME NEW r \in Requests, HandleRefresh(r) PROVE DashboardTypes'
  <2>1. "ask" \in PlacesOf(r)
    <3>1. at[r] \in PlacesOf(r)
      BY ThreadFacts DEF DashboardTypes
    <3> QED
      BY <1>20, <3>1, ThreadFacts DEF HandleRefresh, PlacesOf, JobPlaces, RequestPlaces, PollPlaces, WebhookEvents
  <2>2. at' \in [Threads -> JobPlaces \cup RequestPlaces] /\ \A u \in Threads : at'[u] \in PlacesOf(u)
    BY <1>20, <2>1, ThreadFacts, GoTypes, LeaveTypes DEF HandleRefresh
  <2>3. holds' \in [action : Holder, refresh : Holder, reconcile : Holder] /\ serving' \in BOOLEAN /\ got' \in [Threads -> Gotten]
    BY <1>20, LeaveTypes, Blanks, ThreadFacts DEF HandleRefresh, DashboardTypes, Accepted
  <2> QED
    BY <1>20, <2>2, <2>3, Blanks, ThreadFacts DEF HandleRefresh, DashboardTypes, beyond, deliveryVars, tenancyVars, actionVars, screen, Accepted
<1>21. ASSUME NEW r \in Requests, HandleAction(r) PROVE DashboardTypes'
  <2>1. "enqueue" \in PlacesOf(r)
    <3>1. at[r] \in PlacesOf(r)
      BY ThreadFacts DEF DashboardTypes
    <3> QED
      BY <1>21, <3>1, ThreadFacts DEF HandleAction, PlacesOf, JobPlaces, RequestPlaces, PollPlaces, WebhookEvents
  <2>2. at' \in [Threads -> JobPlaces \cup RequestPlaces] /\ \A u \in Threads : at'[u] \in PlacesOf(u)
    BY <1>21, <2>1, ThreadFacts, GoTypes, LeaveTypes DEF HandleAction
  <2>3. PICK mutates \in BOOLEAN : got' = [got EXCEPT ![r].job = Draft(mutates, browser.print)]
    BY <1>21 DEF HandleAction, Draft
  <2>4. Draft(mutates, browser.print) \in ActionJob
    BY DraftShape DEF DashboardTypes
  <2>5. got' \in [Threads -> Gotten]
    BY <2>3, <2>4, GottenShape, ThreadFacts DEF DashboardTypes
  <2> QED
    BY <1>21, <2>2, <2>5 DEF HandleAction, DashboardTypes, Accepted, beyond, deliveryVars, tenancyVars, actionVars, screen
<1>22. ASSUME NEW r \in Requests, RecordWebhookDelivery(r) PROVE DashboardTypes'
  <2>1. UNCHANGED at \/ \E event \in WebhookEvents : Go(r, IF event = "lifecycle" /\ Hosted THEN "reconcile" ELSE event)
    BY <1>22 DEF RecordWebhookDelivery, deliveryVars
  <2>2. at' \in [Threads -> JobPlaces \cup RequestPlaces] /\ \A u \in Threads : at'[u] \in PlacesOf(u)
    <3>1. r \in Threads /\ WebhookEvents \cup {"reconcile"} \subseteq PlacesOf(r)
      BY ThreadFacts DEF PlacesOf, RequestPlaces, PollPlaces
    <3> QED
      BY <2>1, <3>1, GoTypes DEF DashboardTypes
  <2> QED
    BY <1>22, <2>2 DEF RecordWebhookDelivery, Accepted, DashboardTypes, beyond, deliveryVars, tenancyVars, actionVars, screen
<1>23. CASE PollerWakes
  <2>1. at' \in [Threads -> JobPlaces \cup RequestPlaces] /\ \A u \in Threads : at'[u] \in PlacesOf(u)
    <3>1. RefreshAll \in PlacesOf("poll")
      BY ThreadFacts DEF RefreshAll, PlacesOf, PollPlaces
    <3> QED
      BY <1>23, <3>1, ThreadFacts, GoTypes DEF PollerWakes
  <2> QED
    BY <1>23, <2>1 DEF PollerWakes, DashboardTypes, beyond, deliveryVars, tenancyVars, actionVars, screen
<1>24. CASE ViewState
  <2>1. browser' \in [life : Nat, seq : Nat, print : PrintShape]
    BY <1>24, FingerprintShape DEF ViewState, DashboardTypes, SnapshotShape
  <2> QED
    BY <1>24, <2>1 DEF ViewState, DashboardTypes, beyond, deliveryVars, tenancyVars, actionVars, screen
<1>25. CASE FactsChange
  BY <1>25, ThreadFacts, Blanks, LeaveTypes DEF FactsChange, Go, DashboardTypes, beyond, deliveryVars, tenancyVars, actionVars, screen
<1>26. CASE GrantChanges
  BY <1>26, ThreadFacts, Blanks, LeaveTypes DEF GrantChanges, Go, DashboardTypes, beyond, deliveryVars, tenancyVars, actionVars, screen
<1>27. CASE CacheExpires
  BY <1>27, ThreadFacts, Blanks, LeaveTypes DEF CacheExpires, Go, DashboardTypes, beyond, deliveryVars, tenancyVars, actionVars, screen
<1>28. CASE Restart
  <2>1. at' \in [Threads -> JobPlaces \cup RequestPlaces] /\ \A u \in Threads : at'[u] \in PlacesOf(u)
    BY <1>28, ThreadFacts DEF Restart, Started, RefreshAll, PlacesOf, JobPlaces, RequestPlaces, PollPlaces, WebhookEvents
  <2>2. got' \in [Threads -> Gotten] /\ snap' \in SnapshotShape /\ cached' \in StatusRead /\ serving' \in BOOLEAN
    BY <1>28, Blanks DEF Restart, Started
  <2>3. holds' \in [action : Holder, refresh : Holder, reconcile : Holder]
    BY <1>28 DEF Restart, Started, Unlocked, Holder
  <2>4. jobs' \in [Jobs -> ActionJob]
    <3>1. \A j \in Jobs : [jobs[j] EXCEPT !.state = "killed"] \in ActionJob
      BY DEF DashboardTypes, ActionJob
    <3> QED
      BY <1>28, <3>1 DEF Restart, DashboardTypes
  <2> QED
    BY <1>28, <2>1, <2>2, <2>3, <2>4 DEF Restart, DashboardTypes, beyond, deliveryVars, tenancyVars, actionVars, screen
<1> QED
  BY <1>1, <1>2, <1>3, <1>4, <1>5, <1>6, <1>7, <1>8, <1>9, <1>10, <1>11, <1>12, <1>13, <1>14,
     <1>15, <1>16, <1>17, <1>18, <1>19, <1>20, <1>21, <1>22, <1>23, <1>24, <1>25, <1>26, <1>27, <1>28
  DEF DashboardNext, ThreadStep, RefreshStep, TenancyStep, RequestStep, JobStep

\* A thread that goes where it holds what it held.
LEMMA GoLocks ==
  ASSUME DashboardTypes, LocksAgree, NEW t \in Threads, NEW place, Go(t, place), UNCHANGED holds,
         HasAction(t, place) <=> HasAction(t, at[t]), HasRefresh(t, place) <=> HasRefresh(t, at[t]),
         HasReconcile(place) <=> HasReconcile(at[t])
  PROVE  LocksAgree'
<1>1. ASSUME NEW u \in Threads
      PROVE  /\ holds'.action = u <=> HasAction(u, at'[u])
             /\ holds'.refresh = u <=> HasRefresh(u, at'[u])
             /\ holds'.reconcile = u <=> HasReconcile(at'[u])
  <2>1. at'[u] = IF u = t THEN place ELSE at[u]
    BY DEF Go, DashboardTypes
  <2> QED
    BY <2>1 DEF LocksAgree
<1> QED
  BY <1>1 DEF LocksAgree, HasAction, HasRefresh, HasReconcile

\* A thread that returns holds nothing.
LEMMA LeaveLocks ==
  ASSUME DashboardTypes, LocksAgree, NEW t \in Threads, Leave(t)
  PROVE  LocksAgree'
<1>1. ASSUME NEW u \in Threads
      PROVE  /\ holds'.action = u <=> HasAction(u, at'[u])
             /\ holds'.refresh = u <=> HasRefresh(u, at'[u])
             /\ holds'.reconcile = u <=> HasReconcile(at'[u])
  <2>1. at'[u] = IF u = t THEN (IF t \in Jobs THEN "ended" ELSE "idle") ELSE at[u]
    BY DEF Leave, DashboardTypes
  <2>2. /\ holds'.action = u <=> u # t /\ holds.action = u
        /\ holds'.refresh = u <=> u # t /\ holds.refresh = u
        /\ holds'.reconcile = u <=> u # t /\ holds.reconcile = u
    BY ThreadFacts DEF Leave, DashboardTypes
  <2> QED
    BY <2>1, <2>2 DEF LocksAgree, HasAction, HasRefresh, HasReconcile
<1> QED
  BY <1>1 DEF LocksAgree, HasAction, HasRefresh, HasReconcile

\* The locks agree with where their holders are, whatever happens.
LEMMA LocksStep ==
  ASSUME DashboardTypes, LocksAgree, DashboardNext
  PROVE  LocksAgree'
<1>1. ASSUME NEW t \in Threads, AskRefresh(t) PROVE LocksAgree'
  <2>1. t \in Threads /\ at[t] \in PlacesOf(t)
    BY ThreadFacts DEF DashboardTypes
  <2>2. CASE Leave(t)
    BY <2>1, <2>2, LeaveLocks
  <2>3. ASSUME Go(t, "wait"), UNCHANGED holds PROVE LocksAgree'
    <3>1. /\ HasAction(t, "wait") <=> HasAction(t, at[t])
          /\ HasRefresh(t, "wait") <=> HasRefresh(t, at[t])
          /\ HasReconcile("wait") <=> HasReconcile(at[t])
      BY <1>1, <2>1, ThreadFacts DEF AskRefresh, Accepted, HasAction, HasRefresh, HasReconcile, PlacesOf, JobPlaces, RequestPlaces, PollPlaces, WebhookEvents
    <3> QED
      BY <2>3, <3>1, <2>1, GoLocks
  <2> QED
    BY <1>1, <2>2, <2>3 DEF AskRefresh
<1>2. ASSUME NEW t \in Threads, TakeRefreshLock(t) PROVE LocksAgree'
  <2>1. t \in Threads /\ at[t] \in PlacesOf(t)
    BY ThreadFacts DEF DashboardTypes
  <2>2. CASE Leave(t)
    BY <2>1, <2>2, LeaveLocks
  <2>3. ASSUME Go(t, "read"), holds' = [holds EXCEPT !.refresh = t] PROVE LocksAgree'
    BY <1>2, <2>1, <2>3, ThreadFacts DEF TakeRefreshLock, Go, LocksAgree, DashboardTypes, HasAction, HasRefresh, HasReconcile, PlacesOf, JobPlaces, RequestPlaces, PollPlaces, WebhookEvents
  <2> QED
    BY <1>2, <2>2, <2>3 DEF TakeRefreshLock
<1>3. ASSUME NEW t \in Threads, CacheHit(t) PROVE LocksAgree'
  <2>1. t \in Threads /\ at[t] \in PlacesOf(t)
    BY ThreadFacts DEF DashboardTypes
  <2>2. ASSUME Go(t, "publish"), UNCHANGED holds PROVE LocksAgree'
    <3>1. /\ HasAction(t, "publish") <=> HasAction(t, at[t])
          /\ HasRefresh(t, "publish") <=> HasRefresh(t, at[t])
          /\ HasReconcile("publish") <=> HasReconcile(at[t])
      BY <1>3, <2>1, ThreadFacts DEF CacheHit, Accepted, HasAction, HasRefresh, HasReconcile, PlacesOf, JobPlaces, RequestPlaces, PollPlaces, WebhookEvents
    <3> QED
      BY <2>2, <3>1, <2>1, GoLocks
  <2> QED
    BY <1>3, <2>2 DEF CacheHit
<1>4. ASSUME NEW t \in Threads, ReadStatus(t) PROVE LocksAgree'
  <2>1. t \in Threads /\ at[t] \in PlacesOf(t)
    BY ThreadFacts DEF DashboardTypes
  <2>2. ASSUME Go(t, "insert"), UNCHANGED holds PROVE LocksAgree'
    <3>1. /\ HasAction(t, "insert") <=> HasAction(t, at[t])
          /\ HasRefresh(t, "insert") <=> HasRefresh(t, at[t])
          /\ HasReconcile("insert") <=> HasReconcile(at[t])
      BY <1>4, <2>1, ThreadFacts DEF ReadStatus, Accepted, HasAction, HasRefresh, HasReconcile, PlacesOf, JobPlaces, RequestPlaces, PollPlaces, WebhookEvents
    <3> QED
      BY <2>2, <3>1, <2>1, GoLocks
  <2>3. ASSUME Go(t, "publish"), UNCHANGED holds PROVE LocksAgree'
    <3>1. /\ HasAction(t, "publish") <=> HasAction(t, at[t])
          /\ HasRefresh(t, "publish") <=> HasRefresh(t, at[t])
          /\ HasReconcile("publish") <=> HasReconcile(at[t])
      BY <1>4, <2>1, ThreadFacts DEF ReadStatus, Accepted, HasAction, HasRefresh, HasReconcile, PlacesOf, JobPlaces, RequestPlaces, PollPlaces, WebhookEvents
    <3> QED
      BY <2>3, <3>1, <2>1, GoLocks
  <2> QED
    BY <1>4, <2>2, <2>3 DEF ReadStatus
<1>5. ASSUME NEW t \in Threads, InsertStatus(t) PROVE LocksAgree'
  <2>1. t \in Threads /\ at[t] \in PlacesOf(t)
    BY ThreadFacts DEF DashboardTypes
  <2>2. ASSUME Go(t, "publish"), UNCHANGED holds PROVE LocksAgree'
    <3>1. /\ HasAction(t, "publish") <=> HasAction(t, at[t])
          /\ HasRefresh(t, "publish") <=> HasRefresh(t, at[t])
          /\ HasReconcile("publish") <=> HasReconcile(at[t])
      BY <1>5, <2>1, ThreadFacts DEF InsertStatus, Accepted, HasAction, HasRefresh, HasReconcile, PlacesOf, JobPlaces, RequestPlaces, PollPlaces, WebhookEvents
    <3> QED
      BY <2>2, <3>1, <2>1, GoLocks
  <2> QED
    BY <1>5, <2>2 DEF InsertStatus
<1>6. ASSUME NEW t \in Threads, Publish(t) PROVE LocksAgree'
  <2>1. t \in Threads /\ at[t] \in PlacesOf(t)
    BY ThreadFacts DEF DashboardTypes
  <2>2. CASE Leave(t)
    BY <2>1, <2>2, LeaveLocks
  <2>3. ASSUME t \in Jobs, Go(t, "validate"), UNCHANGED holds PROVE LocksAgree'
    BY <1>6, <2>1, <2>3, GoLocks DEF Publish, HasAction, HasRefresh, HasReconcile
  <2>4. ASSUME t \in Jobs, Go(t, "finish"), UNCHANGED holds PROVE LocksAgree'
    BY <1>6, <2>1, <2>4, GoLocks DEF Publish, HasAction, HasRefresh, HasReconcile
  <2> QED
    BY <1>6, <2>2, <2>3, <2>4 DEF Publish
<1>7. ASSUME NEW t \in Threads, QuarantinePending(t) PROVE LocksAgree'
  <2>1. t \in Threads /\ at[t] \in PlacesOf(t)
    BY ThreadFacts DEF DashboardTypes
  <2>2. ASSUME Go(t, "observe"), holds' = [holds EXCEPT !.reconcile = t] PROVE LocksAgree'
    BY <1>7, <2>1, <2>2, ThreadFacts DEF QuarantinePending, Go, LocksAgree, DashboardTypes, HasAction, HasRefresh, HasReconcile, PlacesOf, JobPlaces, RequestPlaces, PollPlaces, WebhookEvents
  <2> QED
    BY <1>7, <2>2 DEF QuarantinePending
<1>8. ASSUME NEW t \in Threads, Observe(t) PROVE LocksAgree'
  <2>1. t \in Threads /\ at[t] \in PlacesOf(t)
    BY ThreadFacts DEF DashboardTypes
  <2>2. ASSUME Go(t, "persist"), UNCHANGED holds PROVE LocksAgree'
    <3>1. /\ HasAction(t, "persist") <=> HasAction(t, at[t])
          /\ HasRefresh(t, "persist") <=> HasRefresh(t, at[t])
          /\ HasReconcile("persist") <=> HasReconcile(at[t])
      BY <1>8, <2>1, ThreadFacts DEF Observe, Accepted, HasAction, HasRefresh, HasReconcile, PlacesOf, JobPlaces, RequestPlaces, PollPlaces, WebhookEvents
    <3> QED
      BY <2>2, <3>1, <2>1, GoLocks
  <2> QED
    BY <1>8, <2>2 DEF Observe
<1>9. ASSUME NEW t \in Threads, PersistTenancy(t) PROVE LocksAgree'
  <2>1. t \in Threads /\ at[t] \in PlacesOf(t)
    BY ThreadFacts DEF DashboardTypes
  <2>2. CASE Leave(t)
    BY <2>1, <2>2, LeaveLocks
  <2>3. ASSUME t = "poll", Go(t, "ask"), holds' = [holds EXCEPT !.reconcile = "none"] PROVE LocksAgree'
    BY <1>9, <2>1, <2>3, ThreadFacts DEF PersistTenancy, Go, LocksAgree, DashboardTypes, HasAction, HasRefresh, HasReconcile, PlacesOf, JobPlaces, RequestPlaces, PollPlaces, WebhookEvents
  <2> QED
    BY <1>9, <2>2, <2>3 DEF PersistTenancy
<1>10. ASSUME NEW t \in Threads, RouteWebhook(t) PROVE LocksAgree'
  <2>1. t \in Threads /\ at[t] \in PlacesOf(t)
    BY ThreadFacts DEF DashboardTypes
  <2>2. ASSUME Go(t, "authority"), UNCHANGED holds PROVE LocksAgree'
    <3>1. /\ HasAction(t, "authority") <=> HasAction(t, at[t])
          /\ HasRefresh(t, "authority") <=> HasRefresh(t, at[t])
          /\ HasReconcile("authority") <=> HasReconcile(at[t])
      BY <1>10, <2>1, ThreadFacts DEF RouteWebhook, Accepted, HasAction, HasRefresh, HasReconcile, PlacesOf, JobPlaces, RequestPlaces, PollPlaces, WebhookEvents
    <3> QED
      BY <2>2, <3>1, <2>1, GoLocks
  <2>3. ASSUME Go(t, "ask"), UNCHANGED holds PROVE LocksAgree'
    <3>1. /\ HasAction(t, "ask") <=> HasAction(t, at[t])
          /\ HasRefresh(t, "ask") <=> HasRefresh(t, at[t])
          /\ HasReconcile("ask") <=> HasReconcile(at[t])
      BY <1>10, <2>1, ThreadFacts DEF RouteWebhook, Accepted, HasAction, HasRefresh, HasReconcile, PlacesOf, JobPlaces, RequestPlaces, PollPlaces, WebhookEvents
    <3> QED
      BY <2>3, <3>1, <2>1, GoLocks
  <2>4. CASE Leave(t)
    BY <2>1, <2>4, LeaveLocks
  <2> QED
    BY <1>10, <2>2, <2>3, <2>4 DEF RouteWebhook
<1>11. ASSUME NEW t \in Threads, DraftSync(t) PROVE LocksAgree'
  <2>1. t \in Threads /\ at[t] \in PlacesOf(t)
    BY ThreadFacts DEF DashboardTypes
  <2>2. CASE Leave(t)
    BY <2>1, <2>2, LeaveLocks
  <2>3. ASSUME Go(t, "enqueue_sync"), UNCHANGED holds PROVE LocksAgree'
    <3>1. /\ HasAction(t, "enqueue_sync") <=> HasAction(t, at[t])
          /\ HasRefresh(t, "enqueue_sync") <=> HasRefresh(t, at[t])
          /\ HasReconcile("enqueue_sync") <=> HasReconcile(at[t])
      BY <1>11, <2>1, ThreadFacts DEF DraftSync, Accepted, HasAction, HasRefresh, HasReconcile, PlacesOf, JobPlaces, RequestPlaces, PollPlaces, WebhookEvents
    <3> QED
      BY <2>3, <3>1, <2>1, GoLocks
  <2> QED
    BY <1>11, <2>2, <2>3 DEF DraftSync
<1>12. ASSUME NEW t \in Threads, EnqueueActionJob(t) PROVE LocksAgree'
  <2>1. t \in Threads /\ at[t] \in PlacesOf(t)
    BY ThreadFacts DEF DashboardTypes
  <2>2. CASE Leave(t)
    BY <2>1, <2>2, LeaveLocks
  <2>3. ASSUME at[t] # "enqueue", Go(t, "owe"), UNCHANGED holds PROVE LocksAgree'
    <3>1. /\ HasAction(t, "owe") <=> HasAction(t, at[t])
          /\ HasRefresh(t, "owe") <=> HasRefresh(t, at[t])
          /\ HasReconcile("owe") <=> HasReconcile(at[t])
      BY <1>12, <2>1, <2>3, ThreadFacts DEF EnqueueActionJob, HasAction, HasRefresh, HasReconcile, PlacesOf, JobPlaces, RequestPlaces, PollPlaces, WebhookEvents
    <3> QED
      BY <2>3, <3>1, <2>1, GoLocks
  <2>4. ASSUME NEW j \in Jobs, at[j] = "idle",
               at' = [at EXCEPT ![j] = "queued", ![t] = IF t \in Jobs THEN "ended" ELSE "idle"],
               holds' = [l \in DOMAIN holds |-> IF holds[l] = t THEN "none" ELSE holds[l]]
        PROVE  LocksAgree'
    <3>1. t # j
      BY <1>12, <2>4 DEF EnqueueActionJob
    <3>2. ASSUME NEW u \in Threads
          PROVE  /\ holds'.action = u <=> HasAction(u, at'[u])
                 /\ holds'.refresh = u <=> HasRefresh(u, at'[u])
                 /\ holds'.reconcile = u <=> HasReconcile(at'[u])
      <4>1. u \in {t, j} => at'[u] \in {"idle", "queued", "ended"} /\ (at'[u] = "idle" => u \notin Jobs)
        BY <2>4, <3>1, ThreadFacts DEF DashboardTypes
      <4>2. u \notin {t, j} => at'[u] = at[u]
        BY <2>4 DEF DashboardTypes
      <4>3. /\ holds'.action = u <=> u # t /\ holds.action = u
            /\ holds'.refresh = u <=> u # t /\ holds.refresh = u
            /\ holds'.reconcile = u <=> u # t /\ holds.reconcile = u
        BY <2>4, ThreadFacts DEF DashboardTypes
      <4> QED
        BY <2>4, <3>1, <4>1, <4>2, <4>3, ThreadFacts DEF LocksAgree, HasAction, HasRefresh, HasReconcile
    <3> QED
      BY <3>2 DEF LocksAgree, HasAction, HasRefresh, HasReconcile
  <2> QED
    BY <1>12, <2>2, <2>3, <2>4 DEF EnqueueActionJob
<1>13. ASSUME NEW t \in Threads, OweSync(t) PROVE LocksAgree'
  BY <1>13, LeaveLocks DEF OweSync
<1>14. ASSUME NEW j \in Jobs, TakeActionLock(j) PROVE LocksAgree'
  <2>1. j \in Threads /\ at[j] \in PlacesOf(j)
    BY ThreadFacts DEF DashboardTypes
  <2>2. ASSUME Go(j, "lock_refresh"), holds' = [holds EXCEPT !.action = j] PROVE LocksAgree'
    BY <1>14, <2>1, <2>2, ThreadFacts DEF TakeActionLock, Go, LocksAgree, DashboardTypes, HasAction, HasRefresh, HasReconcile, PlacesOf, JobPlaces, RequestPlaces, PollPlaces, WebhookEvents
  <2> QED
    BY <1>14, <2>2 DEF TakeActionLock
<1>15. ASSUME NEW j \in Jobs, FreshActionAuthority(j) PROVE LocksAgree'
  <2>1. j \in Threads /\ at[j] \in PlacesOf(j)
    BY ThreadFacts DEF DashboardTypes
  <2>2. ASSUME Go(j, "read"), holds' = [holds EXCEPT !.refresh = j] PROVE LocksAgree'
    BY <1>15, <2>1, <2>2, ThreadFacts DEF FreshActionAuthority, Go, LocksAgree, DashboardTypes, HasAction, HasRefresh, HasReconcile, PlacesOf, JobPlaces, RequestPlaces, PollPlaces, WebhookEvents
  <2>3. ASSUME Go(j, "validate"), holds' = [holds EXCEPT !.refresh = j] PROVE LocksAgree'
    BY <1>15, <2>1, <2>3, ThreadFacts DEF FreshActionAuthority, Go, LocksAgree, DashboardTypes, HasAction, HasRefresh, HasReconcile, PlacesOf, JobPlaces, RequestPlaces, PollPlaces, WebhookEvents
  <2> QED
    BY <1>15, <2>2, <2>3 DEF FreshActionAuthority
<1>16. ASSUME NEW j \in Jobs, ValidateAction(j) PROVE LocksAgree'
  <2>1. j \in Threads /\ at[j] \in PlacesOf(j)
    BY ThreadFacts DEF DashboardTypes
  <2>2. ASSUME Go(j, "operate"), UNCHANGED holds PROVE LocksAgree'
    <3>1. /\ HasAction(j, "operate") <=> HasAction(j, at[j])
          /\ HasRefresh(j, "operate") <=> HasRefresh(j, at[j])
          /\ HasReconcile("operate") <=> HasReconcile(at[j])
      BY <1>16, <2>1, ThreadFacts DEF ValidateAction, Accepted, HasAction, HasRefresh, HasReconcile, PlacesOf, JobPlaces, RequestPlaces, PollPlaces, WebhookEvents
    <3> QED
      BY <2>2, <3>1, <2>1, GoLocks
  <2>3. ASSUME Go(j, "read"), UNCHANGED holds PROVE LocksAgree'
    <3>1. /\ HasAction(j, "read") <=> HasAction(j, at[j])
          /\ HasRefresh(j, "read") <=> HasRefresh(j, at[j])
          /\ HasReconcile("read") <=> HasReconcile(at[j])
      BY <1>16, <2>1, ThreadFacts DEF ValidateAction, Accepted, HasAction, HasRefresh, HasReconcile, PlacesOf, JobPlaces, RequestPlaces, PollPlaces, WebhookEvents
    <3> QED
      BY <2>3, <3>1, <2>1, GoLocks
  <2> QED
    BY <1>16, <2>2, <2>3 DEF ValidateAction
<1>17. ASSUME NEW j \in Jobs, RunAction(j) PROVE LocksAgree'
  <2>1. j \in Threads /\ at[j] \in PlacesOf(j)
    BY ThreadFacts DEF DashboardTypes
  <2>2. ASSUME Go(j, "read"), UNCHANGED holds PROVE LocksAgree'
    <3>1. /\ HasAction(j, "read") <=> HasAction(j, at[j])
          /\ HasRefresh(j, "read") <=> HasRefresh(j, at[j])
          /\ HasReconcile("read") <=> HasReconcile(at[j])
      BY <1>17, <2>1, ThreadFacts DEF RunAction, Accepted, HasAction, HasRefresh, HasReconcile, PlacesOf, JobPlaces, RequestPlaces, PollPlaces, WebhookEvents
    <3> QED
      BY <2>2, <3>1, <2>1, GoLocks
  <2> QED
    BY <1>17, <2>2 DEF RunAction
<1>18. ASSUME NEW j \in Jobs, FinishJob(j) PROVE LocksAgree'
  <2>1. j \in Threads /\ at[j] \in PlacesOf(j)
    BY ThreadFacts DEF DashboardTypes
  <2>2. ASSUME Go(j, "swap"), UNCHANGED holds PROVE LocksAgree'
    <3>1. /\ HasAction(j, "swap") <=> HasAction(j, at[j])
          /\ HasRefresh(j, "swap") <=> HasRefresh(j, at[j])
          /\ HasReconcile("swap") <=> HasReconcile(at[j])
      BY <1>18, <2>1, ThreadFacts DEF FinishJob, Accepted, HasAction, HasRefresh, HasReconcile, PlacesOf, JobPlaces, RequestPlaces, PollPlaces, WebhookEvents
    <3> QED
      BY <2>2, <3>1, <2>1, GoLocks
  <2> QED
    BY <1>18, <2>2 DEF FinishJob
<1>19. ASSUME NEW j \in Jobs, SwapOwed(j) PROVE LocksAgree'
  <2>1. j \in Threads /\ at[j] \in PlacesOf(j)
    BY ThreadFacts DEF DashboardTypes
  <2>2. CASE Leave(j)
    BY <2>1, <2>2, LeaveLocks
  <2>3. ASSUME Go(j, "authority"), UNCHANGED holds PROVE LocksAgree'
    <3>1. /\ HasAction(j, "authority") <=> HasAction(j, at[j])
          /\ HasRefresh(j, "authority") <=> HasRefresh(j, at[j])
          /\ HasReconcile("authority") <=> HasReconcile(at[j])
      BY <1>19, <2>1, ThreadFacts DEF SwapOwed, Accepted, HasAction, HasRefresh, HasReconcile, PlacesOf, JobPlaces, RequestPlaces, PollPlaces, WebhookEvents
    <3> QED
      BY <2>3, <3>1, <2>1, GoLocks
  <2> QED
    BY <1>19, <2>2, <2>3 DEF SwapOwed
<1>20. ASSUME NEW r \in Requests, HandleRefresh(r) PROVE LocksAgree'
  <2>1. r \in Threads /\ at[r] \in PlacesOf(r)
    BY ThreadFacts DEF DashboardTypes
  <2>2. ASSUME Go(r, "ask"), UNCHANGED holds PROVE LocksAgree'
    <3>1. /\ HasAction(r, "ask") <=> HasAction(r, at[r])
          /\ HasRefresh(r, "ask") <=> HasRefresh(r, at[r])
          /\ HasReconcile("ask") <=> HasReconcile(at[r])
      BY <1>20, <2>1, ThreadFacts DEF HandleRefresh, Accepted, HasAction, HasRefresh, HasReconcile, PlacesOf, JobPlaces, RequestPlaces, PollPlaces, WebhookEvents
    <3> QED
      BY <2>2, <3>1, <2>1, GoLocks
  <2> QED
    BY <1>20, <2>2 DEF HandleRefresh
<1>21. ASSUME NEW r \in Requests, HandleAction(r) PROVE LocksAgree'
  <2>1. r \in Threads /\ at[r] \in PlacesOf(r)
    BY ThreadFacts DEF DashboardTypes
  <2>2. ASSUME Go(r, "enqueue"), UNCHANGED holds PROVE LocksAgree'
    <3>1. /\ HasAction(r, "enqueue") <=> HasAction(r, at[r])
          /\ HasRefresh(r, "enqueue") <=> HasRefresh(r, at[r])
          /\ HasReconcile("enqueue") <=> HasReconcile(at[r])
      BY <1>21, <2>1, ThreadFacts DEF HandleAction, Accepted, HasAction, HasRefresh, HasReconcile, PlacesOf, JobPlaces, RequestPlaces, PollPlaces, WebhookEvents
    <3> QED
      BY <2>2, <3>1, <2>1, GoLocks
  <2> QED
    BY <1>21, <2>2 DEF HandleAction
<1>22. ASSUME NEW r \in Requests, RecordWebhookDelivery(r) PROVE LocksAgree'
  <2>1. r \in Threads /\ at[r] \in PlacesOf(r)
    BY ThreadFacts DEF DashboardTypes
  <2>2. CASE UNCHANGED at
    BY <1>22, <2>2 DEF RecordWebhookDelivery, LocksAgree
  <2>3. ASSUME NEW place \in WebhookEvents \cup {"reconcile"}, Go(r, place), UNCHANGED holds PROVE LocksAgree'
    <3>1. /\ HasAction(r, place) <=> HasAction(r, at[r])
          /\ HasRefresh(r, place) <=> HasRefresh(r, at[r])
          /\ HasReconcile(place) <=> HasReconcile(at[r])
      BY <1>22, <2>1, ThreadFacts DEF RecordWebhookDelivery, Accepted, HasAction, HasRefresh, HasReconcile, WebhookEvents
    <3> QED
      BY <2>3, <3>1, <2>1, GoLocks
  <2>4. UNCHANGED at \/ \E event \in WebhookEvents : Go(r, IF event = "lifecycle" /\ Hosted THEN "reconcile" ELSE event)
    BY <1>22 DEF RecordWebhookDelivery, deliveryVars
  <2> QED
    BY <1>22, <2>2, <2>3, <2>4 DEF RecordWebhookDelivery
<1>23. CASE PollerWakes
  <2>1. "poll" \in Threads /\ at["poll"] \in PlacesOf("poll")
    BY ThreadFacts DEF DashboardTypes
  <2>2. ASSUME Go("poll", "ask"), UNCHANGED holds PROVE LocksAgree'
    <3>1. /\ HasAction("poll", "ask") <=> HasAction("poll", at["poll"])
          /\ HasRefresh("poll", "ask") <=> HasRefresh("poll", at["poll"])
          /\ HasReconcile("ask") <=> HasReconcile(at["poll"])
      BY <1>23, <2>1, ThreadFacts DEF PollerWakes, Accepted, HasAction, HasRefresh, HasReconcile, PlacesOf, JobPlaces, RequestPlaces, PollPlaces, WebhookEvents
    <3> QED
      BY <2>2, <3>1, <2>1, GoLocks
  <2>3. ASSUME Go("poll", "reconcile"), UNCHANGED holds PROVE LocksAgree'
    <3>1. /\ HasAction("poll", "reconcile") <=> HasAction("poll", at["poll"])
          /\ HasRefresh("poll", "reconcile") <=> HasRefresh("poll", at["poll"])
          /\ HasReconcile("reconcile") <=> HasReconcile(at["poll"])
      BY <1>23, <2>1, ThreadFacts DEF PollerWakes, Accepted, HasAction, HasRefresh, HasReconcile, PlacesOf, JobPlaces, RequestPlaces, PollPlaces, WebhookEvents
    <3> QED
      BY <2>3, <3>1, <2>1, GoLocks
  <2> QED
    BY <1>23, <2>2, <2>3 DEF PollerWakes, RefreshAll
<1>24. CASE ViewState
  BY <1>24 DEF ViewState, LocksAgree
<1>25. CASE FactsChange
  BY <1>25 DEF FactsChange, LocksAgree
<1>26. CASE GrantChanges
  BY <1>26 DEF GrantChanges, LocksAgree
<1>27. CASE CacheExpires
  BY <1>27 DEF CacheExpires, LocksAgree
<1>28. CASE Restart
  <2>1. holds' = Unlocked /\ \A t \in Threads : at'[t] \in {"idle", "reconcile", "ask", "ended"} /\ (t \in Jobs => at'[t] \in {"idle", "ended"})
    BY <1>28, ThreadFacts DEF Restart, Started, RefreshAll
  <2> QED
    BY <2>1, ThreadFacts DEF Unlocked, LocksAgree, HasAction, HasRefresh, HasReconcile
<1> QED
  BY <1>1, <1>2, <1>3, <1>4, <1>5, <1>6, <1>7, <1>8, <1>9, <1>10, <1>11, <1>12, <1>13, <1>14,
     <1>15, <1>16, <1>17, <1>18, <1>19, <1>20, <1>21, <1>22, <1>23, <1>24, <1>25, <1>26, <1>27, <1>28
  DEF DashboardNext, ThreadStep, RefreshStep, TenancyStep, RequestStep, JobStep

\* A snapshot gets a new number whenever what it digests changes; a job keeps what it
\* was accepted on.
SnapKept == snap'.seq > snap.seq \/ (snap'.seq = snap.seq /\ Fingerprint' = Fingerprint)
JobsKept == \A j \in Jobs : jobs'[j].seq = jobs[j].seq /\ jobs'[j].print = jobs[j].print /\ jobs'[j].seen = jobs[j].seen

LEMMA PrintsKept ==
  ASSUME DashboardTypes, DashboardTypes', PrintsAgree, SnapKept, UNCHANGED <<browser, life>>,
         \A t \in Threads : at'[t] \in {"enqueue", "enqueue_sync"} =>
                              (at'[t] = at[t] /\ got'[t] = got[t]) \/ JobSound(got[t].job)',
         \A j \in Jobs : at'[j] \notin {"idle", "ended"} =>
                           \/ /\ at[j] \notin {"idle", "ended"} /\ jobs'[j].seq = jobs[j].seq
                              /\ jobs'[j].print = jobs[j].print /\ jobs'[j].seen = jobs[j].seen
                           \/ JobSound(jobs[j])',
         \A j \in Jobs : at'[j] = "operate" =>
                           /\ Fingerprint' = Fingerprint /\ jobs'[j].seen = jobs[j].seen
                           /\ at[j] = "operate" \/ Fingerprint = jobs[j].seen
  PROVE  PrintsAgree'
<1>1. ASSUME NEW seq \in Nat, NEW print, SeenAt(seq, print) PROVE SeenAt(seq, print)'
  BY <1>1 DEF SeenAt, SnapKept, DashboardTypes, SnapshotShape
<1>2. browser'.life <= life' /\ (browser'.life = life' => SeenAt(browser.seq, browser.print)')
  BY <1>1 DEF PrintsAgree, DashboardTypes, SeenAt
<1>3. ASSUME NEW t \in Threads, at'[t] \in {"enqueue", "enqueue_sync"} PROVE JobSound(got[t].job)'
  <2>1. CASE at'[t] = at[t] /\ got'[t] = got[t]
    <3>1. JobSound(got[t].job) /\ got[t].job.seq \in Nat
      BY <1>3, <2>1 DEF PrintsAgree, DashboardTypes, Gotten, ActionJob
    <3> QED
      BY <1>1, <2>1, <3>1 DEF JobSound, SeenAt
  <2> QED
    BY <1>3, <2>1
<1>4. ASSUME NEW j \in Jobs, at'[j] \notin {"idle", "ended"} PROVE JobSound(jobs[j])'
  <2>1. CASE /\ at[j] \notin {"idle", "ended"} /\ jobs'[j].seq = jobs[j].seq
             /\ jobs'[j].print = jobs[j].print /\ jobs'[j].seen = jobs[j].seen
    <3>1. JobSound(jobs[j]) /\ jobs[j].seq \in Nat
      BY <1>4, <2>1 DEF PrintsAgree, DashboardTypes, ActionJob
    <3> QED
      BY <1>1, <2>1, <3>1 DEF JobSound, SeenAt
  <2> QED
    BY <1>4, <2>1
<1>5. ASSUME NEW j \in Jobs, at'[j] = "operate" PROVE Fingerprint' = jobs'[j].seen
  BY <1>5 DEF PrintsAgree
<1> QED
  BY <1>2, <1>3, <1>4, <1>5 DEF PrintsAgree

\* A thread moves and the snapshot stays.
LEMMA PrintsMove ==
  ASSUME DashboardTypes, DashboardTypes', PrintsAgree, JobsKept, UNCHANGED <<snap, browser, life>>, NEW t \in Threads,
         \A u \in Threads : u # t => at'[u] = at[u] /\ got'[u] = got[u],
         at'[t] \notin {"enqueue", "enqueue_sync", "operate"},
         t \in Jobs /\ at'[t] \notin {"idle", "ended"} => at[t] \notin {"idle", "ended"}
  PROVE  PrintsAgree'
<1>1. SnapKept /\ Fingerprint' = Fingerprint
  BY DEF SnapKept, Fingerprint
<1> QED
  BY <1>1, PrintsKept, ThreadFacts DEF JobsKept

\* ... and nobody moves.
LEMMA PrintsStay ==
  ASSUME DashboardTypes, DashboardTypes', PrintsAgree, JobsKept, UNCHANGED <<snap, browser, life, at, got>>
  PROVE  PrintsAgree'
<1>1. SnapKept /\ Fingerprint' = Fingerprint
  BY DEF SnapKept, Fingerprint
<1> QED
  BY <1>1, PrintsKept, ThreadFacts DEF JobsKept

\* A refresh numbers what it publishes, and publishes what it was given.
LEMMA PublishedSeq ==
  ASSUME snap \in SnapshotShape, NEW status \in StatusRead, NEW s \in Published(status)
  PROVE  s.seq = snap.seq + 1 /\ (s.err \/ s.status = status) /\ (~status.read => s.err)
<1>1. CASE status.read
  <2>1. PICK r \in CompatibilityRows(status.facts) :
               s = [snap EXCEPT !.seq = @ + 1, !.status = status, !.err = FALSE, !.rows = r]
    BY <1>1 DEF Published
  <2>2. s.seq = snap.seq + 1 /\ s.status = status
    BY <2>1 DEF SnapshotShape
  <2> QED
    BY <1>1, <2>2
<1>2. CASE ~status.read
  <2>1. s = [snap EXCEPT !.seq = @ + 1, !.err = TRUE, !.rows = NoRows]
    BY <1>2 DEF Published
  <2>2. s.seq = snap.seq + 1
    BY <2>1 DEF SnapshotShape
  <2>3. s.err
    BY <2>1 DEF SnapshotShape
  <2> QED
    BY <1>2, <2>2, <2>3
<1> QED
  BY <1>1, <1>2

\* An action runs on what its submitter was shown, whatever happens in between.
LEMMA PrintsStep ==
  ASSUME DashboardTypes, DashboardTypes', LocksAgree, PrintsAgree, DashboardNext
  PROVE  PrintsAgree'
<1>1. ASSUME NEW t \in Threads, AskRefresh(t) PROVE PrintsAgree'
  <2>1. t \in Threads /\ at[t] \in PlacesOf(t)
    BY ThreadFacts DEF DashboardTypes
  <2>2. /\ \A u \in Threads : u # t => at'[u] = at[u] /\ got'[u] = got[u]
        /\ at'[t] \notin {"enqueue", "enqueue_sync", "operate"}
        /\ t \in Jobs /\ at'[t] \notin {"idle", "ended"} => at[t] \notin {"idle", "ended"}
    BY <1>1, <2>1, ThreadFacts DEF AskRefresh, Go, Leave, DashboardTypes, Accepted, PlacesOf, JobPlaces, RequestPlaces, PollPlaces, WebhookEvents
  <2>3. JobsKept /\ UNCHANGED <<snap, browser, life>>
    BY <1>1 DEF AskRefresh, JobsKept, beyond, deliveryVars, tenancyVars, actionVars, screen
  <2> QED
    BY <2>1, <2>2, <2>3, PrintsMove
<1>2. ASSUME NEW t \in Threads, TakeRefreshLock(t) PROVE PrintsAgree'
  <2>1. t \in Threads /\ at[t] \in PlacesOf(t)
    BY ThreadFacts DEF DashboardTypes
  <2>2. /\ \A u \in Threads : u # t => at'[u] = at[u] /\ got'[u] = got[u]
        /\ at'[t] \notin {"enqueue", "enqueue_sync", "operate"}
        /\ t \in Jobs /\ at'[t] \notin {"idle", "ended"} => at[t] \notin {"idle", "ended"}
    BY <1>2, <2>1, ThreadFacts DEF TakeRefreshLock, Go, Leave, DashboardTypes, Accepted, PlacesOf, JobPlaces, RequestPlaces, PollPlaces, WebhookEvents
  <2>3. JobsKept /\ UNCHANGED <<snap, browser, life>>
    BY <1>2 DEF TakeRefreshLock, JobsKept, beyond, deliveryVars, tenancyVars, actionVars, screen
  <2> QED
    BY <2>1, <2>2, <2>3, PrintsMove
<1>3. ASSUME NEW t \in Threads, CacheHit(t) PROVE PrintsAgree'
  <2>1. t \in Threads /\ at[t] \in PlacesOf(t)
    BY ThreadFacts DEF DashboardTypes
  <2>2. /\ \A u \in Threads : u # t => at'[u] = at[u] /\ got'[u] = got[u]
        /\ at'[t] \notin {"enqueue", "enqueue_sync", "operate"}
        /\ t \in Jobs /\ at'[t] \notin {"idle", "ended"} => at[t] \notin {"idle", "ended"}
    BY <1>3, <2>1, ThreadFacts DEF CacheHit, Go, Leave, DashboardTypes, Accepted, PlacesOf, JobPlaces, RequestPlaces, PollPlaces, WebhookEvents
  <2>3. JobsKept /\ UNCHANGED <<snap, browser, life>>
    BY <1>3 DEF CacheHit, JobsKept, beyond, deliveryVars, tenancyVars, actionVars, screen
  <2> QED
    BY <2>1, <2>2, <2>3, PrintsMove
<1>4. ASSUME NEW t \in Threads, ReadStatus(t) PROVE PrintsAgree'
  <2>1. t \in Threads /\ at[t] \in PlacesOf(t)
    BY ThreadFacts DEF DashboardTypes
  <2>2. /\ \A u \in Threads : u # t => at'[u] = at[u] /\ got'[u] = got[u]
        /\ at'[t] \notin {"enqueue", "enqueue_sync", "operate"}
        /\ t \in Jobs /\ at'[t] \notin {"idle", "ended"} => at[t] \notin {"idle", "ended"}
    BY <1>4, <2>1, ThreadFacts DEF ReadStatus, Go, Leave, DashboardTypes, Accepted, PlacesOf, JobPlaces, RequestPlaces, PollPlaces, WebhookEvents
  <2>3. JobsKept /\ UNCHANGED <<snap, browser, life>>
    BY <1>4 DEF ReadStatus, JobsKept, beyond, deliveryVars, tenancyVars, actionVars, screen
  <2> QED
    BY <2>1, <2>2, <2>3, PrintsMove
<1>5. ASSUME NEW t \in Threads, InsertStatus(t) PROVE PrintsAgree'
  <2>1. t \in Threads /\ at[t] \in PlacesOf(t)
    BY ThreadFacts DEF DashboardTypes
  <2>2. /\ \A u \in Threads : u # t => at'[u] = at[u] /\ got'[u] = got[u]
        /\ at'[t] \notin {"enqueue", "enqueue_sync", "operate"}
        /\ t \in Jobs /\ at'[t] \notin {"idle", "ended"} => at[t] \notin {"idle", "ended"}
    BY <1>5, <2>1, ThreadFacts DEF InsertStatus, Go, Leave, DashboardTypes, Accepted, PlacesOf, JobPlaces, RequestPlaces, PollPlaces, WebhookEvents
  <2>3. JobsKept /\ UNCHANGED <<snap, browser, life>>
    BY <1>5 DEF InsertStatus, JobsKept, beyond, deliveryVars, tenancyVars, actionVars, screen
  <2> QED
    BY <2>1, <2>2, <2>3, PrintsMove
<1>6. ASSUME NEW t \in Threads, Publish(t) PROVE PrintsAgree'
  <2>1. at[t] \in PlacesOf(t) /\ got[t].status \in StatusRead
    BY DEF DashboardTypes, Gotten
  <2>2. snap'.seq = snap.seq + 1
    BY <1>6, <2>1, PublishedSeq DEF Publish, DashboardTypes
  <2>3. /\ \A u \in Threads : u # t => at'[u] = at[u] /\ got'[u] = got[u]
        /\ at'[t] \notin {"enqueue", "enqueue_sync", "operate"}
        /\ t \in Jobs /\ at'[t] \notin {"idle", "ended"} => at[t] \notin {"idle", "ended"}
    BY <1>6, <2>1, ThreadFacts DEF Publish, Go, Leave, DashboardTypes, PlacesOf, JobPlaces, RequestPlaces, PollPlaces, WebhookEvents
  <2>4. \A j \in Jobs : at'[j] # "operate"
    <3>1. \A j \in Jobs : at[j] # "operate"
      BY <1>6, ThreadFacts DEF Publish, LocksAgree, HasRefresh
    <3> QED
      BY <2>3, <3>1, ThreadFacts
  <2>5. JobsKept /\ UNCHANGED <<browser, life>>
    BY <1>6 DEF Publish, JobsKept, beyond, deliveryVars, tenancyVars, actionVars, screen
  <2> QED
    BY <2>2, <2>3, <2>4, <2>5, PrintsKept, ThreadFacts DEF SnapKept, JobsKept, DashboardTypes, SnapshotShape
<1>7. ASSUME NEW t \in Threads, QuarantinePending(t) PROVE PrintsAgree'
  <2>1. t \in Threads /\ at[t] \in PlacesOf(t)
    BY ThreadFacts DEF DashboardTypes
  <2>2. /\ \A u \in Threads : u # t => at'[u] = at[u] /\ got'[u] = got[u]
        /\ at'[t] \notin {"enqueue", "enqueue_sync", "operate"}
        /\ t \in Jobs /\ at'[t] \notin {"idle", "ended"} => at[t] \notin {"idle", "ended"}
    BY <1>7, <2>1, ThreadFacts DEF QuarantinePending, Go, Leave, DashboardTypes, Accepted, PlacesOf, JobPlaces, RequestPlaces, PollPlaces, WebhookEvents
  <2>3. JobsKept /\ UNCHANGED <<snap, browser, life>>
    BY <1>7 DEF QuarantinePending, JobsKept, beyond, deliveryVars, tenancyVars, actionVars, screen
  <2> QED
    BY <2>1, <2>2, <2>3, PrintsMove
<1>8. ASSUME NEW t \in Threads, Observe(t) PROVE PrintsAgree'
  <2>1. t \in Threads /\ at[t] \in PlacesOf(t)
    BY ThreadFacts DEF DashboardTypes
  <2>2. /\ \A u \in Threads : u # t => at'[u] = at[u] /\ got'[u] = got[u]
        /\ at'[t] \notin {"enqueue", "enqueue_sync", "operate"}
        /\ t \in Jobs /\ at'[t] \notin {"idle", "ended"} => at[t] \notin {"idle", "ended"}
    BY <1>8, <2>1, ThreadFacts DEF Observe, Go, Leave, DashboardTypes, Accepted, PlacesOf, JobPlaces, RequestPlaces, PollPlaces, WebhookEvents
  <2>3. JobsKept /\ UNCHANGED <<snap, browser, life>>
    BY <1>8 DEF Observe, JobsKept, beyond, deliveryVars, tenancyVars, actionVars, screen
  <2> QED
    BY <2>1, <2>2, <2>3, PrintsMove
<1>9. ASSUME NEW t \in Threads, PersistTenancy(t) PROVE PrintsAgree'
  <2>1. t \in Threads /\ at[t] \in PlacesOf(t)
    BY ThreadFacts DEF DashboardTypes
  <2>2. /\ \A u \in Threads : u # t => at'[u] = at[u] /\ got'[u] = got[u]
        /\ at'[t] \notin {"enqueue", "enqueue_sync", "operate"}
        /\ t \in Jobs /\ at'[t] \notin {"idle", "ended"} => at[t] \notin {"idle", "ended"}
    BY <1>9, <2>1, ThreadFacts DEF PersistTenancy, Go, Leave, DashboardTypes, Accepted, PlacesOf, JobPlaces, RequestPlaces, PollPlaces, WebhookEvents
  <2>3. JobsKept /\ UNCHANGED <<snap, browser, life>>
    BY <1>9 DEF PersistTenancy, JobsKept, beyond, deliveryVars, tenancyVars, actionVars, screen
  <2> QED
    BY <2>1, <2>2, <2>3, PrintsMove
<1>10. ASSUME NEW t \in Threads, RouteWebhook(t) PROVE PrintsAgree'
  <2>1. t \in Threads /\ at[t] \in PlacesOf(t)
    BY ThreadFacts DEF DashboardTypes
  <2>2. /\ \A u \in Threads : u # t => at'[u] = at[u] /\ got'[u] = got[u]
        /\ at'[t] \notin {"enqueue", "enqueue_sync", "operate"}
        /\ t \in Jobs /\ at'[t] \notin {"idle", "ended"} => at[t] \notin {"idle", "ended"}
    BY <1>10, <2>1, ThreadFacts DEF RouteWebhook, Go, Leave, DashboardTypes, Accepted, PlacesOf, JobPlaces, RequestPlaces, PollPlaces, WebhookEvents
  <2>3. JobsKept /\ UNCHANGED <<snap, browser, life>>
    BY <1>10 DEF RouteWebhook, JobsKept, beyond, deliveryVars, tenancyVars, actionVars, screen
  <2> QED
    BY <2>1, <2>2, <2>3, PrintsMove
<1>11. ASSUME NEW t \in Threads, DraftSync(t) PROVE PrintsAgree'
  <2>1. at[t] \in PlacesOf(t)
    BY DEF DashboardTypes
  <2>2. JobsKept /\ UNCHANGED <<snap, browser, life>>
    BY <1>11 DEF DraftSync, JobsKept, beyond, deliveryVars, tenancyVars, actionVars, screen
  <2>3. CASE Leave(t)
    <3>1. /\ \A u \in Threads : u # t => at'[u] = at[u] /\ got'[u] = got[u]
          /\ at'[t] \notin {"enqueue", "enqueue_sync", "operate"}
          /\ t \in Jobs /\ at'[t] \notin {"idle", "ended"} => at[t] \notin {"idle", "ended"}
      BY <1>11, <2>1, <2>3, ThreadFacts DEF DraftSync, Leave, DashboardTypes, PlacesOf, JobPlaces, RequestPlaces, PollPlaces, WebhookEvents
    <3> QED
      BY <3>1, <2>2, PrintsMove
  <2>4. ASSUME got' = [got EXCEPT ![t].job = Draft(TRUE, Fingerprint)], Go(t, "enqueue_sync") PROVE PrintsAgree'
    <3>1. /\ \A u \in Threads : u # t => at'[u] = at[u] /\ got'[u] = got[u]
          /\ at'[t] = "enqueue_sync" /\ got'[t].job = Draft(TRUE, Fingerprint)
          /\ t \in Jobs => at[t] \notin {"idle", "ended"}
      BY <1>11, <2>4 DEF DraftSync, Go, DashboardTypes, Gotten
    <3>2. /\ got'[t].job.seq = snap.seq /\ got'[t].job.print = Fingerprint /\ got'[t].job.seen = Fingerprint
      BY <3>1, DraftShape, FingerprintShape DEF DashboardTypes
    <3>3. Fingerprint' = Fingerprint /\ SnapKept
      BY <2>2 DEF Fingerprint, SnapKept
    <3>4. JobSound(got[t].job)'
      BY <2>2, <3>2, <3>3 DEF JobSound, SeenAt, DashboardTypes, SnapshotShape
    <3> QED
      BY <2>2, <3>1, <3>3, <3>4, PrintsKept, ThreadFacts DEF JobsKept
  <2> QED
    BY <1>11, <2>3, <2>4 DEF DraftSync, Draft
<1>12. ASSUME NEW t \in Threads, EnqueueActionJob(t) PROVE PrintsAgree'
  <2>1. at[t] \in PlacesOf(t) /\ UNCHANGED <<snap, browser, life>>
    BY <1>12 DEF EnqueueActionJob, DashboardTypes, beyond, deliveryVars, tenancyVars, actionVars, screen
  <2>2. CASE UNCHANGED jobs /\ (Leave(t) \/ (Go(t, "owe") /\ UNCHANGED got))
    <3>1. /\ \A u \in Threads : u # t => at'[u] = at[u] /\ got'[u] = got[u]
          /\ at'[t] \notin {"enqueue", "enqueue_sync", "operate"}
          /\ t \in Jobs /\ at'[t] \notin {"idle", "ended"} => at[t] \notin {"idle", "ended"}
      BY <1>12, <2>1, <2>2, ThreadFacts DEF EnqueueActionJob, Go, Leave, DashboardTypes
    <3>2. JobsKept
      BY <2>2 DEF JobsKept
    <3> QED
      BY <3>1, <3>2, <2>1, PrintsMove
  <2>3. ASSUME NEW j \in Jobs, at[j] = "idle", jobs' = [jobs EXCEPT ![j] = got[t].job],
               at' = [at EXCEPT ![j] = "queued", ![t] = IF t \in Jobs THEN "ended" ELSE "idle"],
               got' = [got EXCEPT ![t] = Nothing]
        PROVE  PrintsAgree'
    <3>1. t # j /\ j \in Threads
      BY <1>12, <2>3, ThreadFacts DEF EnqueueActionJob
    <3>2. /\ \A u \in Threads : u # t => got'[u] = got[u]
          /\ \A u \in Threads : u \notin {t, j} => at'[u] = at[u]
          /\ at'[j] = "queued" /\ (t \in Jobs => at'[t] = "ended") /\ (t \notin Jobs => at'[t] = "idle")
      BY <2>3, <3>1 DEF DashboardTypes
    <3>3. jobs'[j] = got[t].job /\ \A k \in Jobs : k # j => jobs'[k] = jobs[k]
      BY <2>3 DEF DashboardTypes
    <3>4. Fingerprint' = Fingerprint /\ SnapKept
      BY <2>1 DEF Fingerprint, SnapKept
    <3>5. JobSound(jobs[j])'
      BY <1>12, <2>1, <3>3, <3>4 DEF EnqueueActionJob, PrintsAgree, JobSound, SeenAt
    <3> QED
      BY <2>1, <3>2, <3>3, <3>4, <3>5, PrintsKept, ThreadFacts
  <2> QED
    BY <1>12, <2>2, <2>3 DEF EnqueueActionJob
<1>13. ASSUME NEW t \in Threads, OweSync(t) PROVE PrintsAgree'
  <2>1. t \in Threads /\ at[t] \in PlacesOf(t)
    BY ThreadFacts DEF DashboardTypes
  <2>2. /\ \A u \in Threads : u # t => at'[u] = at[u] /\ got'[u] = got[u]
        /\ at'[t] \notin {"enqueue", "enqueue_sync", "operate"}
        /\ t \in Jobs /\ at'[t] \notin {"idle", "ended"} => at[t] \notin {"idle", "ended"}
    BY <1>13, <2>1, ThreadFacts DEF OweSync, Go, Leave, DashboardTypes, Accepted, PlacesOf, JobPlaces, RequestPlaces, PollPlaces, WebhookEvents
  <2>3. JobsKept /\ UNCHANGED <<snap, browser, life>>
    BY <1>13 DEF OweSync, JobsKept, beyond, deliveryVars, tenancyVars, actionVars, screen
  <2> QED
    BY <2>1, <2>2, <2>3, PrintsMove
<1>14. ASSUME NEW j \in Jobs, TakeActionLock(j) PROVE PrintsAgree'
  <2>1. j \in Threads /\ at[j] \in PlacesOf(j)
    BY ThreadFacts DEF DashboardTypes
  <2>2. /\ \A u \in Threads : u # j => at'[u] = at[u] /\ got'[u] = got[u]
        /\ at'[j] \notin {"enqueue", "enqueue_sync", "operate"}
        /\ j \in Jobs /\ at'[j] \notin {"idle", "ended"} => at[j] \notin {"idle", "ended"}
    BY <1>14, <2>1, ThreadFacts DEF TakeActionLock, Go, Leave, DashboardTypes, Accepted, PlacesOf, JobPlaces, RequestPlaces, PollPlaces, WebhookEvents
  <2>3. JobsKept /\ UNCHANGED <<snap, browser, life>>
    BY <1>14 DEF TakeActionLock, JobsKept, DashboardTypes, ActionJob, beyond, deliveryVars, tenancyVars, actionVars, screen
  <2> QED
    BY <2>1, <2>2, <2>3, PrintsMove
<1>15. ASSUME NEW j \in Jobs, FreshActionAuthority(j) PROVE PrintsAgree'
  <2>1. j \in Threads /\ at[j] \in PlacesOf(j)
    BY ThreadFacts DEF DashboardTypes
  <2>2. /\ \A u \in Threads : u # j => at'[u] = at[u] /\ got'[u] = got[u]
        /\ at'[j] \notin {"enqueue", "enqueue_sync", "operate"}
        /\ j \in Jobs /\ at'[j] \notin {"idle", "ended"} => at[j] \notin {"idle", "ended"}
    BY <1>15, <2>1, ThreadFacts DEF FreshActionAuthority, Go, Leave, DashboardTypes, Accepted, PlacesOf, JobPlaces, RequestPlaces, PollPlaces, WebhookEvents
  <2>3. JobsKept /\ UNCHANGED <<snap, browser, life>>
    BY <1>15 DEF FreshActionAuthority, JobsKept, beyond, deliveryVars, tenancyVars, actionVars, screen
  <2> QED
    BY <2>1, <2>2, <2>3, PrintsMove
<1>16. ASSUME NEW j \in Jobs, ValidateAction(j) PROVE PrintsAgree'
  <2>1. j \in Threads /\ UNCHANGED <<snap, browser, life, got>>
    BY <1>16, ThreadFacts DEF ValidateAction, beyond, deliveryVars, tenancyVars, actionVars, screen
  <2>2. JobsKept
    BY <1>16 DEF ValidateAction, JobsKept, DashboardTypes, ActionJob
  <2>3. /\ \A u \in Threads : u # j => at'[u] = at[u]
        /\ at'[j] \in {"operate", "read"}
    BY <1>16, <2>1 DEF ValidateAction, Go, DashboardTypes
  <2>4. Fingerprint' = Fingerprint /\ SnapKept
    BY <2>1 DEF Fingerprint, SnapKept
  <2>5. at'[j] = "operate" => Fingerprint = jobs[j].seen
    <3>1. at'[j] = "operate" => AuthorityHolds(j)
      BY <1>16, <2>1 DEF ValidateAction, Go, DashboardTypes
    <3> QED
      BY <1>16, <3>1 DEF ValidateAction, AuthorityHolds, PrintsAgree, JobSound, SeenAt
  <2> QED
    BY <1>16, <2>1, <2>2, <2>3, <2>4, <2>5, PrintsKept, ThreadFacts DEF ValidateAction, JobsKept
<1>17. ASSUME NEW j \in Jobs, RunAction(j) PROVE PrintsAgree'
  <2>1. j \in Threads /\ at[j] \in PlacesOf(j)
    BY ThreadFacts DEF DashboardTypes
  <2>2. /\ \A u \in Threads : u # j => at'[u] = at[u] /\ got'[u] = got[u]
        /\ at'[j] \notin {"enqueue", "enqueue_sync", "operate"}
        /\ j \in Jobs /\ at'[j] \notin {"idle", "ended"} => at[j] \notin {"idle", "ended"}
    BY <1>17, <2>1, ThreadFacts DEF RunAction, Go, Leave, DashboardTypes, Accepted, PlacesOf, JobPlaces, RequestPlaces, PollPlaces, WebhookEvents
  <2>3. JobsKept /\ UNCHANGED <<snap, browser, life>>
    BY <1>17 DEF RunAction, JobsKept, DashboardTypes, ActionJob, beyond, deliveryVars, tenancyVars, actionVars, screen
  <2> QED
    BY <2>1, <2>2, <2>3, PrintsMove
<1>18. ASSUME NEW j \in Jobs, FinishJob(j) PROVE PrintsAgree'
  <2>1. j \in Threads /\ UNCHANGED <<browser, life, got>>
    BY <1>18, ThreadFacts DEF FinishJob, beyond, deliveryVars, tenancyVars, actionVars, screen
  <2>2. JobsKept
    BY <1>18 DEF FinishJob, JobsKept, DashboardTypes, ActionJob
  <2>3. /\ \A u \in Threads : u # j => at'[u] = at[u]
        /\ at'[j] = "swap" /\ at[j] = "finish"
    BY <1>18, <2>1 DEF FinishJob, Go, DashboardTypes
  <2>4. Fingerprint' = Fingerprint /\ SnapKept
    BY <1>18 DEF FinishJob, Fingerprint, SnapKept, DashboardTypes, SnapshotShape
  <2> QED
    BY <2>1, <2>2, <2>3, <2>4, PrintsKept, ThreadFacts DEF JobsKept
<1>19. ASSUME NEW j \in Jobs, SwapOwed(j) PROVE PrintsAgree'
  <2>1. j \in Threads /\ at[j] \in PlacesOf(j)
    BY ThreadFacts DEF DashboardTypes
  <2>2. /\ \A u \in Threads : u # j => at'[u] = at[u] /\ got'[u] = got[u]
        /\ at'[j] \notin {"enqueue", "enqueue_sync", "operate"}
        /\ j \in Jobs /\ at'[j] \notin {"idle", "ended"} => at[j] \notin {"idle", "ended"}
    BY <1>19, <2>1, ThreadFacts DEF SwapOwed, Go, Leave, DashboardTypes, Accepted, PlacesOf, JobPlaces, RequestPlaces, PollPlaces, WebhookEvents
  <2>3. JobsKept /\ UNCHANGED <<snap, browser, life>>
    BY <1>19 DEF SwapOwed, JobsKept, beyond, deliveryVars, tenancyVars, actionVars, screen
  <2> QED
    BY <2>1, <2>2, <2>3, PrintsMove
<1>20. ASSUME NEW r \in Requests, HandleRefresh(r) PROVE PrintsAgree'
  <2>1. r \in Threads /\ at[r] \in PlacesOf(r)
    BY ThreadFacts DEF DashboardTypes
  <2>2. /\ \A u \in Threads : u # r => at'[u] = at[u] /\ got'[u] = got[u]
        /\ at'[r] \notin {"enqueue", "enqueue_sync", "operate"}
        /\ r \in Jobs /\ at'[r] \notin {"idle", "ended"} => at[r] \notin {"idle", "ended"}
    BY <1>20, <2>1, ThreadFacts DEF HandleRefresh, Go, Leave, DashboardTypes, Accepted, PlacesOf, JobPlaces, RequestPlaces, PollPlaces, WebhookEvents
  <2>3. JobsKept /\ UNCHANGED <<snap, browser, life>>
    BY <1>20 DEF HandleRefresh, JobsKept, beyond, deliveryVars, tenancyVars, actionVars, screen
  <2> QED
    BY <2>1, <2>2, <2>3, PrintsMove
<1>21. ASSUME NEW r \in Requests, HandleAction(r) PROVE PrintsAgree'
  <2>1. PICK mutates \in BOOLEAN : got' = [got EXCEPT ![r].job = Draft(mutates, browser.print)]
    BY <1>21 DEF HandleAction, Draft
  <2>2. JobsKept /\ UNCHANGED <<snap, browser, life>> /\ r \in Threads /\ r \notin Jobs
    BY <1>21, ThreadFacts DEF HandleAction, JobsKept, beyond, deliveryVars, tenancyVars, actionVars, screen
  <2>3. /\ \A u \in Threads : u # r => at'[u] = at[u] /\ got'[u] = got[u]
        /\ at'[r] = "enqueue" /\ got'[r].job = Draft(mutates, browser.print)
    BY <1>21, <2>1, <2>2 DEF HandleAction, Go, DashboardTypes, Gotten
  <2>4. got'[r].job.seq = snap.seq /\ got'[r].job.print = Fingerprint /\ got'[r].job.seen = browser.print
    BY <2>3, DraftShape DEF DashboardTypes
  <2>5. browser.print = Fingerprint
    BY <1>21 DEF HandleAction, CsrfValid, PrintsAgree, SeenAt
  <2>6. Fingerprint' = Fingerprint /\ SnapKept
    BY <2>2 DEF Fingerprint, SnapKept
  <2>7. JobSound(got[r].job)'
    BY <2>2, <2>4, <2>5, <2>6 DEF JobSound, SeenAt, DashboardTypes, SnapshotShape
  <2> QED
    BY <2>2, <2>3, <2>6, <2>7, PrintsKept, ThreadFacts DEF JobsKept
<1>22. ASSUME NEW r \in Requests, RecordWebhookDelivery(r) PROVE PrintsAgree'
  <2>1. r \in Threads /\ at[r] \in PlacesOf(r)
    BY ThreadFacts DEF DashboardTypes
  <2>2. /\ \A u \in Threads : u # r => at'[u] = at[u] /\ got'[u] = got[u]
        /\ at'[r] \notin {"enqueue", "enqueue_sync", "operate"}
        /\ r \in Jobs /\ at'[r] \notin {"idle", "ended"} => at[r] \notin {"idle", "ended"}
    BY <1>22, <2>1, ThreadFacts DEF RecordWebhookDelivery, Go, Leave, DashboardTypes, Accepted, PlacesOf, JobPlaces, RequestPlaces, PollPlaces, WebhookEvents, deliveryVars
  <2>3. JobsKept /\ UNCHANGED <<snap, browser, life>>
    BY <1>22 DEF RecordWebhookDelivery, JobsKept, beyond, deliveryVars, tenancyVars, actionVars, screen
  <2> QED
    BY <2>1, <2>2, <2>3, PrintsMove
<1>23. CASE PollerWakes
  <2>1. "poll" \in Threads /\ at["poll"] \in PlacesOf("poll")
    BY ThreadFacts DEF DashboardTypes
  <2>2. /\ \A u \in Threads : u # "poll" => at'[u] = at[u] /\ got'[u] = got[u]
        /\ at'["poll"] \notin {"enqueue", "enqueue_sync", "operate"}
        /\ "poll" \in Jobs /\ at'["poll"] \notin {"idle", "ended"} => at["poll"] \notin {"idle", "ended"}
    BY <1>23, <2>1, ThreadFacts DEF PollerWakes, Go, Leave, DashboardTypes, Accepted, PlacesOf, JobPlaces, RequestPlaces, PollPlaces, WebhookEvents, RefreshAll
  <2>3. JobsKept /\ UNCHANGED <<snap, browser, life>>
    BY <1>23 DEF PollerWakes, JobsKept, beyond, deliveryVars, tenancyVars, actionVars, screen
  <2> QED
    BY <2>1, <2>2, <2>3, PrintsMove
<1>24. CASE ViewState
  <2>1. UNCHANGED <<snap, life, at, got, jobs>>
    BY <1>24 DEF ViewState, beyond, deliveryVars, tenancyVars, actionVars, screen
  <2>2. Fingerprint' = Fingerprint
    BY <2>1 DEF Fingerprint
  <2>3. browser'.life = life /\ browser'.seq = snap.seq /\ browser'.print = Fingerprint
    BY <1>24 DEF ViewState
  <2> QED
    BY <2>1, <2>2, <2>3 DEF PrintsAgree, JobSound, SeenAt, DashboardTypes, SnapshotShape
<1>25. CASE FactsChange
  <2>1. JobsKept /\ UNCHANGED <<snap, browser, life, at, got>>
    BY <1>25 DEF FactsChange, JobsKept, beyond, deliveryVars, tenancyVars, actionVars, screen
  <2> QED
    BY <2>1, PrintsStay
<1>26. CASE GrantChanges
  <2>1. JobsKept /\ UNCHANGED <<snap, browser, life, at, got>>
    BY <1>26 DEF GrantChanges, JobsKept, beyond, deliveryVars, tenancyVars, actionVars, screen
  <2> QED
    BY <2>1, PrintsStay
<1>27. CASE CacheExpires
  <2>1. JobsKept /\ UNCHANGED <<snap, browser, life, at, got>>
    BY <1>27 DEF CacheExpires, JobsKept, beyond, deliveryVars, tenancyVars, actionVars, screen
  <2> QED
    BY <2>1, PrintsStay
<1>28. CASE Restart
  <2>1. browser' = browser /\ life' = life + 1 /\ browser.life <= life
    BY <1>28 DEF Restart, PrintsAgree, beyond, deliveryVars, tenancyVars, actionVars, screen
  <2>2. \A t \in Threads : at'[t] \notin {"enqueue", "enqueue_sync", "operate"} /\ (t \in Jobs => at'[t] \in {"idle", "ended"})
    BY <1>28, ThreadFacts DEF Restart, Started, RefreshAll
  <2> QED
    BY <2>1, <2>2, ThreadFacts DEF PrintsAgree, DashboardTypes
<1> QED
  BY <1>1, <1>2, <1>3, <1>4, <1>5, <1>6, <1>7, <1>8, <1>9, <1>10, <1>11, <1>12, <1>13, <1>14,
     <1>15, <1>16, <1>17, <1>18, <1>19, <1>20, <1>21, <1>22, <1>23, <1>24, <1>25, <1>26, <1>27, <1>28
  DEF DashboardNext, ThreadStep, RefreshStep, TenancyStep, RequestStep, JobStep

\* No action runs, the cache at most loses its entry, and what is shown stays.
ReadsStill == /\ UNCHANGED writes /\ snap'.status = snap.status /\ snap'.err = snap.err
              /\ cached'.read => cached' = cached

LEMMA ReadsKept ==
  ASSUME ReadsAgree, ReadsStill,
         \A t \in Threads : at'[t] \in {"insert", "publish"} =>
                              \/ at[t] \in {"insert", "publish"} /\ got'[t].status = got[t].status
                              \/ got'[t].status.read => got'[t].status.after = writes,
         \A j \in Jobs : jobs[j].result # "none" /\ at[j] \in {"read", "insert", "publish"} =>
                           jobs'[j].result # "none" /\ at'[j] \in {"read", "insert", "publish"}
  PROVE  ReadsAgree'
<1>1. Settling => Settling'
  BY DEF Settling
<1>2. cached'.read => cached'.after = writes
  BY DEF ReadsAgree, ReadsStill
<1>3. ASSUME NEW t \in Threads, at'[t] \in {"insert", "publish"}, got'[t].status.read PROVE got'[t].status.after = writes
  BY <1>3 DEF ReadsAgree
<1> QED
  BY <1>1, <1>2, <1>3 DEF ReadsAgree, ReadsStill

\* A thread moves that has read nothing.
LEMMA ReadsMove ==
  ASSUME ReadsAgree, ReadsStill, NEW t \in Threads,
         \A u \in Threads : u # t => at'[u] = at[u] /\ got'[u] = got[u],
         at'[t] \notin {"insert", "publish"}, at[t] \notin {"read", "insert", "publish"},
         \A j \in Jobs : jobs'[j].result = jobs[j].result
  PROVE  ReadsAgree'
  BY ReadsKept, ThreadFacts

\* Whatever is about to be shown or cached was read after the last action.
LEMMA ReadsStep ==
  ASSUME DashboardTypes, LocksAgree, ReadsAgree, DashboardNext
  PROVE  ReadsAgree'
<1>1. ASSUME NEW t \in Threads, AskRefresh(t) PROVE ReadsAgree'
  <2>1. t \in Threads /\ at[t] \in PlacesOf(t)
    BY ThreadFacts DEF DashboardTypes
  <2>2. /\ \A u \in Threads : u # t => at'[u] = at[u] /\ got'[u] = got[u]
        /\ at'[t] \notin {"insert", "publish"} /\ at[t] \notin {"read", "insert", "publish"}
    BY <1>1, <2>1, ThreadFacts DEF AskRefresh, Go, Leave, DashboardTypes, Accepted, PlacesOf, JobPlaces, RequestPlaces, PollPlaces, WebhookEvents
  <2>3. ReadsStill
    BY <1>1 DEF AskRefresh, ReadsStill, NoStatus, beyond, deliveryVars, tenancyVars, actionVars, screen
  <2>4. \A k \in Jobs : jobs'[k].result = jobs[k].result
    BY <1>1 DEF AskRefresh, beyond, deliveryVars, tenancyVars, actionVars, screen
  <2> QED
    BY <2>1, <2>2, <2>3, <2>4, ReadsMove
<1>2. ASSUME NEW t \in Threads, TakeRefreshLock(t) PROVE ReadsAgree'
  <2>1. t \in Threads /\ at[t] \in PlacesOf(t)
    BY ThreadFacts DEF DashboardTypes
  <2>2. /\ \A u \in Threads : u # t => at'[u] = at[u] /\ got'[u] = got[u]
        /\ at'[t] \notin {"insert", "publish"} /\ at[t] \notin {"read", "insert", "publish"}
    BY <1>2, <2>1, ThreadFacts DEF TakeRefreshLock, Go, Leave, DashboardTypes, Accepted, PlacesOf, JobPlaces, RequestPlaces, PollPlaces, WebhookEvents
  <2>3. ReadsStill
    BY <1>2 DEF TakeRefreshLock, ReadsStill, NoStatus, beyond, deliveryVars, tenancyVars, actionVars, screen
  <2>4. \A k \in Jobs : jobs'[k].result = jobs[k].result
    BY <1>2 DEF TakeRefreshLock, beyond, deliveryVars, tenancyVars, actionVars, screen
  <2> QED
    BY <2>1, <2>2, <2>3, <2>4, ReadsMove
<1>3. ASSUME NEW t \in Threads, CacheHit(t) PROVE ReadsAgree'
  <2>1. ReadsStill /\ UNCHANGED jobs
    BY <1>3 DEF CacheHit, ReadsStill, beyond, deliveryVars, tenancyVars, actionVars, screen
  <2>2. /\ \A u \in Threads : u # t => at'[u] = at[u] /\ got'[u] = got[u]
        /\ at[t] = "read" /\ at'[t] = "publish" /\ got'[t].status = cached
    BY <1>3 DEF CacheHit, Go, DashboardTypes, Gotten
  <2>3. cached.read => cached.after = writes
    BY DEF ReadsAgree
  <2> QED
    BY <2>1, <2>2, <2>3, ReadsKept, ThreadFacts DEF ReadsStill
<1>4. ASSUME NEW t \in Threads, ReadStatus(t) PROVE ReadsAgree'
  <2>1. ReadsStill /\ UNCHANGED <<jobs, writes>>
    BY <1>4 DEF ReadStatus, ReadsStill, beyond, deliveryVars, tenancyVars, actionVars, screen
  <2>2. /\ \A u \in Threads : u # t => at'[u] = at[u] /\ got'[u] = got[u]
        /\ at[t] = "read" /\ at'[t] \in {"insert", "publish"}
    BY <1>4 DEF ReadStatus, Go, DashboardTypes
  <2>3. got'[t].status.read => got'[t].status.after = writes
    <3>1. got'[t].status = NoStatus \/ got'[t].status = [read |-> TRUE, facts |-> facts, after |-> writes]
      BY <1>4 DEF ReadStatus, DashboardTypes, Gotten
    <3> QED
      BY <3>1 DEF NoStatus
  <2> QED
    BY <2>1, <2>2, <2>3, ReadsKept, ThreadFacts
<1>5. ASSUME NEW t \in Threads, InsertStatus(t) PROVE ReadsAgree'
  <2>1. /\ \A u \in Threads : u # t => at'[u] = at[u]
        /\ at[t] = "insert" /\ at'[t] = "publish" /\ cached' = got[t].status
        /\ UNCHANGED <<got, jobs, snap, writes>>
    BY <1>5 DEF InsertStatus, Go, DashboardTypes, beyond, deliveryVars, tenancyVars, actionVars, screen
  <2>2. cached'.read => cached'.after = writes
    BY <2>1 DEF ReadsAgree
  <2>3. Settling => Settling'
    BY <2>1, ThreadFacts DEF Settling
  <2> QED
    BY <2>1, <2>2, <2>3 DEF ReadsAgree
<1>6. ASSUME NEW t \in Threads, Publish(t) PROVE ReadsAgree'
  <2>1. /\ \A u \in Threads : u # t => at'[u] = at[u] /\ got'[u] = got[u]
        /\ at[t] = "publish" /\ at'[t] \notin {"insert", "publish"}
        /\ UNCHANGED <<cached, jobs, writes>>
    BY <1>6 DEF Publish, Go, Leave, DashboardTypes, beyond, deliveryVars, tenancyVars, actionVars, screen
  <2>2. /\ got[t].status \in StatusRead /\ snap' \in Published(got[t].status)
    BY <1>6 DEF Publish, DashboardTypes, Gotten
  <2>3. (snap'.err \/ snap'.status = got[t].status) /\ (~got[t].status.read => snap'.err)
    BY <2>2, PublishedSeq DEF DashboardTypes
  <2>4. snap'.status.read /\ ~snap'.err => snap'.status.after = writes
    BY <2>1, <2>3 DEF ReadsAgree
  <2>5. \A u \in Threads : at'[u] \in {"insert", "publish"} /\ got'[u].status.read => got'[u].status.after = writes
    BY <2>1 DEF ReadsAgree
  <2> QED
    BY <2>1, <2>4, <2>5 DEF ReadsAgree
<1>7. ASSUME NEW t \in Threads, QuarantinePending(t) PROVE ReadsAgree'
  <2>1. t \in Threads /\ at[t] \in PlacesOf(t)
    BY ThreadFacts DEF DashboardTypes
  <2>2. /\ \A u \in Threads : u # t => at'[u] = at[u] /\ got'[u] = got[u]
        /\ at'[t] \notin {"insert", "publish"} /\ at[t] \notin {"read", "insert", "publish"}
    BY <1>7, <2>1, ThreadFacts DEF QuarantinePending, Go, Leave, DashboardTypes, Accepted, PlacesOf, JobPlaces, RequestPlaces, PollPlaces, WebhookEvents
  <2>3. ReadsStill
    BY <1>7 DEF QuarantinePending, ReadsStill, NoStatus, beyond, deliveryVars, tenancyVars, actionVars, screen
  <2>4. \A k \in Jobs : jobs'[k].result = jobs[k].result
    BY <1>7 DEF QuarantinePending, beyond, deliveryVars, tenancyVars, actionVars, screen
  <2> QED
    BY <2>1, <2>2, <2>3, <2>4, ReadsMove
<1>8. ASSUME NEW t \in Threads, Observe(t) PROVE ReadsAgree'
  <2>1. t \in Threads /\ at[t] \in PlacesOf(t)
    BY ThreadFacts DEF DashboardTypes
  <2>2. /\ \A u \in Threads : u # t => at'[u] = at[u] /\ got'[u] = got[u]
        /\ at'[t] \notin {"insert", "publish"} /\ at[t] \notin {"read", "insert", "publish"}
    BY <1>8, <2>1, ThreadFacts DEF Observe, Go, Leave, DashboardTypes, Accepted, PlacesOf, JobPlaces, RequestPlaces, PollPlaces, WebhookEvents
  <2>3. ReadsStill
    BY <1>8 DEF Observe, ReadsStill, NoStatus, beyond, deliveryVars, tenancyVars, actionVars, screen
  <2>4. \A k \in Jobs : jobs'[k].result = jobs[k].result
    BY <1>8 DEF Observe, beyond, deliveryVars, tenancyVars, actionVars, screen
  <2> QED
    BY <2>1, <2>2, <2>3, <2>4, ReadsMove
<1>9. ASSUME NEW t \in Threads, PersistTenancy(t) PROVE ReadsAgree'
  <2>1. t \in Threads /\ at[t] \in PlacesOf(t)
    BY ThreadFacts DEF DashboardTypes
  <2>2. /\ \A u \in Threads : u # t => at'[u] = at[u] /\ got'[u] = got[u]
        /\ at'[t] \notin {"insert", "publish"} /\ at[t] \notin {"read", "insert", "publish"}
    BY <1>9, <2>1, ThreadFacts DEF PersistTenancy, Go, Leave, DashboardTypes, Accepted, PlacesOf, JobPlaces, RequestPlaces, PollPlaces, WebhookEvents
  <2>3. ReadsStill
    BY <1>9 DEF PersistTenancy, ReadsStill, NoStatus, beyond, deliveryVars, tenancyVars, actionVars, screen
  <2>4. \A k \in Jobs : jobs'[k].result = jobs[k].result
    BY <1>9 DEF PersistTenancy, beyond, deliveryVars, tenancyVars, actionVars, screen
  <2> QED
    BY <2>1, <2>2, <2>3, <2>4, ReadsMove
<1>10. ASSUME NEW t \in Threads, RouteWebhook(t) PROVE ReadsAgree'
  <2>1. t \in Threads /\ at[t] \in PlacesOf(t)
    BY ThreadFacts DEF DashboardTypes
  <2>2. /\ \A u \in Threads : u # t => at'[u] = at[u] /\ got'[u] = got[u]
        /\ at'[t] \notin {"insert", "publish"} /\ at[t] \notin {"read", "insert", "publish"}
    BY <1>10, <2>1, ThreadFacts DEF RouteWebhook, Go, Leave, DashboardTypes, Accepted, PlacesOf, JobPlaces, RequestPlaces, PollPlaces, WebhookEvents
  <2>3. ReadsStill
    BY <1>10 DEF RouteWebhook, ReadsStill, NoStatus, beyond, deliveryVars, tenancyVars, actionVars, screen
  <2>4. \A k \in Jobs : jobs'[k].result = jobs[k].result
    BY <1>10 DEF RouteWebhook, beyond, deliveryVars, tenancyVars, actionVars, screen
  <2> QED
    BY <2>1, <2>2, <2>3, <2>4, ReadsMove
<1>11. ASSUME NEW t \in Threads, DraftSync(t) PROVE ReadsAgree'
  <2>1. t \in Threads /\ at[t] \in PlacesOf(t)
    BY ThreadFacts DEF DashboardTypes
  <2>2. /\ \A u \in Threads : u # t => at'[u] = at[u] /\ got'[u] = got[u]
        /\ at'[t] \notin {"insert", "publish"} /\ at[t] \notin {"read", "insert", "publish"}
    BY <1>11, <2>1, ThreadFacts DEF DraftSync, Go, Leave, DashboardTypes, Accepted, PlacesOf, JobPlaces, RequestPlaces, PollPlaces, WebhookEvents
  <2>3. ReadsStill
    BY <1>11 DEF DraftSync, ReadsStill, NoStatus, beyond, deliveryVars, tenancyVars, actionVars, screen
  <2>4. \A k \in Jobs : jobs'[k].result = jobs[k].result
    BY <1>11 DEF DraftSync, beyond, deliveryVars, tenancyVars, actionVars, screen
  <2> QED
    BY <2>1, <2>2, <2>3, <2>4, ReadsMove
<1>12. ASSUME NEW t \in Threads, EnqueueActionJob(t) PROVE ReadsAgree'
  <2>1. ReadsStill /\ at[t] \in {"enqueue", "enqueue_sync"}
    BY <1>12 DEF EnqueueActionJob, ReadsStill, beyond, deliveryVars, tenancyVars, actionVars, screen
  <2>2. CASE UNCHANGED jobs /\ (Leave(t) \/ (Go(t, "owe") /\ UNCHANGED got))
    <3>1. /\ \A u \in Threads : u # t => at'[u] = at[u] /\ got'[u] = got[u]
          /\ at'[t] \notin {"insert", "publish"} /\ at[t] \notin {"read", "insert", "publish"}
      BY <2>1, <2>2 DEF Go, Leave, DashboardTypes
    <3> QED
      BY <3>1, <2>1, <2>2, ReadsMove
  <2>3. ASSUME NEW j \in Jobs, at[j] = "idle", jobs' = [jobs EXCEPT ![j] = got[t].job],
               at' = [at EXCEPT ![j] = "queued", ![t] = IF t \in Jobs THEN "ended" ELSE "idle"],
               got' = [got EXCEPT ![t] = Nothing]
        PROVE  ReadsAgree'
    <3>1. t # j /\ j \in Threads
      BY <2>1, <2>3, ThreadFacts
    <3>2. /\ \A u \in Threads : u # t => got'[u] = got[u]
          /\ \A u \in Threads : u \notin {t, j} => at'[u] = at[u]
          /\ at'[j] = "queued" /\ at'[t] \in {"ended", "idle"}
      BY <2>3, <3>1 DEF DashboardTypes
    <3>3. \A k \in Jobs : k # j => jobs'[k] = jobs[k]
      BY <2>3 DEF DashboardTypes
    <3> QED
      BY <2>1, <2>3, <3>2, <3>3, ReadsKept, ThreadFacts
  <2> QED
    BY <1>12, <2>2, <2>3 DEF EnqueueActionJob
<1>13. ASSUME NEW t \in Threads, OweSync(t) PROVE ReadsAgree'
  <2>1. t \in Threads /\ at[t] \in PlacesOf(t)
    BY ThreadFacts DEF DashboardTypes
  <2>2. /\ \A u \in Threads : u # t => at'[u] = at[u] /\ got'[u] = got[u]
        /\ at'[t] \notin {"insert", "publish"} /\ at[t] \notin {"read", "insert", "publish"}
    BY <1>13, <2>1, ThreadFacts DEF OweSync, Go, Leave, DashboardTypes, Accepted, PlacesOf, JobPlaces, RequestPlaces, PollPlaces, WebhookEvents
  <2>3. ReadsStill
    BY <1>13 DEF OweSync, ReadsStill, NoStatus, beyond, deliveryVars, tenancyVars, actionVars, screen
  <2>4. \A k \in Jobs : jobs'[k].result = jobs[k].result
    BY <1>13 DEF OweSync, beyond, deliveryVars, tenancyVars, actionVars, screen
  <2> QED
    BY <2>1, <2>2, <2>3, <2>4, ReadsMove
<1>14. ASSUME NEW j \in Jobs, TakeActionLock(j) PROVE ReadsAgree'
  <2>1. j \in Threads /\ at[j] \in PlacesOf(j)
    BY ThreadFacts DEF DashboardTypes
  <2>2. /\ \A u \in Threads : u # j => at'[u] = at[u] /\ got'[u] = got[u]
        /\ at'[j] \notin {"insert", "publish"} /\ at[j] \notin {"read", "insert", "publish"}
    BY <1>14, <2>1, ThreadFacts DEF TakeActionLock, Go, Leave, DashboardTypes, Accepted, PlacesOf, JobPlaces, RequestPlaces, PollPlaces, WebhookEvents
  <2>3. ReadsStill
    BY <1>14 DEF TakeActionLock, ReadsStill, NoStatus, beyond, deliveryVars, tenancyVars, actionVars, screen, DashboardTypes, ActionJob
  <2>4. \A k \in Jobs : jobs'[k].result = jobs[k].result
    BY <1>14 DEF TakeActionLock, beyond, deliveryVars, tenancyVars, actionVars, screen, DashboardTypes, ActionJob
  <2> QED
    BY <2>1, <2>2, <2>3, <2>4, ReadsMove
<1>15. ASSUME NEW j \in Jobs, FreshActionAuthority(j) PROVE ReadsAgree'
  <2>1. j \in Threads /\ at[j] \in PlacesOf(j)
    BY ThreadFacts DEF DashboardTypes
  <2>2. /\ \A u \in Threads : u # j => at'[u] = at[u] /\ got'[u] = got[u]
        /\ at'[j] \notin {"insert", "publish"} /\ at[j] \notin {"read", "insert", "publish"}
    BY <1>15, <2>1, ThreadFacts DEF FreshActionAuthority, Go, Leave, DashboardTypes, Accepted, PlacesOf, JobPlaces, RequestPlaces, PollPlaces, WebhookEvents
  <2>3. ReadsStill
    BY <1>15 DEF FreshActionAuthority, ReadsStill, NoStatus, beyond, deliveryVars, tenancyVars, actionVars, screen
  <2>4. \A k \in Jobs : jobs'[k].result = jobs[k].result
    BY <1>15 DEF FreshActionAuthority, beyond, deliveryVars, tenancyVars, actionVars, screen
  <2> QED
    BY <2>1, <2>2, <2>3, <2>4, ReadsMove
<1>16. ASSUME NEW j \in Jobs, ValidateAction(j) PROVE ReadsAgree'
  <2>1. ReadsStill /\ UNCHANGED got
    BY <1>16 DEF ValidateAction, ReadsStill, CacheAfterAction, NoStatus, beyond, deliveryVars, tenancyVars, actionVars, screen
  <2>2. /\ \A u \in Threads : u # j => at'[u] = at[u]
        /\ at[j] = "validate" /\ at'[j] \in {"operate", "read"}
    BY <1>16, ThreadFacts DEF ValidateAction, Go, DashboardTypes
  <2>3. \A k \in Jobs : k # j => jobs'[k] = jobs[k]
    BY <1>16 DEF ValidateAction, DashboardTypes
  <2> QED
    BY <2>1, <2>2, <2>3, ReadsKept, ThreadFacts
<1>17. ASSUME NEW j \in Jobs, RunAction(j) PROVE ReadsAgree'
  <2>1. /\ \A u \in Threads : u # j => at'[u] = at[u]
        /\ at[j] = "operate" /\ at'[j] = "read" /\ ~cached'.read
    BY <1>17, ThreadFacts DEF RunAction, Go, DashboardTypes, CacheAfterAction, NoStatus
  <2>2. \A u \in Threads : at[u] \notin {"read", "insert", "publish"}
    BY <2>1, ThreadFacts DEF LocksAgree, HasRefresh
  <2>3. jobs'[j].result # "none"
    BY <1>17 DEF RunAction, DashboardTypes, ActionJob
  <2>4. Settling'
    BY <2>1, <2>3 DEF Settling
  <2>5. \A u \in Threads : at'[u] \notin {"insert", "publish"}
    BY <2>1, <2>2
  <2> QED
    BY <2>1, <2>4, <2>5 DEF ReadsAgree
<1>18. ASSUME NEW j \in Jobs, FinishJob(j) PROVE ReadsAgree'
  <2>1. j \in Threads /\ at[j] \in PlacesOf(j)
    BY ThreadFacts DEF DashboardTypes
  <2>2. /\ \A u \in Threads : u # j => at'[u] = at[u] /\ got'[u] = got[u]
        /\ at'[j] \notin {"insert", "publish"} /\ at[j] \notin {"read", "insert", "publish"}
    BY <1>18, <2>1, ThreadFacts DEF FinishJob, Go, Leave, DashboardTypes, Accepted, PlacesOf, JobPlaces, RequestPlaces, PollPlaces, WebhookEvents
  <2>3. ReadsStill
    BY <1>18 DEF FinishJob, ReadsStill, NoStatus, beyond, deliveryVars, tenancyVars, actionVars, screen, DashboardTypes, ActionJob, SnapshotShape
  <2>4. \A k \in Jobs : jobs'[k].result = jobs[k].result
    BY <1>18 DEF FinishJob, beyond, deliveryVars, tenancyVars, actionVars, screen, DashboardTypes, ActionJob, SnapshotShape
  <2> QED
    BY <2>1, <2>2, <2>3, <2>4, ReadsMove
<1>19. ASSUME NEW j \in Jobs, SwapOwed(j) PROVE ReadsAgree'
  <2>1. j \in Threads /\ at[j] \in PlacesOf(j)
    BY ThreadFacts DEF DashboardTypes
  <2>2. /\ \A u \in Threads : u # j => at'[u] = at[u] /\ got'[u] = got[u]
        /\ at'[j] \notin {"insert", "publish"} /\ at[j] \notin {"read", "insert", "publish"}
    BY <1>19, <2>1, ThreadFacts DEF SwapOwed, Go, Leave, DashboardTypes, Accepted, PlacesOf, JobPlaces, RequestPlaces, PollPlaces, WebhookEvents
  <2>3. ReadsStill
    BY <1>19 DEF SwapOwed, ReadsStill, NoStatus, beyond, deliveryVars, tenancyVars, actionVars, screen
  <2>4. \A k \in Jobs : jobs'[k].result = jobs[k].result
    BY <1>19 DEF SwapOwed, beyond, deliveryVars, tenancyVars, actionVars, screen
  <2> QED
    BY <2>1, <2>2, <2>3, <2>4, ReadsMove
<1>20. ASSUME NEW r \in Requests, HandleRefresh(r) PROVE ReadsAgree'
  <2>1. r \in Threads /\ at[r] \in PlacesOf(r)
    BY ThreadFacts DEF DashboardTypes
  <2>2. /\ \A u \in Threads : u # r => at'[u] = at[u] /\ got'[u] = got[u]
        /\ at'[r] \notin {"insert", "publish"} /\ at[r] \notin {"read", "insert", "publish"}
    BY <1>20, <2>1, ThreadFacts DEF HandleRefresh, Go, Leave, DashboardTypes, Accepted, PlacesOf, JobPlaces, RequestPlaces, PollPlaces, WebhookEvents
  <2>3. ReadsStill
    BY <1>20 DEF HandleRefresh, ReadsStill, NoStatus, beyond, deliveryVars, tenancyVars, actionVars, screen
  <2>4. \A k \in Jobs : jobs'[k].result = jobs[k].result
    BY <1>20 DEF HandleRefresh, beyond, deliveryVars, tenancyVars, actionVars, screen
  <2> QED
    BY <2>1, <2>2, <2>3, <2>4, ReadsMove
<1>21. ASSUME NEW r \in Requests, HandleAction(r) PROVE ReadsAgree'
  <2>1. r \in Threads /\ at[r] \in PlacesOf(r)
    BY ThreadFacts DEF DashboardTypes
  <2>2. /\ \A u \in Threads : u # r => at'[u] = at[u] /\ got'[u] = got[u]
        /\ at'[r] \notin {"insert", "publish"} /\ at[r] \notin {"read", "insert", "publish"}
    BY <1>21, <2>1, ThreadFacts DEF HandleAction, Go, Leave, DashboardTypes, Accepted, PlacesOf, JobPlaces, RequestPlaces, PollPlaces, WebhookEvents
  <2>3. ReadsStill
    BY <1>21 DEF HandleAction, ReadsStill, NoStatus, beyond, deliveryVars, tenancyVars, actionVars, screen
  <2>4. \A k \in Jobs : jobs'[k].result = jobs[k].result
    BY <1>21 DEF HandleAction, beyond, deliveryVars, tenancyVars, actionVars, screen
  <2> QED
    BY <2>1, <2>2, <2>3, <2>4, ReadsMove
<1>22. ASSUME NEW r \in Requests, RecordWebhookDelivery(r) PROVE ReadsAgree'
  <2>1. r \in Threads /\ at[r] \in PlacesOf(r)
    BY ThreadFacts DEF DashboardTypes
  <2>2. /\ \A u \in Threads : u # r => at'[u] = at[u] /\ got'[u] = got[u]
        /\ at'[r] \notin {"insert", "publish"} /\ at[r] \notin {"read", "insert", "publish"}
    BY <1>22, <2>1, ThreadFacts DEF RecordWebhookDelivery, Go, Leave, DashboardTypes, Accepted, PlacesOf, JobPlaces, RequestPlaces, PollPlaces, WebhookEvents, deliveryVars
  <2>3. ReadsStill
    BY <1>22 DEF RecordWebhookDelivery, ReadsStill, NoStatus, beyond, deliveryVars, tenancyVars, actionVars, screen
  <2>4. \A k \in Jobs : jobs'[k].result = jobs[k].result
    BY <1>22 DEF RecordWebhookDelivery, beyond, deliveryVars, tenancyVars, actionVars, screen
  <2> QED
    BY <2>1, <2>2, <2>3, <2>4, ReadsMove
<1>23. CASE PollerWakes
  <2>1. "poll" \in Threads /\ at["poll"] \in PlacesOf("poll")
    BY ThreadFacts DEF DashboardTypes
  <2>2. /\ \A u \in Threads : u # "poll" => at'[u] = at[u] /\ got'[u] = got[u]
        /\ at'["poll"] \notin {"insert", "publish"} /\ at["poll"] \notin {"read", "insert", "publish"}
    BY <1>23, <2>1, ThreadFacts DEF PollerWakes, Go, Leave, DashboardTypes, Accepted, PlacesOf, JobPlaces, RequestPlaces, PollPlaces, WebhookEvents, RefreshAll
  <2>3. ReadsStill
    BY <1>23 DEF PollerWakes, ReadsStill, NoStatus, beyond, deliveryVars, tenancyVars, actionVars, screen
  <2>4. \A k \in Jobs : jobs'[k].result = jobs[k].result
    BY <1>23 DEF PollerWakes, beyond, deliveryVars, tenancyVars, actionVars, screen
  <2> QED
    BY <2>1, <2>2, <2>3, <2>4, ReadsMove
<1>24. CASE ViewState
  <2>1. ReadsStill /\ UNCHANGED <<at, got, jobs>>
    BY <1>24 DEF ViewState, ReadsStill, NoStatus, beyond, deliveryVars, tenancyVars, actionVars, screen
  <2> QED
    BY <2>1, ReadsKept, ThreadFacts
<1>25. CASE FactsChange
  <2>1. ReadsStill /\ UNCHANGED <<at, got, jobs>>
    BY <1>25 DEF FactsChange, ReadsStill, NoStatus, beyond, deliveryVars, tenancyVars, actionVars, screen
  <2> QED
    BY <2>1, ReadsKept, ThreadFacts
<1>26. CASE GrantChanges
  <2>1. ReadsStill /\ UNCHANGED <<at, got, jobs>>
    BY <1>26 DEF GrantChanges, ReadsStill, NoStatus, beyond, deliveryVars, tenancyVars, actionVars, screen
  <2> QED
    BY <2>1, ReadsKept, ThreadFacts
<1>27. CASE CacheExpires
  <2>1. ReadsStill /\ UNCHANGED <<at, got, jobs>>
    BY <1>27 DEF CacheExpires, ReadsStill, NoStatus, beyond, deliveryVars, tenancyVars, actionVars, screen
  <2> QED
    BY <2>1, ReadsKept, ThreadFacts
<1>28. CASE Restart
  <2>1. ~cached'.read /\ ~snap'.status.read
    BY <1>28 DEF Restart, Started, NoStatus, NoSnapshot
  <2>2. \A t \in Threads : at'[t] \notin {"insert", "publish"}
    BY <1>28, ThreadFacts DEF Restart, Started, RefreshAll
  <2> QED
    BY <2>1, <2>2 DEF ReadsAgree
<1> QED
  BY <1>1, <1>2, <1>3, <1>4, <1>5, <1>6, <1>7, <1>8, <1>9, <1>10, <1>11, <1>12, <1>13, <1>14,
     <1>15, <1>16, <1>17, <1>18, <1>19, <1>20, <1>21, <1>22, <1>23, <1>24, <1>25, <1>26, <1>27, <1>28
  DEF DashboardNext, ThreadStep, RefreshStep, TenancyStep, RequestStep, JobStep

\* The projection says active only on what this process has observed.
LEMMA TenancyStepAgrees ==
  ASSUME DashboardTypes, LocksAgree, TenancyAgrees, DashboardNext
  PROVE  TenancyAgrees'
<1>1. ASSUME NEW t \in Threads, AskRefresh(t) PROVE TenancyAgrees'
  <2>1. t \in Threads /\ at[t] \in PlacesOf(t)
    BY ThreadFacts DEF DashboardTypes
  <2>2. UNCHANGED <<mode, tenancy, seenGrant>> /\ holds'.reconcile \in {holds.reconcile, "none"}
    BY <1>1 DEF AskRefresh, Leave, DashboardTypes, beyond, deliveryVars, tenancyVars, actionVars, screen
  <2>3. /\ \A u \in Threads : u # t => at'[u] = at[u] /\ got'[u] = got[u]
        /\ at'[t] # "persist" /\ at[t] # "reconcile"
    BY <1>1, <2>1, ThreadFacts DEF AskRefresh, Go, Leave, DashboardTypes, Accepted, PlacesOf, JobPlaces, RequestPlaces, PollPlaces, WebhookEvents
  <2>4. serving' => serving \/ t = "poll"
    BY <1>1 DEF AskRefresh, Leave, beyond, deliveryVars, tenancyVars, actionVars, screen
  <2> QED
    BY <2>1, <2>2, <2>3, <2>4, ThreadFacts DEF TenancyAgrees, Hosted
<1>2. ASSUME NEW t \in Threads, TakeRefreshLock(t) PROVE TenancyAgrees'
  <2>1. t \in Threads /\ at[t] \in PlacesOf(t)
    BY ThreadFacts DEF DashboardTypes
  <2>2. UNCHANGED <<mode, tenancy, seenGrant>> /\ holds'.reconcile \in {holds.reconcile, "none"}
    BY <1>2 DEF TakeRefreshLock, Leave, DashboardTypes, beyond, deliveryVars, tenancyVars, actionVars, screen
  <2>3. /\ \A u \in Threads : u # t => at'[u] = at[u] /\ got'[u] = got[u]
        /\ at'[t] # "persist" /\ at[t] # "reconcile"
    BY <1>2, <2>1, ThreadFacts DEF TakeRefreshLock, Go, Leave, DashboardTypes, Accepted, PlacesOf, JobPlaces, RequestPlaces, PollPlaces, WebhookEvents
  <2>4. serving' => serving \/ t = "poll"
    BY <1>2 DEF TakeRefreshLock, Leave, beyond, deliveryVars, tenancyVars, actionVars, screen
  <2> QED
    BY <2>1, <2>2, <2>3, <2>4, ThreadFacts DEF TenancyAgrees, Hosted
<1>3. ASSUME NEW t \in Threads, CacheHit(t) PROVE TenancyAgrees'
  <2>1. t \in Threads /\ at[t] \in PlacesOf(t)
    BY ThreadFacts DEF DashboardTypes
  <2>2. UNCHANGED <<mode, tenancy, seenGrant>> /\ holds'.reconcile \in {holds.reconcile, "none"}
    BY <1>3 DEF CacheHit, Leave, DashboardTypes, beyond, deliveryVars, tenancyVars, actionVars, screen
  <2>3. /\ \A u \in Threads : u # t => at'[u] = at[u] /\ got'[u] = got[u]
        /\ at'[t] # "persist" /\ at[t] # "reconcile"
    BY <1>3, <2>1, ThreadFacts DEF CacheHit, Go, Leave, DashboardTypes, Accepted, PlacesOf, JobPlaces, RequestPlaces, PollPlaces, WebhookEvents
  <2>4. serving' => serving \/ t = "poll"
    BY <1>3 DEF CacheHit, Leave, beyond, deliveryVars, tenancyVars, actionVars, screen
  <2> QED
    BY <2>1, <2>2, <2>3, <2>4, ThreadFacts DEF TenancyAgrees, Hosted
<1>4. ASSUME NEW t \in Threads, ReadStatus(t) PROVE TenancyAgrees'
  <2>1. t \in Threads /\ at[t] \in PlacesOf(t)
    BY ThreadFacts DEF DashboardTypes
  <2>2. UNCHANGED <<mode, tenancy, seenGrant>> /\ holds'.reconcile \in {holds.reconcile, "none"}
    BY <1>4 DEF ReadStatus, Leave, DashboardTypes, beyond, deliveryVars, tenancyVars, actionVars, screen
  <2>3. /\ \A u \in Threads : u # t => at'[u] = at[u] /\ got'[u] = got[u]
        /\ at'[t] # "persist" /\ at[t] # "reconcile"
    BY <1>4, <2>1, ThreadFacts DEF ReadStatus, Go, Leave, DashboardTypes, Accepted, PlacesOf, JobPlaces, RequestPlaces, PollPlaces, WebhookEvents
  <2>4. serving' => serving \/ t = "poll"
    BY <1>4 DEF ReadStatus, Leave, beyond, deliveryVars, tenancyVars, actionVars, screen
  <2> QED
    BY <2>1, <2>2, <2>3, <2>4, ThreadFacts DEF TenancyAgrees, Hosted
<1>5. ASSUME NEW t \in Threads, InsertStatus(t) PROVE TenancyAgrees'
  <2>1. t \in Threads /\ at[t] \in PlacesOf(t)
    BY ThreadFacts DEF DashboardTypes
  <2>2. UNCHANGED <<mode, tenancy, seenGrant>> /\ holds'.reconcile \in {holds.reconcile, "none"}
    BY <1>5 DEF InsertStatus, Leave, DashboardTypes, beyond, deliveryVars, tenancyVars, actionVars, screen
  <2>3. /\ \A u \in Threads : u # t => at'[u] = at[u] /\ got'[u] = got[u]
        /\ at'[t] # "persist" /\ at[t] # "reconcile"
    BY <1>5, <2>1, ThreadFacts DEF InsertStatus, Go, Leave, DashboardTypes, Accepted, PlacesOf, JobPlaces, RequestPlaces, PollPlaces, WebhookEvents
  <2>4. serving' => serving \/ t = "poll"
    BY <1>5 DEF InsertStatus, Leave, beyond, deliveryVars, tenancyVars, actionVars, screen
  <2> QED
    BY <2>1, <2>2, <2>3, <2>4, ThreadFacts DEF TenancyAgrees, Hosted
<1>6. ASSUME NEW t \in Threads, Publish(t) PROVE TenancyAgrees'
  <2>1. t \in Threads /\ at[t] \in PlacesOf(t)
    BY ThreadFacts DEF DashboardTypes
  <2>2. UNCHANGED <<mode, tenancy, seenGrant>> /\ holds'.reconcile \in {holds.reconcile, "none"}
    BY <1>6 DEF Publish, Leave, DashboardTypes, beyond, deliveryVars, tenancyVars, actionVars, screen
  <2>3. /\ \A u \in Threads : u # t => at'[u] = at[u] /\ got'[u] = got[u]
        /\ at'[t] # "persist" /\ at[t] # "reconcile"
    BY <1>6, <2>1, ThreadFacts DEF Publish, Go, Leave, DashboardTypes, Accepted, PlacesOf, JobPlaces, RequestPlaces, PollPlaces, WebhookEvents
  <2>4. serving' => serving \/ t = "poll"
    BY <1>6 DEF Publish, Leave, beyond, deliveryVars, tenancyVars, actionVars, screen
  <2> QED
    BY <2>1, <2>2, <2>3, <2>4, ThreadFacts DEF TenancyAgrees, Hosted
<1>7. ASSUME NEW t \in Threads, QuarantinePending(t) PROVE TenancyAgrees'
  <2>1. tenancy' = "quarantined" /\ UNCHANGED <<seenGrant, got>> /\ \A u \in Threads : at'[u] = "persist" => at[u] = "persist"
    BY <1>7 DEF QuarantinePending, Go, DashboardTypes
  <2> QED
    BY <2>1 DEF TenancyAgrees
<1>8. ASSUME NEW t \in Threads, Observe(t) PROVE TenancyAgrees'
  <2>1. holds.reconcile = t /\ tenancy = "quarantined" /\ UNCHANGED <<holds, tenancy>>
    BY <1>8, ThreadFacts DEF Observe, LocksAgree, HasReconcile, TenancyAgrees
  <2>2. \A u \in Threads : u # t => at'[u] = at[u] /\ at[u] # "persist"
    BY <1>8, <2>1 DEF Observe, Go, DashboardTypes, LocksAgree, HasReconcile
  <2>3. got'[t].grant = seenGrant'
    BY <1>8 DEF Observe, DashboardTypes, Gotten
  <2> QED
    BY <2>1, <2>2, <2>3 DEF TenancyAgrees
<1>9. ASSUME NEW t \in Threads, PersistTenancy(t) PROVE TenancyAgrees'
  <2>1. /\ holds.reconcile = t /\ tenancy = "quarantined" /\ got[t].grant = seenGrant
        /\ UNCHANGED seenGrant /\ holds'.reconcile = "none"
    BY <1>9, ThreadFacts DEF PersistTenancy, LocksAgree, HasReconcile, TenancyAgrees, Leave, DashboardTypes
  <2>2. tenancy' = "active" => seenGrant = "active"
    BY <1>9, <2>1 DEF PersistTenancy, ReconcileTenancy
  <2>3. \A u \in Threads : at'[u] # "persist"
    BY <1>9, <2>1 DEF PersistTenancy, Go, Leave, DashboardTypes, LocksAgree, HasReconcile
  <2> QED
    BY <2>1, <2>2, <2>3 DEF TenancyAgrees
<1>10. ASSUME NEW t \in Threads, RouteWebhook(t) PROVE TenancyAgrees'
  <2>1. t \in Threads /\ at[t] \in PlacesOf(t)
    BY ThreadFacts DEF DashboardTypes
  <2>2. UNCHANGED <<mode, tenancy, seenGrant>> /\ holds'.reconcile \in {holds.reconcile, "none"}
    BY <1>10 DEF RouteWebhook, Leave, DashboardTypes, beyond, deliveryVars, tenancyVars, actionVars, screen
  <2>3. /\ \A u \in Threads : u # t => at'[u] = at[u] /\ got'[u] = got[u]
        /\ at'[t] # "persist" /\ at[t] # "reconcile"
    BY <1>10, <2>1, ThreadFacts DEF RouteWebhook, Go, Leave, DashboardTypes, Accepted, PlacesOf, JobPlaces, RequestPlaces, PollPlaces, WebhookEvents
  <2>4. serving' => serving \/ t = "poll"
    BY <1>10 DEF RouteWebhook, Leave, beyond, deliveryVars, tenancyVars, actionVars, screen
  <2> QED
    BY <2>1, <2>2, <2>3, <2>4, ThreadFacts DEF TenancyAgrees, Hosted
<1>11. ASSUME NEW t \in Threads, DraftSync(t) PROVE TenancyAgrees'
  <2>1. t \in Threads /\ at[t] \in PlacesOf(t)
    BY ThreadFacts DEF DashboardTypes
  <2>2. UNCHANGED <<mode, tenancy, seenGrant>> /\ holds'.reconcile \in {holds.reconcile, "none"}
    BY <1>11 DEF DraftSync, Leave, DashboardTypes, beyond, deliveryVars, tenancyVars, actionVars, screen
  <2>3. /\ \A u \in Threads : u # t => at'[u] = at[u] /\ got'[u] = got[u]
        /\ at'[t] # "persist" /\ at[t] # "reconcile"
    BY <1>11, <2>1, ThreadFacts DEF DraftSync, Go, Leave, DashboardTypes, Accepted, PlacesOf, JobPlaces, RequestPlaces, PollPlaces, WebhookEvents
  <2>4. serving' => serving \/ t = "poll"
    BY <1>11 DEF DraftSync, Leave, beyond, deliveryVars, tenancyVars, actionVars, screen
  <2> QED
    BY <2>1, <2>2, <2>3, <2>4, ThreadFacts DEF TenancyAgrees, Hosted
<1>12. ASSUME NEW t \in Threads, EnqueueActionJob(t) PROVE TenancyAgrees'
  <2>1. at[t] \in {"enqueue", "enqueue_sync"} /\ at[t] \in PlacesOf(t) /\ t # "poll"
    BY <1>12, ThreadFacts DEF EnqueueActionJob, DashboardTypes, PlacesOf, JobPlaces, RequestPlaces, PollPlaces, WebhookEvents
  <2>2. UNCHANGED <<mode, tenancy, seenGrant>> /\ holds'.reconcile \in {holds.reconcile, "none"} /\ serving' = serving
    BY <1>12, <2>1 DEF EnqueueActionJob, Leave, DashboardTypes, beyond, deliveryVars, tenancyVars, actionVars, screen
  <2>3. \A u \in Threads : /\ at'[u] = "persist" => at[u] = "persist" /\ got'[u] = got[u]
                           /\ at[u] = "reconcile" => at'[u] = "reconcile"
    <3>1. CASE Leave(t) \/ (Go(t, "owe") /\ UNCHANGED got)
      BY <2>1, <3>1 DEF Go, Leave, DashboardTypes
    <3>2. ASSUME NEW j \in Jobs, at[j] = "idle",
                 at' = [at EXCEPT ![j] = "queued", ![t] = IF t \in Jobs THEN "ended" ELSE "idle"],
                 got' = [got EXCEPT ![t] = Nothing]
          PROVE  \A u \in Threads : /\ at'[u] = "persist" => at[u] = "persist" /\ got'[u] = got[u]
                                    /\ at[u] = "reconcile" => at'[u] = "reconcile"
      BY <2>1, <3>2, ThreadFacts DEF DashboardTypes
    <3> QED
      BY <1>12, <3>1, <3>2 DEF EnqueueActionJob
  <2> QED
    BY <2>1, <2>2, <2>3, ThreadFacts DEF TenancyAgrees, Hosted
<1>13. ASSUME NEW t \in Threads, OweSync(t) PROVE TenancyAgrees'
  <2>1. t \in Threads /\ at[t] \in PlacesOf(t)
    BY ThreadFacts DEF DashboardTypes
  <2>2. UNCHANGED <<mode, tenancy, seenGrant>> /\ holds'.reconcile \in {holds.reconcile, "none"}
    BY <1>13 DEF OweSync, Leave, DashboardTypes, beyond, deliveryVars, tenancyVars, actionVars, screen
  <2>3. /\ \A u \in Threads : u # t => at'[u] = at[u] /\ got'[u] = got[u]
        /\ at'[t] # "persist" /\ at[t] # "reconcile"
    BY <1>13, <2>1, ThreadFacts DEF OweSync, Go, Leave, DashboardTypes, Accepted, PlacesOf, JobPlaces, RequestPlaces, PollPlaces, WebhookEvents
  <2>4. serving' => serving \/ t = "poll"
    BY <1>13 DEF OweSync, Leave, beyond, deliveryVars, tenancyVars, actionVars, screen
  <2> QED
    BY <2>1, <2>2, <2>3, <2>4, ThreadFacts DEF TenancyAgrees, Hosted
<1>14. ASSUME NEW j \in Jobs, TakeActionLock(j) PROVE TenancyAgrees'
  <2>1. j \in Threads /\ at[j] \in PlacesOf(j)
    BY ThreadFacts DEF DashboardTypes
  <2>2. UNCHANGED <<mode, tenancy, seenGrant>> /\ holds'.reconcile \in {holds.reconcile, "none"}
    BY <1>14 DEF TakeActionLock, Leave, DashboardTypes, beyond, deliveryVars, tenancyVars, actionVars, screen
  <2>3. /\ \A u \in Threads : u # j => at'[u] = at[u] /\ got'[u] = got[u]
        /\ at'[j] # "persist" /\ at[j] # "reconcile"
    BY <1>14, <2>1, ThreadFacts DEF TakeActionLock, Go, Leave, DashboardTypes, Accepted, PlacesOf, JobPlaces, RequestPlaces, PollPlaces, WebhookEvents
  <2>4. serving' => serving \/ j = "poll"
    BY <1>14 DEF TakeActionLock, Leave, beyond, deliveryVars, tenancyVars, actionVars, screen
  <2> QED
    BY <2>1, <2>2, <2>3, <2>4, ThreadFacts DEF TenancyAgrees, Hosted
<1>15. ASSUME NEW j \in Jobs, FreshActionAuthority(j) PROVE TenancyAgrees'
  <2>1. j \in Threads /\ at[j] \in PlacesOf(j)
    BY ThreadFacts DEF DashboardTypes
  <2>2. UNCHANGED <<mode, tenancy, seenGrant>> /\ holds'.reconcile \in {holds.reconcile, "none"}
    BY <1>15 DEF FreshActionAuthority, Leave, DashboardTypes, beyond, deliveryVars, tenancyVars, actionVars, screen
  <2>3. /\ \A u \in Threads : u # j => at'[u] = at[u] /\ got'[u] = got[u]
        /\ at'[j] # "persist" /\ at[j] # "reconcile"
    BY <1>15, <2>1, ThreadFacts DEF FreshActionAuthority, Go, Leave, DashboardTypes, Accepted, PlacesOf, JobPlaces, RequestPlaces, PollPlaces, WebhookEvents
  <2>4. serving' => serving \/ j = "poll"
    BY <1>15 DEF FreshActionAuthority, Leave, beyond, deliveryVars, tenancyVars, actionVars, screen
  <2> QED
    BY <2>1, <2>2, <2>3, <2>4, ThreadFacts DEF TenancyAgrees, Hosted
<1>16. ASSUME NEW j \in Jobs, ValidateAction(j) PROVE TenancyAgrees'
  <2>1. j \in Threads /\ at[j] \in PlacesOf(j)
    BY ThreadFacts DEF DashboardTypes
  <2>2. UNCHANGED <<mode, tenancy, seenGrant>> /\ holds'.reconcile \in {holds.reconcile, "none"}
    BY <1>16 DEF ValidateAction, Leave, DashboardTypes, beyond, deliveryVars, tenancyVars, actionVars, screen
  <2>3. /\ \A u \in Threads : u # j => at'[u] = at[u] /\ got'[u] = got[u]
        /\ at'[j] # "persist" /\ at[j] # "reconcile"
    BY <1>16, <2>1, ThreadFacts DEF ValidateAction, Go, Leave, DashboardTypes, Accepted, PlacesOf, JobPlaces, RequestPlaces, PollPlaces, WebhookEvents
  <2>4. serving' => serving \/ j = "poll"
    BY <1>16 DEF ValidateAction, Leave, beyond, deliveryVars, tenancyVars, actionVars, screen
  <2> QED
    BY <2>1, <2>2, <2>3, <2>4, ThreadFacts DEF TenancyAgrees, Hosted
<1>17. ASSUME NEW j \in Jobs, RunAction(j) PROVE TenancyAgrees'
  <2>1. j \in Threads /\ at[j] \in PlacesOf(j)
    BY ThreadFacts DEF DashboardTypes
  <2>2. UNCHANGED <<mode, tenancy, seenGrant>> /\ holds'.reconcile \in {holds.reconcile, "none"}
    BY <1>17 DEF RunAction, Leave, DashboardTypes, beyond, deliveryVars, tenancyVars, actionVars, screen
  <2>3. /\ \A u \in Threads : u # j => at'[u] = at[u] /\ got'[u] = got[u]
        /\ at'[j] # "persist" /\ at[j] # "reconcile"
    BY <1>17, <2>1, ThreadFacts DEF RunAction, Go, Leave, DashboardTypes, Accepted, PlacesOf, JobPlaces, RequestPlaces, PollPlaces, WebhookEvents
  <2>4. serving' => serving \/ j = "poll"
    BY <1>17 DEF RunAction, Leave, beyond, deliveryVars, tenancyVars, actionVars, screen
  <2> QED
    BY <2>1, <2>2, <2>3, <2>4, ThreadFacts DEF TenancyAgrees, Hosted
<1>18. ASSUME NEW j \in Jobs, FinishJob(j) PROVE TenancyAgrees'
  <2>1. j \in Threads /\ at[j] \in PlacesOf(j)
    BY ThreadFacts DEF DashboardTypes
  <2>2. UNCHANGED <<mode, tenancy, seenGrant>> /\ holds'.reconcile \in {holds.reconcile, "none"}
    BY <1>18 DEF FinishJob, Leave, DashboardTypes, beyond, deliveryVars, tenancyVars, actionVars, screen
  <2>3. /\ \A u \in Threads : u # j => at'[u] = at[u] /\ got'[u] = got[u]
        /\ at'[j] # "persist" /\ at[j] # "reconcile"
    BY <1>18, <2>1, ThreadFacts DEF FinishJob, Go, Leave, DashboardTypes, Accepted, PlacesOf, JobPlaces, RequestPlaces, PollPlaces, WebhookEvents
  <2>4. serving' => serving \/ j = "poll"
    BY <1>18 DEF FinishJob, Leave, beyond, deliveryVars, tenancyVars, actionVars, screen
  <2> QED
    BY <2>1, <2>2, <2>3, <2>4, ThreadFacts DEF TenancyAgrees, Hosted
<1>19. ASSUME NEW j \in Jobs, SwapOwed(j) PROVE TenancyAgrees'
  <2>1. j \in Threads /\ at[j] \in PlacesOf(j)
    BY ThreadFacts DEF DashboardTypes
  <2>2. UNCHANGED <<mode, tenancy, seenGrant>> /\ holds'.reconcile \in {holds.reconcile, "none"}
    BY <1>19 DEF SwapOwed, Leave, DashboardTypes, beyond, deliveryVars, tenancyVars, actionVars, screen
  <2>3. /\ \A u \in Threads : u # j => at'[u] = at[u] /\ got'[u] = got[u]
        /\ at'[j] # "persist" /\ at[j] # "reconcile"
    BY <1>19, <2>1, ThreadFacts DEF SwapOwed, Go, Leave, DashboardTypes, Accepted, PlacesOf, JobPlaces, RequestPlaces, PollPlaces, WebhookEvents
  <2>4. serving' => serving \/ j = "poll"
    BY <1>19 DEF SwapOwed, Leave, beyond, deliveryVars, tenancyVars, actionVars, screen
  <2> QED
    BY <2>1, <2>2, <2>3, <2>4, ThreadFacts DEF TenancyAgrees, Hosted
<1>20. ASSUME NEW r \in Requests, HandleRefresh(r) PROVE TenancyAgrees'
  <2>1. r \in Threads /\ at[r] \in PlacesOf(r)
    BY ThreadFacts DEF DashboardTypes
  <2>2. UNCHANGED <<mode, tenancy, seenGrant>> /\ holds'.reconcile \in {holds.reconcile, "none"}
    BY <1>20 DEF HandleRefresh, Leave, DashboardTypes, beyond, deliveryVars, tenancyVars, actionVars, screen
  <2>3. /\ \A u \in Threads : u # r => at'[u] = at[u] /\ got'[u] = got[u]
        /\ at'[r] # "persist" /\ at[r] # "reconcile"
    BY <1>20, <2>1, ThreadFacts DEF HandleRefresh, Go, Leave, DashboardTypes, Accepted, PlacesOf, JobPlaces, RequestPlaces, PollPlaces, WebhookEvents
  <2>4. serving' => serving \/ r = "poll"
    BY <1>20 DEF HandleRefresh, Leave, beyond, deliveryVars, tenancyVars, actionVars, screen
  <2> QED
    BY <2>1, <2>2, <2>3, <2>4, ThreadFacts DEF TenancyAgrees, Hosted
<1>21. ASSUME NEW r \in Requests, HandleAction(r) PROVE TenancyAgrees'
  <2>1. r \in Threads /\ at[r] \in PlacesOf(r)
    BY ThreadFacts DEF DashboardTypes
  <2>2. UNCHANGED <<mode, tenancy, seenGrant>> /\ holds'.reconcile \in {holds.reconcile, "none"}
    BY <1>21 DEF HandleAction, Leave, DashboardTypes, beyond, deliveryVars, tenancyVars, actionVars, screen
  <2>3. /\ \A u \in Threads : u # r => at'[u] = at[u] /\ got'[u] = got[u]
        /\ at'[r] # "persist" /\ at[r] # "reconcile"
    BY <1>21, <2>1, ThreadFacts DEF HandleAction, Go, Leave, DashboardTypes, Accepted, PlacesOf, JobPlaces, RequestPlaces, PollPlaces, WebhookEvents
  <2>4. serving' => serving \/ r = "poll"
    BY <1>21 DEF HandleAction, Leave, beyond, deliveryVars, tenancyVars, actionVars, screen
  <2> QED
    BY <2>1, <2>2, <2>3, <2>4, ThreadFacts DEF TenancyAgrees, Hosted
<1>22. ASSUME NEW r \in Requests, RecordWebhookDelivery(r) PROVE TenancyAgrees'
  <2>1. r \in Threads /\ at[r] \in PlacesOf(r)
    BY ThreadFacts DEF DashboardTypes
  <2>2. UNCHANGED <<mode, tenancy, seenGrant>> /\ holds'.reconcile \in {holds.reconcile, "none"}
    BY <1>22 DEF RecordWebhookDelivery, Leave, DashboardTypes, beyond, deliveryVars, tenancyVars, actionVars, screen
  <2>3. /\ \A u \in Threads : u # r => at'[u] = at[u] /\ got'[u] = got[u]
        /\ at'[r] # "persist" /\ at[r] # "reconcile"
    BY <1>22, <2>1, ThreadFacts DEF RecordWebhookDelivery, Go, Leave, DashboardTypes, Accepted, PlacesOf, JobPlaces, RequestPlaces, PollPlaces, WebhookEvents, deliveryVars
  <2>4. serving' => serving \/ r = "poll"
    BY <1>22 DEF RecordWebhookDelivery, Leave, beyond, deliveryVars, tenancyVars, actionVars, screen
  <2> QED
    BY <2>1, <2>2, <2>3, <2>4, ThreadFacts DEF TenancyAgrees, Hosted
<1>23. CASE PollerWakes
  <2>1. "poll" \in Threads /\ at["poll"] \in PlacesOf("poll")
    BY ThreadFacts DEF DashboardTypes
  <2>2. UNCHANGED <<mode, tenancy, seenGrant>> /\ holds'.reconcile \in {holds.reconcile, "none"}
    BY <1>23 DEF PollerWakes, Leave, DashboardTypes, beyond, deliveryVars, tenancyVars, actionVars, screen
  <2>3. /\ \A u \in Threads : u # "poll" => at'[u] = at[u] /\ got'[u] = got[u]
        /\ at'["poll"] # "persist" /\ at["poll"] # "reconcile"
    BY <1>23, <2>1, ThreadFacts DEF PollerWakes, Go, Leave, DashboardTypes, Accepted, PlacesOf, JobPlaces, RequestPlaces, PollPlaces, WebhookEvents, RefreshAll
  <2>4. serving' => serving \/ "poll" = "poll"
    BY <1>23 DEF PollerWakes, Leave, beyond, deliveryVars, tenancyVars, actionVars, screen
  <2> QED
    BY <2>1, <2>2, <2>3, <2>4, ThreadFacts DEF TenancyAgrees, Hosted
<1>24. CASE ViewState
  BY <1>24 DEF ViewState, TenancyAgrees, Hosted, beyond, deliveryVars, tenancyVars, actionVars, screen
<1>25. CASE FactsChange
  BY <1>25 DEF FactsChange, TenancyAgrees, Hosted, beyond, deliveryVars, tenancyVars, actionVars, screen
<1>26. CASE GrantChanges
  BY <1>26 DEF GrantChanges, TenancyAgrees, Hosted, beyond, deliveryVars, tenancyVars, actionVars, screen
<1>27. CASE CacheExpires
  BY <1>27 DEF CacheExpires, TenancyAgrees, Hosted, beyond, deliveryVars, tenancyVars, actionVars, screen
<1>28. CASE Restart
  <2>1. holds'.reconcile = "none" /\ serving' = FALSE /\ (Hosted => at'["poll"] = "reconcile") /\ UNCHANGED mode
    BY <1>28, ThreadFacts DEF Restart, Started, Unlocked, RefreshAll
  <2>2. \A t \in Threads : at'[t] # "persist"
    BY <1>28, ThreadFacts DEF Restart, Started, RefreshAll
  <2> QED
    BY <2>1, <2>2 DEF TenancyAgrees, Hosted
<1> QED
  BY <1>1, <1>2, <1>3, <1>4, <1>5, <1>6, <1>7, <1>8, <1>9, <1>10, <1>11, <1>12, <1>13, <1>14,
     <1>15, <1>16, <1>17, <1>18, <1>19, <1>20, <1>21, <1>22, <1>23, <1>24, <1>25, <1>26, <1>27, <1>28
  DEF DashboardNext, ThreadStep, RefreshStep, TenancyStep, RequestStep, JobStep

\* What remembering and writing a delivery leaves.
LEMMA LogShapes ==
  ASSUME DeliveriesAgree, NEW d \in Deliveries
  PROVE  /\ Remembered(d) \in Seq(Deliveries) /\ Len(Remembered(d)) <= MaxLogged /\ d \in ToSet(Remembered(d))
         /\ LogWritten(d) \in Seq(Deliveries) /\ Len(LogWritten(d)) <= Len(Remembered(d)) /\ d \in ToSet(LogWritten(d))
         /\ \A log \in LogTorn(d) : log \in Seq(Deliveries) /\ Len(log) <= Len(Remembered(d))
<1>1. MaxLogged \in Nat /\ MaxLogged > 0 /\ known \in Seq(Deliveries) /\ Len(known) \in Nat /\ Len(known) <= MaxLogged
  BY DashboardBounds DEF DeliveriesAgree
<1>2. ASSUME NEW s \in Seq(Deliveries)
      PROVE  Append(s, d) \in Seq(Deliveries) /\ Len(Append(s, d)) = Len(s) + 1 /\ d \in ToSet(Append(s, d))
  BY DEF ToSet
<1>3. CASE Len(known) < MaxLogged
  <2>1. ~Rewrites /\ Remembered(d) = Append(known, d) /\ LogWritten(d) = Append(logged, d) /\ LogTorn(d) = {logged}
    BY <1>1, <1>2, <1>3 DEF Rewrites, Remembered, LogWritten, LogTorn
  <2> QED
    BY <1>1, <1>2, <1>3, <2>1 DEF DeliveriesAgree
<1>4. CASE Len(known) = MaxLogged
  <2> DEFINE all == Append(known, d)
  <2>1. all \in Seq(Deliveries) /\ Len(all) = MaxLogged + 1 /\ all[MaxLogged + 1] = d
    BY <1>1, <1>4
  <2>2. Tail(all) \in Seq(Deliveries) /\ Len(Tail(all)) = MaxLogged /\ Tail(all)[MaxLogged] = d
    <3> HIDE DEF all
    <3> QED
      BY <1>1, <2>1
  <2>3. Remembered(d) = Tail(all)
    BY <1>1, <2>1 DEF Remembered
  <2>4. /\ Rewrites /\ LogWritten(d) = Remembered(d)
        /\ LogTorn(d) = {SubSeq(Remembered(d), 1, k) : k \in 0..(MaxLogged - 1)}
    BY <1>1, <1>4 DEF Rewrites, LogWritten, LogTorn
  <2>5. Remembered(d) \in Seq(Deliveries) /\ Len(Remembered(d)) = MaxLogged /\ d \in ToSet(Remembered(d))
    BY <1>1, <2>2, <2>3 DEF ToSet
  <2>6. ASSUME NEW k \in 0..(MaxLogged - 1)
        PROVE  SubSeq(Remembered(d), 1, k) \in Seq(Deliveries) /\ Len(SubSeq(Remembered(d), 1, k)) <= MaxLogged
    <3>1. \A i \in 1..k : Remembered(d)[i] \in Deliveries
      BY <1>1, <2>5
    <3> QED
      BY <1>1, <2>5, <3>1
  <2> QED
    BY <1>1, <2>4, <2>5, <2>6
<1> QED
  BY <1>1, <1>3, <1>4

\* A delivery that was acted on is recognised while it is not pushed out.
LEMMA DeliveriesStep ==
  ASSUME DashboardTypes, DeliveriesAgree, DashboardNext
  PROVE  DeliveriesAgree'
<1>1. ASSUME NEW t \in Threads, AskRefresh(t) PROVE DeliveriesAgree'
  BY <1>1 DEF AskRefresh, DeliveriesAgree, DeliveredOnce, beyond, deliveryVars, tenancyVars, actionVars, screen
<1>2. ASSUME NEW t \in Threads, TakeRefreshLock(t) PROVE DeliveriesAgree'
  BY <1>2 DEF TakeRefreshLock, DeliveriesAgree, DeliveredOnce, beyond, deliveryVars, tenancyVars, actionVars, screen
<1>3. ASSUME NEW t \in Threads, CacheHit(t) PROVE DeliveriesAgree'
  BY <1>3 DEF CacheHit, DeliveriesAgree, DeliveredOnce, beyond, deliveryVars, tenancyVars, actionVars, screen
<1>4. ASSUME NEW t \in Threads, ReadStatus(t) PROVE DeliveriesAgree'
  BY <1>4 DEF ReadStatus, DeliveriesAgree, DeliveredOnce, beyond, deliveryVars, tenancyVars, actionVars, screen
<1>5. ASSUME NEW t \in Threads, InsertStatus(t) PROVE DeliveriesAgree'
  BY <1>5 DEF InsertStatus, DeliveriesAgree, DeliveredOnce, beyond, deliveryVars, tenancyVars, actionVars, screen
<1>6. ASSUME NEW t \in Threads, Publish(t) PROVE DeliveriesAgree'
  BY <1>6 DEF Publish, DeliveriesAgree, DeliveredOnce, beyond, deliveryVars, tenancyVars, actionVars, screen
<1>7. ASSUME NEW t \in Threads, QuarantinePending(t) PROVE DeliveriesAgree'
  BY <1>7 DEF QuarantinePending, DeliveriesAgree, DeliveredOnce, beyond, deliveryVars, tenancyVars, actionVars, screen
<1>8. ASSUME NEW t \in Threads, Observe(t) PROVE DeliveriesAgree'
  BY <1>8 DEF Observe, DeliveriesAgree, DeliveredOnce, beyond, deliveryVars, tenancyVars, actionVars, screen
<1>9. ASSUME NEW t \in Threads, PersistTenancy(t) PROVE DeliveriesAgree'
  BY <1>9 DEF PersistTenancy, DeliveriesAgree, DeliveredOnce, beyond, deliveryVars, tenancyVars, actionVars, screen
<1>10. ASSUME NEW t \in Threads, RouteWebhook(t) PROVE DeliveriesAgree'
  BY <1>10 DEF RouteWebhook, DeliveriesAgree, DeliveredOnce, beyond, deliveryVars, tenancyVars, actionVars, screen
<1>11. ASSUME NEW t \in Threads, DraftSync(t) PROVE DeliveriesAgree'
  BY <1>11 DEF DraftSync, DeliveriesAgree, DeliveredOnce, beyond, deliveryVars, tenancyVars, actionVars, screen
<1>12. ASSUME NEW t \in Threads, EnqueueActionJob(t) PROVE DeliveriesAgree'
  BY <1>12 DEF EnqueueActionJob, DeliveriesAgree, DeliveredOnce, beyond, deliveryVars, tenancyVars, actionVars, screen
<1>13. ASSUME NEW t \in Threads, OweSync(t) PROVE DeliveriesAgree'
  BY <1>13 DEF OweSync, DeliveriesAgree, DeliveredOnce, beyond, deliveryVars, tenancyVars, actionVars, screen
<1>14. ASSUME NEW j \in Jobs, TakeActionLock(j) PROVE DeliveriesAgree'
  BY <1>14 DEF TakeActionLock, DeliveriesAgree, DeliveredOnce, beyond, deliveryVars, tenancyVars, actionVars, screen
<1>15. ASSUME NEW j \in Jobs, FreshActionAuthority(j) PROVE DeliveriesAgree'
  BY <1>15 DEF FreshActionAuthority, DeliveriesAgree, DeliveredOnce, beyond, deliveryVars, tenancyVars, actionVars, screen
<1>16. ASSUME NEW j \in Jobs, ValidateAction(j) PROVE DeliveriesAgree'
  BY <1>16 DEF ValidateAction, DeliveriesAgree, DeliveredOnce, beyond, deliveryVars, tenancyVars, actionVars, screen
<1>17. ASSUME NEW j \in Jobs, RunAction(j) PROVE DeliveriesAgree'
  BY <1>17 DEF RunAction, DeliveriesAgree, DeliveredOnce, beyond, deliveryVars, tenancyVars, actionVars, screen
<1>18. ASSUME NEW j \in Jobs, FinishJob(j) PROVE DeliveriesAgree'
  BY <1>18 DEF FinishJob, DeliveriesAgree, DeliveredOnce, beyond, deliveryVars, tenancyVars, actionVars, screen
<1>19. ASSUME NEW j \in Jobs, SwapOwed(j) PROVE DeliveriesAgree'
  BY <1>19 DEF SwapOwed, DeliveriesAgree, DeliveredOnce, beyond, deliveryVars, tenancyVars, actionVars, screen
<1>20. ASSUME NEW r \in Requests, HandleRefresh(r) PROVE DeliveriesAgree'
  BY <1>20 DEF HandleRefresh, DeliveriesAgree, DeliveredOnce, beyond, deliveryVars, tenancyVars, actionVars, screen
<1>21. ASSUME NEW r \in Requests, HandleAction(r) PROVE DeliveriesAgree'
  BY <1>21 DEF HandleAction, DeliveriesAgree, DeliveredOnce, beyond, deliveryVars, tenancyVars, actionVars, screen
<1>22. ASSUME NEW r \in Requests, RecordWebhookDelivery(r) PROVE DeliveriesAgree'
  <2>1. PICK d \in Deliveries :
           \/ UNCHANGED deliveryVars
           \/ /\ ~Contains(known, d) /\ known' = Remembered(d)
              /\ \/ logged' = LogWritten(d) /\ took' = [took EXCEPT ![d] = @ + 1]
                 \/ logged' \in LogTorn(d) /\ UNCHANGED took
              /\ displaced' = displaced \union {e \in Forgotten : took[e] > 0 /\ e # d}
    BY <1>22 DEF RecordWebhookDelivery
  <2>2. CASE UNCHANGED deliveryVars
    BY <2>2 DEF deliveryVars, DeliveriesAgree, DeliveredOnce
  <2>3. ASSUME ~Contains(known, d), known' = Remembered(d),
               \/ logged' = LogWritten(d) /\ took' = [took EXCEPT ![d] = @ + 1]
               \/ logged' \in LogTorn(d) /\ UNCHANGED took,
               displaced' = displaced \union {e \in Forgotten : took[e] > 0 /\ e # d}
        PROVE  DeliveriesAgree'
    <3>1. /\ known' \in Seq(Deliveries) /\ logged' \in Seq(Deliveries)
          /\ Len(logged') <= Len(known') /\ Len(known') <= MaxLogged
          /\ d \in ToSet(known') /\ (logged' = LogWritten(d) => d \in ToSet(logged'))
      BY <2>3, LogShapes DEF DeliveriesAgree
    <3>2. took' \in [Deliveries -> Nat] /\ \A e \in Deliveries : e # d => took'[e] = took[e]
      BY <2>3 DEF DeliveriesAgree
    <3>3. took[d] = 0 \/ d \in displaced
      <4>1. d \notin ToSet(known)
        BY <2>3 DEF Contains, ToSet, DeliveriesAgree
      <4> QED
        BY <4>1 DEF DeliveriesAgree
    <3>4. ASSUME NEW e \in Deliveries, took'[e] > 0, e \notin displaced' PROVE e \in ToSet(known') /\ e \in ToSet(logged')
      <4>1. CASE e = d
        BY <2>3, <3>1, <3>3, <3>4, <4>1 DEF DeliveriesAgree
      <4>2. CASE e # d
        BY <2>3, <3>2, <3>4, <4>2 DEF Forgotten
      <4> QED
        BY <4>1, <4>2
    <3>5. ASSUME NEW e \in Deliveries, took'[e] > 1 PROVE e \in displaced'
      <4>1. CASE e = d
        BY <2>3, <3>3, <3>5, <4>1 DEF DeliveriesAgree, DeliveredOnce
      <4>2. CASE e # d
        BY <2>3, <3>2, <3>5, <4>2 DEF DeliveriesAgree, DeliveredOnce
      <4> QED
        BY <4>1, <4>2
    <3> QED
      BY <3>1, <3>2, <3>4, <3>5 DEF DeliveriesAgree, DeliveredOnce
  <2> QED
    BY <2>1, <2>2, <2>3
<1>23. CASE PollerWakes
  BY <1>23 DEF PollerWakes, DeliveriesAgree, DeliveredOnce, beyond, deliveryVars, tenancyVars, actionVars, screen
<1>24. CASE ViewState
  BY <1>24 DEF ViewState, DeliveriesAgree, DeliveredOnce, beyond, deliveryVars, tenancyVars, actionVars, screen
<1>25. CASE FactsChange
  BY <1>25 DEF FactsChange, DeliveriesAgree, DeliveredOnce, beyond, deliveryVars, tenancyVars, actionVars, screen
<1>26. CASE GrantChanges
  BY <1>26 DEF GrantChanges, DeliveriesAgree, DeliveredOnce, beyond, deliveryVars, tenancyVars, actionVars, screen
<1>27. CASE CacheExpires
  BY <1>27 DEF CacheExpires, DeliveriesAgree, DeliveredOnce, beyond, deliveryVars, tenancyVars, actionVars, screen
<1>28. CASE Restart
  <2>1. known' = logged /\ UNCHANGED <<logged, took, displaced>>
    <3>1. Len(logged) \in Nat /\ MaxLogged \in Nat /\ Len(logged) <= MaxLogged /\ ~(Len(logged) > MaxLogged)
      BY DashboardBounds DEF DeliveriesAgree
    <3>2. known' = SubSeq(logged, 1, Len(logged))
      BY <1>28, <3>1 DEF Restart, Started
    <3> QED
      BY <1>28, <3>2, <3>1 DEF Restart, DeliveriesAgree
  <2> QED
    BY <2>1, DashboardBounds DEF DeliveriesAgree, DeliveredOnce
<1> QED
  BY <1>1, <1>2, <1>3, <1>4, <1>5, <1>6, <1>7, <1>8, <1>9, <1>10, <1>11, <1>12, <1>13, <1>14,
     <1>15, <1>16, <1>17, <1>18, <1>19, <1>20, <1>21, <1>22, <1>23, <1>24, <1>25, <1>26, <1>27, <1>28
  DEF DashboardNext, ThreadStep, RefreshStep, TenancyStep, RequestStep, JobStep

\* A server that starts agrees with itself.
LEMMA DashboardStarts ==
  ASSUME DashboardInit
  PROVE  DashboardInv
<1>1. PICK start \in Starts : mode = start.mode /\ left = start.left
  BY DEF DashboardInit
<1>2. \A t \in Threads : at[t] \in {"idle", "ask", "reconcile"} /\ (t # "poll" => at[t] = "idle")
  BY DEF DashboardInit, RefreshAll
<1>3. DashboardTypes
  <2>1. holds \in [action : Holder, refresh : Holder, reconcile : Holder]
    BY DEF DashboardInit, Unlocked, Holder
  <2>2. at \in [Threads -> JobPlaces \cup RequestPlaces] /\ \A t \in Threads : at[t] \in PlacesOf(t)
    BY <1>2, ThreadFacts DEF DashboardInit, PlacesOf, JobPlaces, RequestPlaces, PollPlaces
  <2>3. jobs \in [Jobs -> ActionJob] /\ got \in [Threads -> Gotten] /\ snap \in SnapshotShape /\ cached \in StatusRead
    BY Blanks DEF DashboardInit
  <2>4. browser \in [life : Nat, seq : Nat, print : PrintShape]
    BY Blanks DEF DashboardInit
  <2>5. facts \in Nat /\ life \in Nat \ {0} /\ writes \in Nat
    BY DEF DashboardInit
  <2>6. serving \in BOOLEAN
    BY DEF DashboardInit
  <2> QED
    BY <2>1, <2>2, <2>3, <2>4, <2>5, <2>6 DEF DashboardTypes
<1>4. LocksAgree
  <2>1. holds.action = "none" /\ holds.refresh = "none" /\ holds.reconcile = "none"
    BY DEF DashboardInit, Unlocked
  <2> QED
    BY <1>2, <2>1, ThreadFacts DEF LocksAgree, HasAction, HasRefresh, HasReconcile
<1>5. PrintsAgree
  BY <1>2, ThreadFacts DEF DashboardInit, PrintsAgree
<1>6. ReadsAgree
  BY <1>2 DEF DashboardInit, NoSnapshot, NoStatus, ReadsAgree
<1>7. TenancyAgrees
  BY <1>2 DEF DashboardInit, Unlocked, LoadTenancy, TenancyAgrees
<1>8. DeliveriesAgree
  BY DashboardBounds DEF DashboardInit, DeliveriesAgree, DeliveredOnce
<1> QED
  BY <1>3, <1>4, <1>5, <1>6, <1>7, <1>8 DEF DashboardInv

\* The server agrees with itself in every state: the inductive invariant of web.rs.
THEOREM DashboardInvariant == DashboardSpec => []DashboardInv
<1>1. DashboardInit => DashboardInv
  BY DashboardStarts
<1>2. DashboardInv /\ [DashboardNext]_dashboardVars => DashboardInv'
  <2> SUFFICES ASSUME DashboardInv, [DashboardNext]_dashboardVars PROVE DashboardInv'
    OBVIOUS
  <2>1. CASE DashboardNext
    BY <2>1, TypesStep, LocksStep, PrintsStep, ReadsStep, TenancyStepAgrees, DeliveriesStep DEF DashboardInv
  <2>2. CASE UNCHANGED dashboardVars
    <3>1. DashboardTypes' /\ LocksAgree'
      BY <2>2 DEF dashboardVars, DashboardInv, DashboardTypes, LocksAgree, HasAction, HasRefresh, HasReconcile
    <3>2. PrintsAgree'
      BY <2>2 DEF dashboardVars, DashboardInv, PrintsAgree, JobSound, SeenAt, Fingerprint
    <3>3. ReadsAgree' /\ TenancyAgrees'
      BY <2>2 DEF dashboardVars, DashboardInv, ReadsAgree, Settling, TenancyAgrees, Hosted
    <3>4. DeliveriesAgree'
      BY <2>2 DEF dashboardVars, DashboardInv, DeliveriesAgree, DeliveredOnce
    <3> QED
      BY <3>1, <3>2, <3>3, <3>4 DEF DashboardInv
  <2> QED
    BY <2>1, <2>2
<1> QED
  BY <1>1, <1>2, PTL DEF DashboardSpec

\* The promises of `cara web`: one action at a time and on what its submitter saw, no
\* circular wait, nothing shown that is older than the last action, no hosted write on
\* access that was not observed, and no delivery acted on twice.
THEOREM DashboardIsSound == DashboardSpec => []DashboardSound
<1>1. DashboardInv => DashboardSound
  <2> SUFFICES ASSUME DashboardInv PROVE DashboardSound
    OBVIOUS
  <2>1. ActionFenced
    <3> SUFFICES ASSUME NEW j \in Jobs, at[j] = "operate"
                 PROVE  /\ InFlight = {j} /\ holds.action = j /\ holds.refresh = j
                        /\ \A t \in Threads : at[t] \notin {"read", "insert", "publish"}
                        /\ Fingerprint = jobs[j].seen
      BY DEF ActionFenced, InFlight
    <3>1. holds.action = j /\ holds.refresh = j
      BY ThreadFacts DEF DashboardInv, LocksAgree, HasAction, HasRefresh
    <3>2. \A k \in Jobs : at[k] = "operate" => k = j
      BY <3>1, ThreadFacts DEF DashboardInv, LocksAgree, HasRefresh
    <3>3. \A t \in Threads : at[t] \notin {"read", "insert", "publish"}
      BY <3>1, ThreadFacts DEF DashboardInv, LocksAgree, HasRefresh
    <3>4. Fingerprint = jobs[j].seen
      BY DEF DashboardInv, PrintsAgree
    <3> QED
      BY <3>1, <3>2, <3>3, <3>4 DEF InFlight
  <2>2. NobodyStuck
    <3>1. ASSUME holds.refresh # "none"
          PROVE  at[holds.refresh] \notin {"wait", "queued", "lock_refresh", "reconcile", "idle", "ended"}
      BY <3>1 DEF DashboardInv, DashboardTypes, Holder, LocksAgree, HasRefresh
    <3>2. ASSUME holds.reconcile # "none"
          PROVE  at[holds.reconcile] \notin {"wait", "queued", "lock_refresh", "reconcile", "idle", "ended"}
      BY <3>2 DEF DashboardInv, DashboardTypes, Holder, LocksAgree, HasReconcile
    <3> QED
      BY <3>1, <3>2 DEF NobodyStuck
  <2>3. SnapshotFollowsAction
    BY DEF DashboardInv, ReadsAgree, SnapshotFollowsAction
  <2>4. TenancyFresh
    BY DEF DashboardInv, TenancyAgrees, TenancyFresh
  <2>5. DeliveredOnce
    BY DEF DashboardInv, DeliveriesAgree
  <2> QED
    BY <2>1, <2>2, <2>3, <2>4, <2>5 DEF DashboardSound
<1> QED
  BY <1>1, DashboardInvariant, PTL

-----------------------------------------------------------------------------
(* The clones of hosted workers.  Whoever builds, publishes, evicts or       *)
(* cleans holds the quota (QuotaAgrees); directories are never given the     *)
(* same number (DirsAgree); a lease names its worker until that worker       *)
(* gives the clone back or dies (JobsAgree).                                 *)

QuotaPlaces == {"ensure", "build", "publish", "sweep", "clean", "remove", "job", "lease", "clone", "verify"}
ClonePlaces == QuotaPlaces \cup {"down", "next", "quota", "serve", "drop"}

RemoteShape == [branch : Nat, head : Nat]
HeadProof == [repo : Repos, branch : Nat, head : Nat]
Given == [id : Nat, proof : HeadProof]
WorkerShape == [at : ClonePlaces, todo : Seq(Slugs), seen : SUBSET Repos, proof : HeadProof \cup {None}, dir : Nat,
                scan : SUBSET Nat, mine : SUBSET Given]
MirrorShape == [id : Nat, key : Repos \X Nat, building : BOOLEAN, branch : Nat, sound : BOOLEAN, old : BOOLEAN]
JobClone == [id : Nat, lease : Workers \cup {"missing", "free"}, old : BOOLEAN, head : Nat]
WorkShape == [lists : SUBSET Seq(Slugs), starts : Nat, kills : Nat, moves : Nat, harm : Nat]

CloneTypes ==
  /\ remote \in [Repos -> RemoteShape] /\ mirrors \subseteq MirrorShape /\ clones \subseteq JobClone
  /\ IsFiniteSet(clones) /\ made \in Nat /\ worker \in [Workers -> WorkerShape]
  /\ work \in WorkShape

QuotaAgrees ==
  \A w \in Workers : /\ quota = w <=> worker[w].at \in QuotaPlaces
                     /\ worker[w].at \in QuotaPlaces \cup {"quota"} => worker[w].proof \in HeadProof

DirsAgree ==
  /\ \A c \in clones : c.id <= made /\ \A d \in clones : c.id = d.id => c = d
  /\ \A c \in mirrors : c.id <= made /\ \A d \in mirrors : c.id = d.id => c = d
  /\ \A w \in Workers : worker[w].dir <= made

\* What worker w may rely on, with the record r it keeps.
JobsOf(w, r) ==
  /\ \A m \in r.mine : \E c \in clones : c.id = m.id /\ c.lease = w /\ c.head = m.proof.head
  /\ \A m, n \in r.mine : m.id = n.id => m = n
  /\ r.at \in {"next", "serve"} => r.dir = 0
  /\ r.at = "lease" => \E c \in clones : c.id = r.dir /\ c.lease = "missing"
  /\ r.at \in {"clone", "verify"} => /\ \E c \in clones : c.id = r.dir /\ c.lease = w
                                     /\ \A m \in r.mine : m.id # r.dir
  /\ r.at = "remove" \/ (r.at = "drop" /\ r.dir # 0) => \A c \in clones : c.id = r.dir => c.lease = "free"
  /\ r.at = "job" => Cardinality(clones) < MaxJobs

JobsAgree == Cardinality(clones) <= MaxJobs /\ \A w \in Workers : JobsOf(w, worker[w])

PublishedMirrors == {m \in mirrors : ~m.building}

MirrorsAgree ==
  /\ \A m \in PublishedMirrors : m.branch = m.key[2] /\ \A n \in PublishedMirrors : m.key = n.key => m = n
  /\ \A w \in Workers : worker[w].at \in {"build", "publish"} =>
                          \A m \in PublishedMirrors : m.key # CacheKey(worker[w].proof)
  /\ \A w \in Workers : worker[w].at = "publish" =>
                          \E m \in mirrors : m.id = worker[w].dir /\ m.building /\ m.key = CacheKey(worker[w].proof)

ClonesInv == CloneTypes /\ QuotaAgrees /\ DirsAgree /\ JobsAgree /\ MirrorsAgree

\* The constants of the module.
LEMMA CloneLimits ==
  /\ {MaxJobs, MaxEntries, MaxBytes} \subseteq Nat \ {0}
  /\ {"free", "missing"} \cap Workers = {}
  /\ Works \subseteq [lists : SUBSET Seq(Slugs), starts : Nat, kills : Nat, moves : Nat, harm : Nat]
BY CloneBounds DEF ValidLimits

\* Worker w changes what it keeps, nobody else does.
WorkerMoves(w) == worker' \in [Workers -> WorkerShape] /\ \A u \in Workers : u # w => worker'[u] = worker[u]

LEMMA SetMoves ==
  ASSUME CloneTypes, NEW w \in Workers, NEW r \in WorkerShape, Set(w, r)
  PROVE  WorkerMoves(w) /\ worker'[w] = r
  BY DEF CloneTypes, Set, WorkerMoves

\* The parts of a worker's record change one by one.
LEMMA RecordUpdates ==
  /\ \A r \in WorkerShape, place \in ClonePlaces : [r EXCEPT !.at = place] \in WorkerShape
  /\ \A r \in WorkerShape, n \in Nat : [r EXCEPT !.dir = n] \in WorkerShape
  /\ \A r \in WorkerShape, list \in Seq(Slugs) : [r EXCEPT !.todo = list] \in WorkerShape
  /\ \A r \in WorkerShape, p \in HeadProof \cup {None} : [r EXCEPT !.proof = p] \in WorkerShape
  /\ \A r \in WorkerShape, S \in SUBSET Nat : [r EXCEPT !.scan = S] \in WorkerShape
  /\ \A r \in WorkerShape, S \in SUBSET Given : [r EXCEPT !.mine = S] \in WorkerShape
  /\ \A r \in WorkerShape, S \in SUBSET Repos : [r EXCEPT !.seen = S] \in WorkerShape
  /\ <<>> \in Seq(Slugs) /\ 0 \in Nat /\ {} \in SUBSET Nat /\ None \in HeadProof \cup {None}
  BY DEF WorkerShape

\* A worker goes somewhere else.
LEMMA EnterMoves ==
  ASSUME CloneTypes, NEW w \in Workers, NEW place \in ClonePlaces, Enter(w, place)
  PROVE  /\ WorkerMoves(w) /\ worker'[w].at = place /\ worker'[w].dir = worker[w].dir /\ worker'[w].mine = worker[w].mine
         /\ worker'[w].proof = worker[w].proof
<1>1. worker[w] \in WorkerShape
  BY DEF CloneTypes
<1>2. [worker[w] EXCEPT !.at = place] \in WorkerShape
  BY <1>1 DEF WorkerShape
<1>3. WorkerMoves(w) /\ worker'[w] = [worker[w] EXCEPT !.at = place]
  BY <1>2, SetMoves DEF Enter
<1> QED
  BY <1>1, <1>3 DEF WorkerShape

\* A worker that fails lets go of the quota and starts to give back what it has.
LEMMA FailMoves ==
  ASSUME CloneTypes, NEW w \in Workers, Fail(w)
  PROVE  /\ WorkerMoves(w) /\ worker'[w].at = "drop" /\ worker'[w].dir = 0 /\ worker'[w].mine = worker[w].mine
         /\ quota' = IF quota = w THEN "free" ELSE quota
<1> DEFINE r == [worker[w] EXCEPT !.at = "drop", !.proof = None, !.dir = 0, !.scan = {}, !.todo = <<>>]
<1>1. worker[w] \in WorkerShape
  BY DEF CloneTypes
<1>2. r \in WorkerShape
  BY <1>1, RecordUpdates DEF ClonePlaces
<1>3. r.at = "drop" /\ r.dir = 0 /\ r.mine = worker[w].mine
  BY <1>1 DEF WorkerShape
<1>4. WorkerMoves(w) /\ worker'[w] = r
  BY <1>2, SetMoves DEF Fail
<1> QED
  BY <1>3, <1>4 DEF Fail

\* The quota is taken, given back or kept with the place that needs it.
LEMMA QuotaMoves ==
  ASSUME QuotaAgrees, NEW w \in Workers, WorkerMoves(w),
         worker'[w].at \in QuotaPlaces \cup {"quota"} => worker'[w].proof \in HeadProof,
         \/ quota' = quota /\ (worker'[w].at \in QuotaPlaces <=> worker[w].at \in QuotaPlaces)
         \/ quota' = (IF quota = w THEN "free" ELSE quota) /\ worker'[w].at \notin QuotaPlaces
         \/ quota = "free" /\ quota' = w /\ worker'[w].at \in QuotaPlaces
  PROVE  QuotaAgrees'
<1>1. "free" \notin Workers
  BY CloneLimits
<1>2. ASSUME NEW u \in Workers
      PROVE  /\ quota' = u <=> worker'[u].at \in QuotaPlaces
             /\ worker'[u].at \in QuotaPlaces \cup {"quota"} => worker'[u].proof \in HeadProof
  <2>1. CASE u = w
    BY <1>1, <2>1 DEF QuotaAgrees
  <2>2. CASE u # w
    BY <1>1, <2>2 DEF QuotaAgrees, WorkerMoves
  <2> QED
    BY <2>1, <2>2
<1> QED
  BY <1>2 DEF QuotaAgrees

\* The clones of the others are left where they are; a number once released stays so.
OthersKept(w) ==
  /\ \A c \in clones : c.lease \in Workers \ {w} => c \in clones'
  /\ \A c \in clones' : \/ c \in clones \/ c.lease = "free" \/ c.id > made
                        \/ \E d \in clones : d.id = c.id /\ d.lease # "free"
  /\ worker[w].at \notin QuotaPlaces => /\ \A c \in clones : c.lease = "missing" => c \in clones'
                                        /\ Cardinality(clones') <= Cardinality(clones)

LEMMA JobsMove ==
  ASSUME ClonesInv, CloneTypes', NEW w \in Workers, WorkerMoves(w), OthersKept(w), Cardinality(clones') <= MaxJobs,
         JobsOf(w, worker[w])'
  PROVE  JobsAgree'
<1>1. ASSUME NEW u \in Workers, u # w PROVE JobsOf(u, worker[u])'
  <2> DEFINE r == worker[u]
  <2>1. worker'[u] = r /\ r \in WorkerShape /\ JobsOf(u, r)
    BY <1>1 DEF WorkerMoves, ClonesInv, JobsAgree, CloneTypes
  <2>2. r.at \in QuotaPlaces => worker[w].at \notin QuotaPlaces
    BY <1>1 DEF ClonesInv, QuotaAgrees
  <2>3. r.dir <= made /\ r.dir \in Nat /\ made \in Nat
    BY <2>1 DEF ClonesInv, DirsAgree, WorkerShape, CloneTypes
  <2>4. \A m \in r.mine : \E c \in clones' : c.id = m.id /\ c.lease = u /\ c.head = m.proof.head
    BY <1>1, <2>1 DEF JobsOf, OthersKept
  <2>5. r.at = "lease" => \E c \in clones' : c.id = r.dir /\ c.lease = "missing"
    BY <1>1, <2>1, <2>2 DEF JobsOf, OthersKept, QuotaPlaces
  <2>6. r.at \in {"clone", "verify"} => \E c \in clones' : c.id = r.dir /\ c.lease = u
    BY <1>1, <2>1 DEF JobsOf, OthersKept
  <2>7. ASSUME r.at = "remove" \/ (r.at = "drop" /\ r.dir # 0), NEW c \in clones', c.id = r.dir PROVE c.lease = "free"
    <3>1. c.id \in Nat /\ ~(c.id > made)
      BY <2>3, <2>7
    <3> QED
      BY <1>1, <2>1, <2>7, <3>1 DEF JobsOf, OthersKept
  <2>8. r.at = "job" => Cardinality(clones') < MaxJobs
    <3>1. Cardinality(clones) \in Nat /\ Cardinality(clones') \in Nat /\ MaxJobs \in Nat
      BY FS_CardinalityType, CloneLimits DEF ClonesInv, CloneTypes
    <3> QED
      BY <2>1, <2>2, <3>1 DEF JobsOf, OthersKept, QuotaPlaces
  <2>9. (\A m, n \in r.mine : m.id = n.id => m = n) /\ (r.at \in {"next", "serve"} => r.dir = 0)
        /\ (r.at \in {"clone", "verify"} => \A m \in r.mine : m.id # r.dir)
    BY <2>1 DEF JobsOf
  <2> QED
    BY <2>1, <2>4, <2>5, <2>6, <2>7, <2>8, <2>9 DEF JobsOf
<1> QED
  BY <1>1 DEF JobsAgree

\* A worker that has just been started.
LEMMA NewWorkerShape == NewWorker \in WorkerShape /\ NewWorker.mine = {} /\ NewWorker.dir = 0 /\ NewWorker.at = "down"
  BY DEF NewWorker, WorkerShape, ClonePlaces

\* What may still happen is counted down.
LEMMA WorkUpdates ==
  ASSUME NEW k \in WorkShape
  PROVE  /\ k.starts > 0 => [k EXCEPT !.starts = @ - 1] \in WorkShape
         /\ k.kills > 0 => [k EXCEPT !.kills = @ - 1] \in WorkShape
         /\ k.moves > 0 => [k EXCEPT !.moves = @ - 1] \in WorkShape
         /\ k.harm > 0 => [k EXCEPT !.harm = @ - 1] \in WorkShape
  BY DEF WorkShape

\* Directories only go.
LEMMA DirsLess ==
  ASSUME ClonesInv, NEW w \in Workers, WorkerMoves(w), clones' \subseteq clones, mirrors' \subseteq mirrors, made' = made,
         worker'[w].dir <= made
  PROVE  DirsAgree'
  BY DEF ClonesInv, DirsAgree, WorkerMoves

\* The published mirrors stay ...
LEMMA MirrorsSame ==
  ASSUME ClonesInv, NEW w \in Workers, WorkerMoves(w), mirrors' = mirrors, worker'[w].at \notin {"build", "publish"}
  PROVE  MirrorsAgree'
<1>1. PublishedMirrors' = PublishedMirrors
  BY DEF PublishedMirrors
<1>2. ASSUME NEW u \in Workers, worker'[u].at \in {"build", "publish"} PROVE worker'[u] = worker[u]
  BY <1>2 DEF WorkerMoves
<1>3. ASSUME NEW u \in Workers, worker'[u].at \in {"build", "publish"}
      PROVE  /\ \A m \in PublishedMirrors' : m.key # CacheKey(worker[u].proof)'
             /\ worker'[u].at = "publish" =>
                  \E m \in mirrors' : m.id = worker'[u].dir /\ m.building /\ m.key = CacheKey(worker[u].proof)'
  <2>1. worker'[u] = worker[u] /\ CacheKey(worker[u].proof)' = CacheKey(worker[u].proof)
    BY <1>2, <1>3 DEF CacheKey
  <2> QED
    BY <1>1, <1>3, <2>1 DEF ClonesInv, MirrorsAgree
<1> QED
  BY <1>1, <1>3 DEF ClonesInv, MirrorsAgree

\* ... or some of them go while nobody builds.
LEMMA MirrorsLess ==
  ASSUME ClonesInv, NEW w \in Workers, WorkerMoves(w), mirrors' \subseteq mirrors, quota \in {w, "free"},
         worker'[w].at \notin {"build", "publish"}
  PROVE  MirrorsAgree'
<1>1. PublishedMirrors' \subseteq PublishedMirrors
  BY DEF PublishedMirrors
<1>2. ASSUME NEW u \in Workers PROVE worker'[u].at \notin {"build", "publish"}
  <2>1. u # w => quota # u
    BY CloneLimits
  <2> QED
    BY <2>1 DEF WorkerMoves, ClonesInv, QuotaAgrees, QuotaPlaces
<1> QED
  BY <1>1, <1>2 DEF ClonesInv, MirrorsAgree

\* The clones stay and a worker goes where it needs none.
LEMMA JobsSame ==
  ASSUME ClonesInv, CloneTypes', NEW w \in Workers, WorkerMoves(w), clones' = clones,
         worker'[w].mine \subseteq worker[w].mine, worker'[w].at \notin {"lease", "clone", "verify", "remove", "job"},
         worker'[w].at \in {"next", "serve", "drop"} => worker'[w].dir = 0
  PROVE  JobsAgree'
<1>1. OthersKept(w)
  <2>1. Cardinality(clones) \in Nat
    BY FS_CardinalityType DEF ClonesInv, CloneTypes
  <2> QED
    BY <2>1 DEF OthersKept
<1>2. Cardinality(clones') <= MaxJobs /\ JobsOf(w, worker[w])
  BY DEF ClonesInv, JobsAgree
<1>3. JobsOf(w, worker[w])'
  BY <1>2 DEF JobsOf
<1> QED
  BY <1>1, <1>2, <1>3, JobsMove

\* Nothing on disk changes.
LEMMA StorageStays ==
  ASSUME ClonesInv, CloneTypes', NEW w \in Workers, WorkerMoves(w), UNCHANGED storage,
         worker'[w].mine \subseteq worker[w].mine,
         worker'[w].at \notin {"lease", "clone", "verify", "remove", "job", "build", "publish"},
         worker'[w].at \in {"next", "serve", "drop"} => worker'[w].dir = 0, worker'[w].dir <= made
  PROVE  DirsAgree' /\ JobsAgree' /\ MirrorsAgree'
  BY DirsLess, MirrorsSame, JobsSame DEF storage

\* The directory with a number, when there is one.
LEMMA DirIs ==
  ASSUME NEW dirs, NEW c \in dirs, \A d \in dirs : d.id = c.id => d = c
  PROVE  Dir(dirs, c.id) = c
  BY DEF Dir

\* One element more is at most one more.
LEMMA OneMore ==
  ASSUME NEW S, NEW x, IsFiniteSet(S)
  PROVE  IsFiniteSet(S \cup {x}) /\ Cardinality(S \cup {x}) <= Cardinality(S) + 1 /\ Cardinality(S) \in Nat
<1> DEFINE n == Cardinality(S \cup {x})
<1>1. Cardinality(S) \in Nat
  BY FS_CardinalityType
<1>2. IsFiniteSet(S \cup {x}) /\ n \in {Cardinality(S), Cardinality(S) + 1}
  BY FS_AddElement, Zenon
<1> HIDE DEF n
<1>3. n <= Cardinality(S) + 1
  BY <1>1, <1>2
<1> QED
  BY <1>1, <1>2, <1>3 DEF n

\* One clone is replaced by another.
LEMMA Replaced ==
  ASSUME IsFiniteSet(clones), NEW d \in clones, NEW c
  PROVE  IsFiniteSet((clones \ {d}) \cup {c}) /\ Cardinality((clones \ {d}) \cup {c}) <= Cardinality(clones)
<1>1. Cardinality(clones) \in Nat
  BY FS_CardinalityType
<1>2. IsFiniteSet(clones \ {d}) /\ Cardinality(clones \ {d}) = Cardinality(clones) - 1
  BY FS_RemoveElement
<1>3. IsFiniteSet((clones \ {d}) \cup {c}) /\ Cardinality((clones \ {d}) \cup {c}) <= Cardinality(clones \ {d}) + 1
  BY <1>2, OneMore
<1> QED
  BY <1>1, <1>2, <1>3

\* Some clones go.
LEMMA Fewer ==
  ASSUME IsFiniteSet(clones), clones' \subseteq clones
  PROVE  IsFiniteSet(clones') /\ Cardinality(clones') <= Cardinality(clones) /\ Cardinality(clones') \in Nat
  BY FS_Subset, FS_CardinalityType

\* Leases change and nothing else.
LEMMA Relabelled ==
  ASSUME IsFiniteSet(clones), NEW f, f = [c \in clones |-> f[c]], clones' = {f[c] : c \in clones}
  PROVE  IsFiniteSet(clones') /\ Cardinality(clones') <= Cardinality(clones)
<1>1. f \in Surjection(clones, clones')
  BY DEF Surjection
<1> QED
  BY <1>1, FS_Surjection

\* A mirror, and what may change of it.
LEMMA MirrorIs ==
  ASSUME NEW i \in Nat, NEW key \in Repos \X Nat, NEW branch \in Nat
  PROVE  [id |-> i, key |-> key, building |-> TRUE, branch |-> branch, sound |-> TRUE, old |-> FALSE] \in MirrorShape
<1>1. \A a, b, c \in BOOLEAN : [id |-> i, key |-> key, building |-> a, branch |-> branch, sound |-> b, old |-> c] \in MirrorShape
  BY SMT DEF MirrorShape
<1> QED
  BY <1>1, Zenon

LEMMA MirrorUpdates ==
  ASSUME NEW m \in MirrorShape
  PROVE  /\ LET n == [m EXCEPT !.building = FALSE] IN
              n \in MirrorShape /\ n.id = m.id /\ n.key = m.key /\ n.branch = m.branch /\ n.building = FALSE
         /\ \A n \in {[m EXCEPT !.old = TRUE], [m EXCEPT !.sound = FALSE]} :
              n \in MirrorShape /\ n.id = m.id /\ n.key = m.key /\ n.branch = m.branch /\ n.building = m.building
<1>1. ASSUME NEW b \in BOOLEAN
      PROVE  /\ LET n == [m EXCEPT !.building = b] IN
                  n \in MirrorShape /\ n.id = m.id /\ n.key = m.key /\ n.branch = m.branch /\ n.building = b
             /\ \A n \in {[m EXCEPT !.old = b], [m EXCEPT !.sound = b]} :
                  n \in MirrorShape /\ n.id = m.id /\ n.key = m.key /\ n.branch = m.branch /\ n.building = m.building
  BY SMT DEF MirrorShape
<1> QED
  BY <1>1, Zenon

\* An error that leaves the directories as they are.
LEMMA FailKeeps ==
  ASSUME ClonesInv, NEW w \in Workers, Fail(w), UNCHANGED <<remote, storage, work>>
  PROVE  ClonesInv'
<1>1. WorkerMoves(w) /\ worker'[w].at = "drop" /\ worker'[w].dir = 0 /\ worker'[w].mine = worker[w].mine
      /\ quota' = IF quota = w THEN "free" ELSE quota
  BY FailMoves DEF ClonesInv
<1>2. CloneTypes'
  BY <1>1 DEF WorkerMoves, ClonesInv, CloneTypes, storage
<1>3. QuotaAgrees'
  BY <1>1, QuotaMoves DEF QuotaPlaces, ClonesInv
<1>4. DirsAgree' /\ JobsAgree' /\ MirrorsAgree'
  BY <1>1, <1>2, StorageStays DEF ClonesInv, CloneTypes
<1> QED
  BY <1>2, <1>3, <1>4 DEF ClonesInv

\* What a worker does before it has a clone to care for.
LEMMA CacheSteps ==
  ASSUME ClonesInv, NEW w \in Workers, Start(w) \/ ReadRemoteDefault(w) \/ TakeQuota(w) \/ LockTimeout(w) \/ EnsureCache(w) \/ ScanJobs(w) \/ Shutdown(w) \/ Down(w)
  PROVE  ClonesInv'
<1>1. CASE Start(w)
  <2>1. PICK list \in work.lists : Set(w, [NewWorker EXCEPT !.at = "next", !.todo = list])
    BY <1>1 DEF Start
  <2> DEFINE r == [NewWorker EXCEPT !.at = "next", !.todo = list]
  <2>2. r \in WorkerShape
    BY NewWorkerShape, RecordUpdates DEF ClonePlaces, ClonesInv, CloneTypes, WorkShape
  <2>3. WorkerMoves(w) /\ worker'[w].at = "next" /\ worker'[w].dir = 0 /\ worker'[w].mine = {}
    <3>1. r.at = "next" /\ r.dir = 0 /\ r.mine = {}
      BY NewWorkerShape DEF WorkerShape
    <3> HIDE DEF r
    <3>2. Set(w, r)
      BY <2>1 DEF r
    <3> QED
      BY <2>2, <3>1, <3>2, SetMoves DEF ClonesInv
  <2>4. CloneTypes' /\ UNCHANGED <<storage, quota>>
    <3>1. work' \in WorkShape
      BY <1>1, WorkUpdates DEF Start, ClonesInv, CloneTypes
    <3> QED
      BY <1>1, <2>3, <3>1 DEF Start, WorkerMoves, ClonesInv, CloneTypes, storage
  <2>5. QuotaAgrees'
    BY <1>1, <2>3, <2>4, QuotaMoves DEF Start, QuotaPlaces, ClonesInv
  <2>6. DirsAgree' /\ JobsAgree' /\ MirrorsAgree'
    BY <2>3, <2>4, StorageStays DEF ClonesInv, CloneTypes
  <2> QED
    BY <2>4, <2>5, <2>6 DEF ClonesInv
<1>2. CASE ReadRemoteDefault(w)
  <2>1. CASE Fail(w)
    BY <1>2, <2>1, FailKeeps DEF ReadRemoteDefault
  <2>2. ASSUME NEW slug \in Repos, slug = Head(worker[w].todo), UNCHANGED quota,
               Set(w, [worker[w] EXCEPT !.at = "quota", !.seen = worker[w].seen \union {slug}, !.todo = Tail(worker[w].todo),
                        !.proof = [repo |-> slug, branch |-> remote[slug].branch, head |-> remote[slug].head]])
        PROVE  ClonesInv'
    <3> DEFINE proof == [repo |-> slug, branch |-> remote[slug].branch, head |-> remote[slug].head]
               r == [worker[w] EXCEPT !.at = "quota", !.seen = worker[w].seen \union {slug}, !.todo = Tail(worker[w].todo),
                        !.proof = proof]
    <3>1. worker[w] \in WorkerShape /\ worker[w].todo # <<>> /\ worker[w].at = "next"
      BY <1>2 DEF ReadRemoteDefault, ClonesInv, CloneTypes
    <3>2. proof \in HeadProof
      BY DEF ClonesInv, CloneTypes, RemoteShape, HeadProof
    <3>3. worker[w].seen \union {slug} \in SUBSET Repos /\ Tail(worker[w].todo) \in Seq(Slugs)
      BY <3>1 DEF WorkerShape
    <3> HIDE DEF proof
    <3>4. r \in WorkerShape
      BY <3>1, <3>2, <3>3, RecordUpdates DEF ClonePlaces
    <3>5. r.at = "quota" /\ r.proof = proof /\ r.dir = worker[w].dir /\ r.mine = worker[w].mine
      BY <3>1 DEF WorkerShape
    <3>6. WorkerMoves(w) /\ worker'[w] = r
      BY <2>2, <3>4, SetMoves DEF ClonesInv, proof
    <3> HIDE DEF r
    <3>7. CloneTypes' /\ UNCHANGED storage
      BY <1>2, <3>6 DEF ReadRemoteDefault, WorkerMoves, ClonesInv, CloneTypes, storage
    <3>8. QuotaAgrees'
      BY <2>2, <3>1, <3>2, <3>5, <3>6, QuotaMoves DEF QuotaPlaces, ClonesInv
    <3>9. DirsAgree' /\ JobsAgree' /\ MirrorsAgree'
      BY <3>5, <3>6, <3>7, StorageStays DEF ClonesInv, DirsAgree
    <3> QED
      BY <3>7, <3>8, <3>9 DEF ClonesInv
  <2> QED
    BY <1>2, <2>1, <2>2 DEF ReadRemoteDefault
<1>3. CASE TakeQuota(w)
  <2>1. WorkerMoves(w) /\ worker'[w].at = "ensure" /\ worker'[w].dir = worker[w].dir /\ worker'[w].mine = worker[w].mine
        /\ worker'[w].proof = worker[w].proof
    BY <1>3, EnterMoves DEF TakeQuota, ClonesInv, ClonePlaces, QuotaPlaces
  <2>2. CloneTypes' /\ UNCHANGED storage
    BY <1>3, <2>1 DEF TakeQuota, WorkerMoves, ClonesInv, CloneTypes, storage
  <2>3. worker[w].proof \in HeadProof
    BY <1>3 DEF TakeQuota, ClonesInv, QuotaAgrees
  <2>4. QuotaAgrees'
    BY <1>3, <2>1, <2>3, QuotaMoves DEF TakeQuota, QuotaPlaces, ClonesInv
  <2>5. DirsAgree' /\ JobsAgree' /\ MirrorsAgree'
    BY <2>1, <2>2, StorageStays DEF ClonesInv, DirsAgree
  <2> QED
    BY <2>2, <2>4, <2>5 DEF ClonesInv
<1>4. CASE LockTimeout(w)
  BY <1>4, FailKeeps DEF LockTimeout
<1>5. CASE EnsureCache(w)
  <2>1. worker[w].at = "ensure" /\ quota = w /\ worker[w].proof \in HeadProof
    BY <1>5 DEF EnsureCache, ClonesInv, QuotaAgrees, QuotaPlaces
  <2> DEFINE hit == {m \in Mirror(w) : ~m.old /\ Verified(m, worker[w].proof)}
             place == IF hit # {} THEN "sweep" ELSE "build"
  <2>2. place \in ClonePlaces /\ Enter(w, place)
    BY <1>5 DEF EnsureCache, ClonePlaces, QuotaPlaces
  <2>3. WorkerMoves(w) /\ worker'[w].at = place /\ worker'[w].dir = worker[w].dir /\ worker'[w].mine = worker[w].mine
        /\ worker'[w].proof = worker[w].proof
    <3> HIDE DEF place
    <3> QED
      BY <2>2, EnterMoves DEF ClonesInv
  <2>4. mirrors' = (IF hit # {} THEN mirrors ELSE mirrors \ Mirror(w)) /\ UNCHANGED <<clones, quota, made>>
    BY <1>5 DEF EnsureCache
  <2>5. CloneTypes'
    BY <1>5, <2>3, <2>4 DEF EnsureCache, WorkerMoves, ClonesInv, CloneTypes
  <2>6. QuotaAgrees'
    BY <2>1, <2>3, <2>4, QuotaMoves DEF QuotaPlaces, ClonesInv
  <2>7. DirsAgree'
    BY <2>3, <2>4, DirsLess DEF ClonesInv, DirsAgree
  <2>8. JobsAgree'
    BY <2>3, <2>4, <2>5, JobsSame
  <2>9. MirrorsAgree'
    <3>1. CASE hit # {}
      BY <2>3, <2>4, <3>1, MirrorsSame
    <3>2. CASE hit = {}
      <4>1. mirrors' = mirrors \ Mirror(w) /\ worker'[w].at = "build"
        BY <2>3, <2>4, <3>2
      <4>2. PublishedMirrors' \subseteq PublishedMirrors
        BY <4>1 DEF PublishedMirrors
      <4>3. \A m \in PublishedMirrors' : m.key # CacheKey(worker[w].proof)
        BY <4>1 DEF PublishedMirrors, Mirror
      <4>4. ASSUME NEW u \in Workers, u # w PROVE worker'[u].at \notin {"build", "publish"}
        BY <2>1, <2>3, <4>4 DEF WorkerMoves, ClonesInv, QuotaAgrees, QuotaPlaces
      <4>5. CacheKey(worker[w].proof)' = CacheKey(worker[w].proof)
        BY <2>3 DEF CacheKey
      <4> QED
        BY <4>1, <4>2, <4>3, <4>4, <4>5 DEF ClonesInv, MirrorsAgree
    <3> QED
      BY <3>1, <3>2
  <2> QED
    BY <2>5, <2>6, <2>7, <2>8, <2>9 DEF ClonesInv
<1>6. CASE ScanJobs(w)
  <2> DEFINE r == [worker[w] EXCEPT !.at = "clean", !.scan = Ids(clones)]
  <2>1. worker[w] \in WorkerShape /\ worker[w].at = "sweep" /\ worker[w].proof \in HeadProof
    BY <1>6 DEF ScanJobs, ClonesInv, CloneTypes, QuotaAgrees, QuotaPlaces
  <2>2. Ids(clones) \in SUBSET Nat
    BY DEF Ids, ClonesInv, CloneTypes, JobClone
  <2>3. r \in WorkerShape
    BY <2>1, <2>2, RecordUpdates DEF ClonePlaces, QuotaPlaces
  <2>4. r.at = "clean" /\ r.dir = worker[w].dir /\ r.mine = worker[w].mine /\ r.proof = worker[w].proof
    BY <2>1 DEF WorkerShape
  <2>5. WorkerMoves(w) /\ worker'[w] = r
    BY <1>6, <2>3, SetMoves DEF ScanJobs, ClonesInv
  <2> HIDE DEF r
  <2>6. CloneTypes' /\ UNCHANGED <<storage, quota>>
    BY <1>6, <2>5 DEF ScanJobs, WorkerMoves, ClonesInv, CloneTypes, storage
  <2>7. QuotaAgrees'
    BY <2>1, <2>4, <2>5, <2>6, QuotaMoves DEF QuotaPlaces, ClonesInv
  <2>8. DirsAgree' /\ JobsAgree' /\ MirrorsAgree'
    BY <2>4, <2>5, <2>6, StorageStays DEF ClonesInv, DirsAgree
  <2> QED
    BY <2>6, <2>7, <2>8 DEF ClonesInv
<1>7. CASE Shutdown(w)
  <2>1. WorkerMoves(w) /\ worker'[w].at = "drop" /\ worker'[w].dir = worker[w].dir /\ worker'[w].mine = worker[w].mine
    BY <1>7, EnterMoves DEF Shutdown, ClonesInv, ClonePlaces
  <2>2. worker[w].dir = 0
    BY <1>7 DEF Shutdown, ClonesInv, JobsAgree, JobsOf
  <2>3. CloneTypes' /\ UNCHANGED <<storage, quota>>
    BY <1>7, <2>1 DEF Shutdown, WorkerMoves, ClonesInv, CloneTypes, storage
  <2>4. QuotaAgrees'
    BY <1>7, <2>1, <2>3, QuotaMoves DEF Shutdown, QuotaPlaces, ClonesInv
  <2>5. DirsAgree' /\ JobsAgree' /\ MirrorsAgree'
    BY <2>1, <2>2, <2>3, StorageStays DEF ClonesInv, CloneTypes
  <2> QED
    BY <2>3, <2>4, <2>5 DEF ClonesInv
<1>8. CASE Down(w)
  <2>1. WorkerMoves(w) /\ worker'[w].at = "down" /\ worker'[w].dir = worker[w].dir /\ worker'[w].mine = worker[w].mine
    BY <1>8, EnterMoves DEF Down, ClonesInv, ClonePlaces
  <2>2. worker[w].dir = 0
    BY <1>8 DEF Down
  <2>3. CloneTypes' /\ UNCHANGED <<storage, quota>>
    BY <1>8, <2>1 DEF Down, WorkerMoves, ClonesInv, CloneTypes, storage
  <2>4. QuotaAgrees'
    BY <1>8, <2>1, <2>3, QuotaMoves DEF Down, QuotaPlaces, ClonesInv
  <2>5. DirsAgree' /\ JobsAgree' /\ MirrorsAgree'
    BY <2>1, <2>2, <2>3, StorageStays DEF ClonesInv, CloneTypes
  <2> QED
    BY <2>3, <2>4, <2>5 DEF ClonesInv
<1> QED
  BY <1>1, <1>2, <1>3, <1>4, <1>5, <1>6, <1>7, <1>8

\* What it does with the mirrors, under the quota.
LEMMA MirrorSteps ==
  ASSUME ClonesInv, NEW w \in Workers, BuildCache(w) \/ PublishCache(w) \/ JobQuota(w) \/ Serve(w)
  PROVE  ClonesInv'
<1>1. CASE BuildCache(w)
  <2>1. worker[w] \in WorkerShape /\ worker[w].at = "build" /\ quota = w /\ worker[w].proof \in HeadProof /\ made \in Nat
    BY <1>1 DEF BuildCache, ClonesInv, CloneTypes, QuotaAgrees, QuotaPlaces
  <2>2. CASE Fail(w) /\ UNCHANGED storage
    BY <1>1, <2>2, FailKeeps DEF BuildCache
  <2> DEFINE built == [id |-> made + 1, key |-> CacheKey(worker[w].proof), building |-> TRUE,
                       branch |-> remote[worker[w].proof.repo].branch, sound |-> TRUE, old |-> FALSE]
             r == [worker[w] EXCEPT !.at = "publish", !.dir = made + 1]
  <2>3. ASSUME made' = made + 1, mirrors' = mirrors \union {built}, Set(w, r), UNCHANGED <<clones, trash, quota>>
        PROVE  ClonesInv'
    <3>1. r \in WorkerShape
      <4>1. made + 1 \in Nat /\ "publish" \in ClonePlaces
        BY <2>1 DEF ClonePlaces, QuotaPlaces
      <4> QED
        BY <2>1, <4>1, RecordUpdates
    <3>2. r.at = "publish" /\ r.dir = made + 1 /\ r.mine = worker[w].mine /\ r.proof = worker[w].proof
      BY <2>1 DEF WorkerShape
    <3>3. WorkerMoves(w) /\ worker'[w] = r
      BY <2>3, <3>1, SetMoves DEF ClonesInv
    <3>4. built \in MirrorShape
      <4>1. made + 1 \in Nat /\ CacheKey(worker[w].proof) \in Repos \X Nat /\ remote[worker[w].proof.repo].branch \in Nat
        BY <2>1 DEF HeadProof, CacheKey, ClonesInv, CloneTypes, RemoteShape
      <4> QED
        BY <4>1, MirrorIs
    <3>5. built.id = made + 1 /\ built.key = CacheKey(worker[w].proof) /\ built.building
      OBVIOUS
    <3> HIDE DEF r, built
    <3>6. CloneTypes'
      BY <1>1, <2>1, <2>3, <3>3, <3>4 DEF BuildCache, WorkerMoves, ClonesInv, CloneTypes
    <3>7. QuotaAgrees'
      BY <2>1, <2>3, <3>2, <3>3, QuotaMoves DEF QuotaPlaces, ClonesInv
    <3>8. DirsAgree'
      <4>1. \A m \in mirrors : m.id \in Nat /\ m.id <= made
        BY DEF ClonesInv, DirsAgree, CloneTypes, MirrorShape
      <4>2. \A c \in clones : c.id \in Nat /\ c.id <= made + 1
        BY <2>1 DEF ClonesInv, DirsAgree, CloneTypes, JobClone
      <4>3. ASSUME NEW u \in Workers PROVE worker'[u].dir <= made + 1
        <5>1. worker[u].dir \in Nat /\ worker[u].dir <= made
          BY DEF ClonesInv, DirsAgree, CloneTypes, WorkerShape
        <5>2. u # w => worker'[u].dir = worker[u].dir
          BY <3>3 DEF WorkerMoves
        <5> QED
          BY <2>1, <3>2, <3>3, <5>1, <5>2
      <4>4. \A c \in mirrors' : c.id <= made + 1 /\ \A d \in mirrors' : c.id = d.id => c = d
        BY <2>1, <2>3, <3>5, <4>1 DEF ClonesInv, DirsAgree
      <4> QED
        BY <2>3, <4>2, <4>3, <4>4 DEF ClonesInv, DirsAgree
    <3>9. JobsAgree'
      BY <2>3, <3>2, <3>3, <3>6, JobsSame
    <3>10. MirrorsAgree'
      <4>1. PublishedMirrors' = PublishedMirrors
        BY <2>3, <3>5 DEF PublishedMirrors
      <4>2. ASSUME NEW u \in Workers, u # w PROVE worker'[u].at \notin {"build", "publish"}
        BY <2>1, <3>3, <4>2 DEF WorkerMoves, ClonesInv, QuotaAgrees, QuotaPlaces
      <4>3. CacheKey(worker[w].proof)' = CacheKey(worker[w].proof)
        BY <3>2, <3>3 DEF CacheKey
      <4>4. built \in mirrors'
        BY <2>3
      <4> QED
        BY <2>1, <3>2, <3>3, <3>5, <4>1, <4>2, <4>3, <4>4 DEF ClonesInv, MirrorsAgree
    <3> QED
      BY <3>6, <3>7, <3>8, <3>9, <3>10 DEF ClonesInv
  <2> QED
    BY <1>1, <2>2, <2>3 DEF BuildCache
<1>2. CASE PublishCache(w)
  <2>1. worker[w] \in WorkerShape /\ worker[w].at = "publish" /\ quota = w /\ worker[w].proof \in HeadProof
    BY <1>2 DEF PublishCache, ClonesInv, CloneTypes, QuotaAgrees, QuotaPlaces
  <2>2. PICK built \in mirrors : built.id = worker[w].dir /\ built.building /\ built.key = CacheKey(worker[w].proof)
    BY <2>1 DEF ClonesInv, MirrorsAgree
  <2>3. Dir(mirrors, worker[w].dir) = built
    BY <2>2, DirIs DEF ClonesInv, DirsAgree
  <2>4. CASE Fail(w) /\ UNCHANGED mirrors
    BY <1>2, <2>4, FailKeeps DEF PublishCache, storage
  <2>5. CASE Fail(w) /\ mirrors' = mirrors \ {built}
    <3>1. WorkerMoves(w) /\ worker'[w].at = "drop" /\ worker'[w].dir = 0 /\ worker'[w].mine = worker[w].mine
          /\ quota' = IF quota = w THEN "free" ELSE quota
      BY <2>5, FailMoves DEF ClonesInv
    <3>2. CloneTypes' /\ UNCHANGED <<clones, made>>
      BY <1>2, <2>5, <3>1 DEF PublishCache, WorkerMoves, ClonesInv, CloneTypes
    <3>3. QuotaAgrees'
      BY <3>1, QuotaMoves DEF QuotaPlaces, ClonesInv
    <3>4. DirsAgree' /\ JobsAgree' /\ MirrorsAgree'
      BY <2>1, <2>5, <3>1, <3>2, DirsLess, JobsSame, MirrorsLess DEF ClonesInv, CloneTypes
    <3> QED
      BY <3>2, <3>3, <3>4 DEF ClonesInv
  <2> DEFINE shown == [built EXCEPT !.building = FALSE]
             r == [worker[w] EXCEPT !.at = "sweep", !.dir = 0]
  <2>6. ASSUME Verified(built, worker[w].proof), Set(w, r), UNCHANGED quota, mirrors' = (mirrors \ {built}) \union {shown}
        PROVE  ClonesInv'
    <3>1. r \in WorkerShape
      BY <2>1, RecordUpdates DEF ClonePlaces, QuotaPlaces
    <3>2. r.at = "sweep" /\ r.dir = 0 /\ r.mine = worker[w].mine /\ r.proof = worker[w].proof
      BY <2>1 DEF WorkerShape
    <3>3. WorkerMoves(w) /\ worker'[w] = r
      BY <2>6, <3>1, SetMoves DEF ClonesInv
    <3>4. /\ shown \in MirrorShape /\ shown.id = built.id /\ shown.key = built.key /\ shown.branch = built.branch
          /\ shown.building = FALSE
      BY MirrorUpdates DEF ClonesInv, CloneTypes
    <3> HIDE DEF r, shown
    <3>5. CloneTypes' /\ UNCHANGED <<clones, made>>
      BY <1>2, <2>6, <3>3, <3>4 DEF PublishCache, WorkerMoves, ClonesInv, CloneTypes
    <3>6. QuotaAgrees'
      BY <2>1, <2>6, <3>2, <3>3, QuotaMoves DEF QuotaPlaces, ClonesInv
    <3>7. DirsAgree'
      <4>1. \A c \in mirrors' : c.id <= made /\ \A d \in mirrors' : c.id = d.id => c = d
        BY <2>2, <2>6, <3>4 DEF ClonesInv, DirsAgree
      <4>2. \A u \in Workers : worker'[u].dir <= made
        BY <3>2, <3>3 DEF WorkerMoves, ClonesInv, DirsAgree, CloneTypes
      <4> QED
        BY <3>5, <4>1, <4>2 DEF ClonesInv, DirsAgree
    <3>8. JobsAgree'
      BY <3>2, <3>3, <3>5, JobsSame
    <3>9. MirrorsAgree'
      <4>1. shown.branch = shown.key[2]
        BY <2>2, <2>6, <3>4 DEF Verified, CacheKey
      <4>2. PublishedMirrors' = PublishedMirrors \cup {shown}
        BY <2>2, <2>6, <3>4 DEF PublishedMirrors
      <4>3. \A m \in PublishedMirrors : m.key # shown.key /\ shown.key # m.key
        BY <2>1, <2>2, <3>4 DEF ClonesInv, MirrorsAgree
      <4>4. ASSUME NEW u \in Workers PROVE worker'[u].at \notin {"build", "publish"}
        BY <2>1, <3>2, <3>3 DEF WorkerMoves, ClonesInv, QuotaAgrees, QuotaPlaces
      <4> QED
        BY <4>1, <4>2, <4>3, <4>4 DEF ClonesInv, MirrorsAgree
    <3> QED
      BY <3>5, <3>6, <3>7, <3>8, <3>9 DEF ClonesInv
  <2> QED
    <3>1. CASE Verified(built, worker[w].proof)
      BY <1>2, <2>3, <2>4, <2>6, <3>1 DEF PublishCache
    <3>2. CASE ~Verified(built, worker[w].proof)
      <4>1. Fail(w) /\ (UNCHANGED mirrors \/ mirrors' = (mirrors \ {built}) \union {})
        BY <1>2, <2>3, <3>2 DEF PublishCache
      <4>2. (mirrors \ {built}) \union {} = mirrors \ {built}
        OBVIOUS
      <4> QED
        BY <2>4, <2>5, <4>1, <4>2
    <3> QED
      BY <3>1, <3>2
<1>3. CASE JobQuota(w)
  <2>1. worker[w] \in WorkerShape /\ worker[w].at = "clean" /\ quota = w /\ worker[w].proof \in HeadProof
    BY <1>3 DEF JobQuota, ClonesInv, CloneTypes, QuotaAgrees, QuotaPlaces
  <2>2. mirrors' \subseteq mirrors /\ UNCHANGED <<remote, clones, made, work>>
    BY <1>3 DEF JobQuota, EnforceCacheBounds, Trim
  <2>3. CASE Fail(w)
    <3>1. WorkerMoves(w) /\ worker'[w].at = "drop" /\ worker'[w].dir = 0 /\ worker'[w].mine = worker[w].mine
          /\ quota' = IF quota = w THEN "free" ELSE quota
      BY <2>3, FailMoves DEF ClonesInv
    <3>2. CloneTypes'
      BY <2>2, <3>1 DEF WorkerMoves, ClonesInv, CloneTypes
    <3>3. QuotaAgrees'
      BY <3>1, QuotaMoves DEF QuotaPlaces, ClonesInv
    <3>4. DirsAgree' /\ JobsAgree' /\ MirrorsAgree'
      BY <2>1, <2>2, <3>1, <3>2, DirsLess, JobsSame, MirrorsLess DEF ClonesInv, CloneTypes
    <3> QED
      BY <3>2, <3>3, <3>4 DEF ClonesInv
  <2>4. CASE ~(ActiveJobs >= MaxJobs) /\ Enter(w, "job") /\ UNCHANGED quota
    <3>1. WorkerMoves(w) /\ worker'[w].at = "job" /\ worker'[w].dir = worker[w].dir /\ worker'[w].mine = worker[w].mine
          /\ worker'[w].proof = worker[w].proof
      BY <2>4, EnterMoves DEF ClonesInv, ClonePlaces, QuotaPlaces
    <3>2. CloneTypes'
      BY <2>2, <3>1 DEF WorkerMoves, ClonesInv, CloneTypes
    <3>3. QuotaAgrees'
      BY <2>1, <2>4, <3>1, QuotaMoves DEF QuotaPlaces, ClonesInv
    <3>4. Cardinality(clones) \in Nat /\ MaxJobs \in Nat
      BY FS_CardinalityType, CloneLimits DEF ClonesInv, CloneTypes
    <3>5. OthersKept(w)
      BY <2>1, <2>2 DEF OthersKept, QuotaPlaces
    <3>6. JobsOf(w, worker[w])'
      <4>1. Cardinality(clones) < MaxJobs
        BY <2>4, <3>4 DEF ActiveJobs
      <4>2. JobsOf(w, worker[w])
        BY DEF ClonesInv, JobsAgree
      <4> QED
        BY <2>2, <3>1, <4>1, <4>2 DEF JobsOf
    <3>7. JobsAgree'
      BY <2>2, <3>1, <3>2, <3>5, <3>6, JobsMove DEF ClonesInv, JobsAgree
    <3>8. DirsAgree' /\ MirrorsAgree'
      BY <2>1, <2>2, <3>1, DirsLess, MirrorsLess DEF ClonesInv, DirsAgree
    <3> QED
      BY <3>2, <3>3, <3>7, <3>8 DEF ClonesInv
  <2> QED
    BY <1>3, <2>3, <2>4 DEF JobQuota
<1>4. CASE Serve(w)
  <2>1. worker[w] \in WorkerShape /\ worker[w].at = "next" /\ quota = "free" /\ worker[w].dir = 0
    BY <1>4 DEF Serve, ClonesInv, CloneTypes, JobsAgree, JobsOf
  <2>2. mirrors' \subseteq mirrors /\ UNCHANGED <<remote, clones, made, work>>
    BY <1>4 DEF Serve, EnforceCacheBounds, Trim
  <2>3. WorkerMoves(w) /\ worker'[w].at \in {"drop", "serve"} /\ worker'[w].dir = 0 /\ worker'[w].mine = worker[w].mine
        /\ quota' = quota
    <3>1. CASE Fail(w)
      BY <2>1, <3>1, FailMoves DEF ClonesInv
    <3>2. CASE Enter(w, "serve") /\ UNCHANGED quota
      BY <2>1, <3>2, EnterMoves DEF ClonesInv, ClonePlaces
    <3> QED
      BY <1>4, <3>1, <3>2 DEF Serve
  <2>4. CloneTypes'
    BY <2>2, <2>3 DEF WorkerMoves, ClonesInv, CloneTypes
  <2>5. QuotaAgrees'
    BY <2>1, <2>3, QuotaMoves DEF QuotaPlaces, ClonesInv
  <2>6. DirsAgree' /\ JobsAgree' /\ MirrorsAgree'
    BY <2>1, <2>2, <2>3, <2>4, DirsLess, JobsSame, MirrorsLess DEF ClonesInv, CloneTypes
  <2> QED
    BY <2>4, <2>5, <2>6 DEF ClonesInv
<1> QED
  BY <1>1, <1>2, <1>3, <1>4

\* A step on the clones, from what it does for the worker that takes it.
LEMMA ClonesStep ==
  ASSUME ClonesInv, NEW w \in Workers, WorkerMoves(w), OthersKept(w), clones' \subseteq JobClone, IsFiniteSet(clones'),
         Cardinality(clones') <= MaxJobs, work' \in WorkShape, remote' = remote, mirrors' = mirrors, made' \in Nat,
         QuotaAgrees', worker'[w].at \notin {"build", "publish"}, DirsAgree', JobsOf(w, worker[w])'
  PROVE  ClonesInv'
<1>1. CloneTypes'
  BY DEF ClonesInv, CloneTypes, WorkerMoves
<1>2. JobsAgree' /\ MirrorsAgree'
  BY <1>1, JobsMove, MirrorsSame
<1> QED
  BY <1>1, <1>2 DEF ClonesInv

\* Some clones go, none of them leased to another worker.
LEMMA ClonesGo ==
  ASSUME ClonesInv, NEW w \in Workers, WorkerMoves(w), clones' \subseteq clones, UNCHANGED <<remote, mirrors, made, work>>,
         \A c \in clones : c.lease \in Workers \ {w} => c \in clones',
         worker[w].at \notin QuotaPlaces => \A c \in clones : c.lease = "missing" => c \in clones',
         QuotaAgrees', worker'[w].at \notin {"build", "publish"}, worker'[w].dir <= made, JobsOf(w, worker[w])'
  PROVE  ClonesInv'
<1>1. IsFiniteSet(clones') /\ Cardinality(clones') <= Cardinality(clones) /\ Cardinality(clones') \in Nat
  BY Fewer DEF ClonesInv, CloneTypes
<1>2. Cardinality(clones) \in Nat /\ MaxJobs \in Nat /\ Cardinality(clones) <= MaxJobs
  BY FS_CardinalityType, CloneLimits DEF ClonesInv, CloneTypes, JobsAgree
<1>3. Cardinality(clones') <= MaxJobs
  BY <1>1, <1>2
<1>4. OthersKept(w)
  BY <1>1 DEF OthersKept
<1>5. DirsAgree'
  BY DirsLess
<1>6. clones' \subseteq JobClone /\ work' \in WorkShape /\ made' \in Nat
  BY DEF ClonesInv, CloneTypes
<1> QED
  BY <1>1, <1>3, <1>4, <1>5, <1>6, ClonesStep

\* The clone that a worker is making becomes another one of the same number.
LEMMA CloneChanges ==
  ASSUME ClonesInv, NEW w \in Workers, WorkerMoves(w), quota = w, NEW d \in clones, NEW c \in JobClone, c.id = d.id,
         d.lease \in {w, "missing"}, clones' = (clones \ {d}) \cup {c}, UNCHANGED <<remote, mirrors, made, work>>,
         QuotaAgrees', worker'[w].at \notin {"build", "publish"}, worker'[w].dir <= made, JobsOf(w, worker[w])'
  PROVE  ClonesInv'
<1>1. IsFiniteSet(clones') /\ Cardinality(clones') <= Cardinality(clones)
  BY Replaced DEF ClonesInv, CloneTypes
<1>2. Cardinality(clones) \in Nat /\ Cardinality(clones') \in Nat /\ MaxJobs \in Nat /\ Cardinality(clones) <= MaxJobs
  BY <1>1, FS_CardinalityType, CloneLimits DEF ClonesInv, CloneTypes, JobsAgree
<1>3. Cardinality(clones') <= MaxJobs
  BY <1>1, <1>2
<1>4. OthersKept(w)
  <2>1. d.lease \notin Workers \ {w} /\ d.lease # "free" /\ worker[w].at \in QuotaPlaces
    BY CloneLimits DEF ClonesInv, QuotaAgrees
  <2> QED
    BY <2>1 DEF OthersKept
<1>5. DirsAgree'
  <2>1. \A e \in clones' : e.id <= made /\ \A g \in clones' : e.id = g.id => e = g
    BY DEF ClonesInv, DirsAgree
  <2> QED
    BY <2>1 DEF ClonesInv, DirsAgree, WorkerMoves
<1>6. clones' \subseteq JobClone /\ work' \in WorkShape /\ made' \in Nat
  BY DEF ClonesInv, CloneTypes
<1> QED
  BY <1>1, <1>3, <1>4, <1>5, <1>6, ClonesStep

\* A worker lets go of leases of its own.
LEMMA LeasesFreed ==
  ASSUME ClonesInv, NEW w \in Workers, WorkerMoves(w), NEW f, f = [c \in clones |-> f[c]],
         \A c \in clones : f[c] = c \/ (c.lease = w /\ f[c] = [c EXCEPT !.lease = "free"]),
         clones' = {f[c] : c \in clones}, UNCHANGED <<remote, mirrors, made>>, work' \in WorkShape,
         QuotaAgrees', worker'[w].at \notin {"build", "publish"}, worker'[w].dir <= made, JobsOf(w, worker[w])'
  PROVE  ClonesInv'
<1>1. IsFiniteSet(clones') /\ Cardinality(clones') <= Cardinality(clones)
  BY Relabelled DEF ClonesInv, CloneTypes
<1>2. Cardinality(clones) \in Nat /\ Cardinality(clones') \in Nat /\ MaxJobs \in Nat /\ Cardinality(clones) <= MaxJobs
  BY <1>1, FS_CardinalityType, CloneLimits DEF ClonesInv, CloneTypes, JobsAgree
<1>3. Cardinality(clones') <= MaxJobs
  BY <1>1, <1>2
<1>4. \A c \in clones : c \in JobClone
  BY DEF ClonesInv, CloneTypes
<1>5. \A c \in clones : f[c] \in JobClone /\ f[c].id = c.id /\ (f[c] = c \/ (c.lease = w /\ f[c].lease = "free"))
  BY <1>4 DEF JobClone
<1>6. OthersKept(w)
  <2>1. w # "missing"
    BY CloneLimits
  <2>2. \A c \in clones : c.lease # w => f[c] = c
    OBVIOUS
  <2>3. \A c \in clones : c.lease \in Workers \ {w} => c \in clones'
    BY <2>2
  <2>4. \A c \in clones : c.lease = "missing" => c \in clones'
    BY <2>1, <2>2
  <2>5. \A c \in clones' : c \in clones \/ c.lease = "free"
    BY <1>5
  <2> QED
    BY <1>1, <2>3, <2>4, <2>5 DEF OthersKept
<1>7. DirsAgree'
  <2>1. \A e \in clones' : e.id <= made /\ \A g \in clones' : e.id = g.id => e = g
    BY <1>5 DEF ClonesInv, DirsAgree
  <2> QED
    BY <2>1 DEF ClonesInv, DirsAgree, WorkerMoves
<1>8. clones' \subseteq JobClone /\ made' \in Nat
  BY <1>5 DEF ClonesInv, CloneTypes
<1> QED
  BY <1>1, <1>3, <1>6, <1>7, <1>8, ClonesStep

\* What may change of a clone.
LEMMA CloneUpdates ==
  ASSUME NEW c \in JobClone
  PROVE  /\ \A l \in Workers \cup {"missing", "free"} :
              LET d == [c EXCEPT !.lease = l] IN d \in JobClone /\ d.id = c.id /\ d.lease = l /\ d.head = c.head
         /\ \A n \in Nat : LET d == [c EXCEPT !.head = n] IN d \in JobClone /\ d.id = c.id /\ d.lease = c.lease /\ d.head = n
  BY DEF JobClone

\* The jobs left behind are cleaned and a new one is begun, under the quota.
LEMMA JobSteps ==
  ASSUME ClonesInv, NEW w \in Workers, CleanJob(w) \/ RemoveJob(w) \/ CreateJob(w)
  PROVE  ClonesInv'
<1>1. CASE CleanJob(w)
  <2>1. worker[w] \in WorkerShape /\ worker[w].at = "clean" /\ quota = w /\ worker[w].proof \in HeadProof
    BY <1>1 DEF CleanJob, ClonesInv, CloneTypes, QuotaAgrees, QuotaPlaces
  <2>2. JobsOf(w, worker[w]) /\ made \in Nat
    BY DEF ClonesInv, CloneTypes, JobsAgree
  <2>3. PICK i \in worker[w].scan :
          LET unleased == {c \in clones : c.id = i /\ c.lease = "missing"}
              holderless == \E c \in clones : c.id = i /\ c.lease = "free"
          IN /\ Set(w, [worker[w] EXCEPT !.at = IF holderless THEN "remove" ELSE "clean", !.dir = IF holderless THEN i ELSE 0,
                        !.scan = worker[w].scan \ {i}])
             /\ clones' = clones \ unleased
    BY <1>1 DEF CleanJob
  <2> DEFINE holderless == \E c \in clones : c.id = i /\ c.lease = "free"
             place == IF holderless THEN "remove" ELSE "clean"
             dir == IF holderless THEN i ELSE 0
             r == [worker[w] EXCEPT !.at = place, !.dir = dir, !.scan = worker[w].scan \ {i}]
  <2>4. place \in {"remove", "clean"} /\ dir \in Nat /\ (place = "remove" => holderless /\ dir = i) /\ dir <= made
    <3>1. i \in Nat /\ (holderless => i <= made) /\ 0 <= made
      BY <2>1, <2>2 DEF WorkerShape, ClonesInv, DirsAgree
    <3> QED
      BY <3>1
  <2>5. Set(w, r)
    BY <2>3
  <2>6. WorkerMoves(w) /\ worker'[w].at = place /\ worker'[w].dir = dir /\ worker'[w].mine = worker[w].mine
        /\ worker'[w].proof = worker[w].proof
    <3> HIDE DEF place, dir
    <3>1. worker[w].scan \ {i} \in SUBSET Nat /\ place \in ClonePlaces
      BY <2>1, <2>4 DEF WorkerShape, ClonePlaces, QuotaPlaces
    <3>2. r \in WorkerShape
      BY <2>1, <2>4, <3>1, RecordUpdates
    <3>3. r.at = place /\ r.dir = dir /\ r.mine = worker[w].mine /\ r.proof = worker[w].proof
      BY <2>1 DEF WorkerShape
    <3> HIDE DEF r
    <3> QED
      BY <2>5, <3>2, <3>3, SetMoves DEF ClonesInv
  <2> HIDE DEF r
  <2>7. clones' = clones \ {c \in clones : c.id = i /\ c.lease = "missing"} /\ UNCHANGED <<remote, mirrors, made, work, quota>>
    BY <1>1, <2>3 DEF CleanJob
  <2>8. QuotaAgrees'
    BY <2>1, <2>4, <2>6, <2>7, QuotaMoves DEF QuotaPlaces, ClonesInv
  <2>9. JobsOf(w, worker[w])'
    <3>1. \A c \in clones : c.lease = w => c \in clones'
      BY <2>7, CloneLimits
    <3>2. place = "remove" => \A c \in clones' : c.id = dir => c.lease = "free"
      BY <2>4, <2>7 DEF ClonesInv, DirsAgree
    <3> HIDE DEF place, dir
    <3>3. place \notin {"next", "serve", "lease", "clone", "verify", "drop", "job"}
      BY <2>4
    <3> QED
      BY <2>2, <2>6, <3>1, <3>2, <3>3 DEF JobsOf
  <2>10. \A c \in clones : c.lease \in Workers \ {w} => c \in clones'
    BY <2>7, CloneLimits
  <2> HIDE DEF place, dir
  <2> QED
    BY <2>1, <2>4, <2>6, <2>7, <2>8, <2>9, <2>10, ClonesGo DEF QuotaPlaces
<1>2. CASE RemoveJob(w)
  <2>1. worker[w] \in WorkerShape /\ worker[w].at = "remove" /\ quota = w /\ worker[w].proof \in HeadProof
    BY <1>2 DEF RemoveJob, ClonesInv, CloneTypes, QuotaAgrees, QuotaPlaces
  <2>2. JobsOf(w, worker[w]) /\ made \in Nat
    BY DEF ClonesInv, CloneTypes, JobsAgree
  <2>3. CASE Fail(w) /\ UNCHANGED clones
    BY <1>2, <2>3, FailKeeps DEF RemoveJob, storage
  <2> DEFINE r == [worker[w] EXCEPT !.at = "clean", !.dir = 0]
  <2>4. CASE clones' = {c \in clones : c.id # worker[w].dir} /\ Set(w, r) /\ UNCHANGED quota
    <3>1. r \in WorkerShape
      BY <2>1, RecordUpdates DEF ClonePlaces, QuotaPlaces
    <3>2. r.at = "clean" /\ r.dir = 0 /\ r.mine = worker[w].mine /\ r.proof = worker[w].proof
      BY <2>1 DEF WorkerShape
    <3> HIDE DEF r
    <3>3. WorkerMoves(w) /\ worker'[w] = r
      BY <2>4, <3>1, SetMoves DEF ClonesInv
    <3>4. QuotaAgrees'
      BY <2>1, <2>4, <3>2, <3>3, QuotaMoves DEF QuotaPlaces, ClonesInv
    <3>5. \A c \in clones : c.lease \in Workers => c \in clones'
      BY <2>1, <2>2, <2>4, CloneLimits DEF JobsOf
    <3>6. JobsOf(w, worker[w])'
      BY <2>2, <3>2, <3>3, <3>5 DEF JobsOf
    <3>7. UNCHANGED <<remote, mirrors, made, work>> /\ worker[w].at \in QuotaPlaces
      BY <1>2, <2>1 DEF RemoveJob, QuotaPlaces
    <3> QED
      BY <2>2, <2>4, <3>2, <3>3, <3>4, <3>5, <3>6, <3>7, ClonesGo
  <2> QED
    BY <1>2, <2>3, <2>4 DEF RemoveJob
<1>3. CASE CreateJob(w)
  <2>1. worker[w] \in WorkerShape /\ worker[w].at = "job" /\ quota = w /\ worker[w].proof \in HeadProof
    BY <1>3 DEF CreateJob, ClonesInv, CloneTypes, QuotaAgrees, QuotaPlaces
  <2>2. JobsOf(w, worker[w]) /\ made \in Nat
    BY DEF ClonesInv, CloneTypes, JobsAgree
  <2> DEFINE job == [id |-> made + 1, lease |-> "missing", old |-> FALSE, head |-> 0]
             r == [worker[w] EXCEPT !.at = "lease", !.dir = made + 1]
  <2>3. made' = made + 1 /\ clones' = clones \cup {job} /\ Set(w, r) /\ UNCHANGED <<remote, mirrors, quota, work>>
    BY <1>3 DEF CreateJob
  <2>4. made + 1 \in Nat /\ "lease" \in ClonePlaces /\ made + 1 > made /\ made <= made + 1
    BY <2>2 DEF ClonePlaces, QuotaPlaces
  <2>5. r \in WorkerShape
    BY <2>1, <2>4, RecordUpdates
  <2>6. r.at = "lease" /\ r.dir = made + 1 /\ r.mine = worker[w].mine /\ r.proof = worker[w].proof
    BY <2>1 DEF WorkerShape
  <2>7. job \in JobClone /\ job.id = made + 1 /\ job.lease = "missing"
    <3>1. \A b \in BOOLEAN : [id |-> made + 1, lease |-> "missing", old |-> b, head |-> 0] \in JobClone
      BY <2>4, SMT DEF JobClone
    <3>2. job \in JobClone
      BY <3>1, Zenon
    <3> QED
      BY <3>2
  <2> HIDE DEF r, job
  <2>8. WorkerMoves(w) /\ worker'[w] = r
    BY <2>3, <2>5, SetMoves DEF ClonesInv
  <2>9. QuotaAgrees'
    BY <2>1, <2>3, <2>6, <2>8, QuotaMoves DEF QuotaPlaces, ClonesInv
  <2>10. IsFiniteSet(clones') /\ Cardinality(clones') <= MaxJobs
    <3>1. IsFiniteSet(clones') /\ Cardinality(clones') <= Cardinality(clones) + 1 /\ Cardinality(clones) \in Nat
      BY <2>3, OneMore DEF ClonesInv, CloneTypes
    <3>2. Cardinality(clones) < MaxJobs /\ MaxJobs \in Nat /\ Cardinality(clones') \in Nat
      BY <2>1, <2>2, <3>1, FS_CardinalityType, CloneLimits DEF JobsOf
    <3> QED
      BY <3>1, <3>2
  <2>11. OthersKept(w)
    BY <2>1, <2>3, <2>4, <2>7 DEF OthersKept, QuotaPlaces
  <2>12. DirsAgree'
    <3>1. \A c \in clones : c.id \in Nat /\ c.id <= made
      BY DEF ClonesInv, DirsAgree, CloneTypes, JobClone
    <3>2. \A c \in clones' : c.id <= made + 1 /\ \A d \in clones' : c.id = d.id => c = d
      BY <2>2, <2>3, <2>7, <3>1 DEF ClonesInv, DirsAgree
    <3>3. \A m \in mirrors : m.id <= made + 1
      <4>1. \A m \in mirrors : m.id \in Nat /\ m.id <= made
        BY DEF ClonesInv, DirsAgree, CloneTypes, MirrorShape
      <4> QED
        BY <2>2, <4>1
    <3>4. ASSUME NEW u \in Workers PROVE worker'[u].dir <= made + 1
      <4>1. worker[u].dir \in Nat /\ worker[u].dir <= made
        BY DEF ClonesInv, DirsAgree, CloneTypes, WorkerShape
      <4>2. u # w => worker'[u].dir = worker[u].dir
        BY <2>8 DEF WorkerMoves
      <4> QED
        BY <2>2, <2>6, <2>8, <4>1, <4>2
    <3> QED
      BY <2>3, <3>2, <3>3, <3>4 DEF ClonesInv, DirsAgree
  <2>13. JobsOf(w, worker[w])'
    BY <2>2, <2>3, <2>6, <2>7, <2>8 DEF JobsOf
  <2>14. clones' \subseteq JobClone /\ work' \in WorkShape /\ made' \in Nat
    BY <2>3, <2>4, <2>7 DEF ClonesInv, CloneTypes
  <2> QED
    BY <2>3, <2>6, <2>8, <2>9, <2>10, <2>11, <2>12, <2>13, <2>14, ClonesStep
<1> QED
  BY <1>1, <1>2, <1>3

\* The new job is leased, cloned, verified and given to its worker.
LEMMA LeaseSteps ==
  ASSUME ClonesInv, NEW w \in Workers, CreateLease(w) \/ CloneJob(w) \/ VerifyJob(w)
  PROVE  ClonesInv'
<1>1. CASE CreateLease(w)
  <2>1. worker[w] \in WorkerShape /\ worker[w].at = "lease" /\ quota = w /\ worker[w].proof \in HeadProof
    BY <1>1 DEF CreateLease, ClonesInv, CloneTypes, QuotaAgrees, QuotaPlaces
  <2>2. JobsOf(w, worker[w]) /\ made \in Nat
    BY DEF ClonesInv, CloneTypes, JobsAgree
  <2>3. PICK d \in clones : d.id = worker[w].dir /\ d.lease = "missing"
    BY <2>1, <2>2 DEF JobsOf
  <2>4. Dir(clones, worker[w].dir) = d /\ d \in JobClone
    BY <2>3, DirIs DEF ClonesInv, DirsAgree, CloneTypes
  <2>5. \A m \in worker[w].mine : m.id # d.id
    BY <2>2, <2>3, CloneLimits DEF JobsOf, ClonesInv, DirsAgree
  <2>6. UNCHANGED <<remote, mirrors, made, work>>
    BY <1>1 DEF CreateLease
  <2>7. ASSUME NEW c, c = [d EXCEPT !.lease = w], clones' = (clones \ {d}) \cup {c}, Enter(w, "clone"), UNCHANGED quota
        PROVE  ClonesInv'
    <3>1. c \in JobClone /\ c.id = d.id /\ c.lease = w
      BY <2>4, <2>7, CloneUpdates
    <3>2. /\ WorkerMoves(w) /\ worker'[w].at = "clone" /\ worker'[w].dir = worker[w].dir /\ worker'[w].mine = worker[w].mine
          /\ worker'[w].proof = worker[w].proof
      BY <2>7, EnterMoves DEF ClonesInv, ClonePlaces, QuotaPlaces
    <3>3. QuotaAgrees' /\ worker'[w].dir <= made
      BY <2>1, <2>7, <3>2, QuotaMoves DEF QuotaPlaces, ClonesInv, DirsAgree
    <3>4. \A e \in clones : e.lease = w => e \in clones'
      BY <2>3, <2>7, CloneLimits
    <3>5. c \in clones'
      BY <2>7
    <3>6. JobsOf(w, worker[w])'
      BY <2>2, <2>3, <2>5, <3>1, <3>2, <3>4, <3>5 DEF JobsOf
    <3> QED
      BY <2>1, <2>3, <2>6, <2>7, <3>1, <3>2, <3>3, <3>6, CloneChanges
  <2>8. ASSUME NEW lease \in {"missing", "free"}, NEW c, c = [d EXCEPT !.lease = lease], clones' = (clones \ {d}) \cup {c}, Fail(w)
        PROVE  ClonesInv'
    <3>1. c \in JobClone /\ c.id = d.id
      BY <2>4, <2>8, CloneUpdates
    <3>2. WorkerMoves(w) /\ worker'[w].at = "drop" /\ worker'[w].dir = 0 /\ worker'[w].mine = worker[w].mine
          /\ quota' = IF quota = w THEN "free" ELSE quota
      BY <2>8, FailMoves DEF ClonesInv
    <3>3. QuotaAgrees' /\ 0 <= made
      BY <2>2, <3>2, QuotaMoves DEF QuotaPlaces, ClonesInv
    <3>4. \A e \in clones : e.lease = w => e \in clones'
      BY <2>3, <2>8, CloneLimits
    <3>5. JobsOf(w, worker[w])'
      BY <2>2, <3>2, <3>4 DEF JobsOf
    <3> QED
      BY <2>1, <2>3, <2>6, <2>8, <3>1, <3>2, <3>3, <3>5, CloneChanges
  <2> QED
    BY <1>1, <2>4, <2>7, <2>8 DEF CreateLease, JobChanged
<1>2. CASE CloneJob(w)
  <2>1. worker[w] \in WorkerShape /\ worker[w].at = "clone" /\ quota = w /\ worker[w].proof \in HeadProof
    BY <1>2 DEF CloneJob, ClonesInv, CloneTypes, QuotaAgrees, QuotaPlaces
  <2>2. JobsOf(w, worker[w]) /\ made \in Nat
    BY DEF ClonesInv, CloneTypes, JobsAgree
  <2>3. PICK d \in clones : d.id = worker[w].dir /\ d.lease = w
    BY <2>1, <2>2 DEF JobsOf
  <2>4. Dir(clones, worker[w].dir) = d /\ d \in JobClone
    BY <2>3, DirIs DEF ClonesInv, DirsAgree, CloneTypes
  <2>5. \A m \in worker[w].mine : m.id # d.id
    BY <2>1, <2>2, <2>3 DEF JobsOf
  <2>6. UNCHANGED <<remote, mirrors, made, work>>
    BY <1>2 DEF CloneJob
  <2>7. CASE Fail(w) /\ clones' = clones \ {d}
    <3>1. WorkerMoves(w) /\ worker'[w].at = "drop" /\ worker'[w].dir = 0 /\ worker'[w].mine = worker[w].mine
          /\ quota' = IF quota = w THEN "free" ELSE quota
      BY <2>7, FailMoves DEF ClonesInv
    <3>2. QuotaAgrees' /\ 0 <= made
      BY <2>2, <3>1, QuotaMoves DEF QuotaPlaces, ClonesInv
    <3>3. \A e \in clones : e.lease \in Workers \ {w} => e \in clones'
      BY <2>3, <2>7
    <3>4. \A m \in worker[w].mine : \E e \in clones' : e.id = m.id /\ e.lease = w /\ e.head = m.proof.head
      BY <2>2, <2>5, <2>7 DEF JobsOf
    <3>5. JobsOf(w, worker[w])'
      BY <2>2, <3>1, <3>4 DEF JobsOf
    <3>6. worker[w].at \in QuotaPlaces
      BY <2>1 DEF QuotaPlaces
    <3> QED
      BY <2>6, <2>7, <3>1, <3>2, <3>3, <3>5, <3>6, ClonesGo
  <2>8. ASSUME NEW c, c = [d EXCEPT !.head = remote[worker[w].proof.repo].head], clones' = (clones \ {d}) \cup {c},
               Enter(w, "verify"), UNCHANGED quota
        PROVE  ClonesInv'
    <3>1. c \in JobClone /\ c.id = d.id /\ c.lease = w
      <4>1. remote[worker[w].proof.repo].head \in Nat
        BY <2>1 DEF HeadProof, ClonesInv, CloneTypes, RemoteShape
      <4> QED
        BY <2>3, <2>4, <2>8, <4>1, CloneUpdates
    <3>2. /\ WorkerMoves(w) /\ worker'[w].at = "verify" /\ worker'[w].dir = worker[w].dir /\ worker'[w].mine = worker[w].mine
          /\ worker'[w].proof = worker[w].proof
      BY <2>8, EnterMoves DEF ClonesInv, ClonePlaces, QuotaPlaces
    <3>3. QuotaAgrees' /\ worker'[w].dir <= made
      BY <2>1, <2>8, <3>2, QuotaMoves DEF QuotaPlaces, ClonesInv, DirsAgree
    <3>4. \A m \in worker[w].mine : \E e \in clones' : e.id = m.id /\ e.lease = w /\ e.head = m.proof.head
      BY <2>2, <2>5, <2>8 DEF JobsOf
    <3>5. c \in clones'
      BY <2>8
    <3>6. JobsOf(w, worker[w])'
      BY <2>2, <2>3, <2>5, <3>1, <3>2, <3>4, <3>5 DEF JobsOf
    <3> QED
      BY <2>1, <2>3, <2>6, <2>8, <3>1, <3>2, <3>3, <3>6, CloneChanges
  <2> QED
    BY <1>2, <2>4, <2>7, <2>8 DEF CloneJob, JobChanged
<1>3. CASE VerifyJob(w)
  <2>1. worker[w] \in WorkerShape /\ worker[w].at = "verify" /\ quota = w /\ worker[w].proof \in HeadProof
    BY <1>3 DEF VerifyJob, ClonesInv, CloneTypes, QuotaAgrees, QuotaPlaces
  <2>2. JobsOf(w, worker[w]) /\ made \in Nat
    BY DEF ClonesInv, CloneTypes, JobsAgree
  <2>3. PICK d \in clones : d.id = worker[w].dir /\ d.lease = w
    BY <2>1, <2>2 DEF JobsOf
  <2>4. Dir(clones, worker[w].dir) = d /\ d \in JobClone
    BY <2>3, DirIs DEF ClonesInv, DirsAgree, CloneTypes
  <2>5. \A m \in worker[w].mine : m.id # d.id
    BY <2>1, <2>2, <2>3 DEF JobsOf
  <2>6. UNCHANGED <<remote, mirrors, made, work>>
    BY <1>3 DEF VerifyJob
  <2>7. CASE Fail(w) /\ clones' = clones \ {d}
    <3>1. WorkerMoves(w) /\ worker'[w].at = "drop" /\ worker'[w].dir = 0 /\ worker'[w].mine = worker[w].mine
          /\ quota' = IF quota = w THEN "free" ELSE quota
      BY <2>7, FailMoves DEF ClonesInv
    <3>2. QuotaAgrees' /\ 0 <= made
      BY <2>2, <3>1, QuotaMoves DEF QuotaPlaces, ClonesInv
    <3>3. \A e \in clones : e.lease \in Workers \ {w} => e \in clones'
      BY <2>3, <2>7
    <3>4. \A m \in worker[w].mine : \E e \in clones' : e.id = m.id /\ e.lease = w /\ e.head = m.proof.head
      BY <2>2, <2>5, <2>7 DEF JobsOf
    <3>5. JobsOf(w, worker[w])'
      BY <2>2, <3>1, <3>4 DEF JobsOf
    <3>6. worker[w].at \in QuotaPlaces
      BY <2>1 DEF QuotaPlaces
    <3> QED
      BY <2>6, <2>7, <3>1, <3>2, <3>3, <3>5, <3>6, ClonesGo
  <2> DEFINE given == [id |-> d.id, proof |-> worker[w].proof]
             r == [worker[w] EXCEPT !.at = "next", !.dir = 0, !.proof = None, !.mine = worker[w].mine \union {given}]
  <2>8. ASSUME d.head = worker[w].proof.head, clones' = clones, Set(w, r), quota' = "free"
        PROVE  ClonesInv'
    <3>1. given \in Given /\ given.id = d.id /\ given.proof = worker[w].proof
      BY <2>1, <2>4 DEF Given, JobClone
    <3> HIDE DEF given
    <3>2. worker[w].mine \union {given} \in SUBSET Given
      BY <2>1, <3>1 DEF WorkerShape
    <3>3. r \in WorkerShape
      BY <2>1, <3>2, RecordUpdates DEF ClonePlaces
    <3>4. r.at = "next" /\ r.dir = 0 /\ r.mine = worker[w].mine \union {given}
      BY <2>1 DEF WorkerShape
    <3> HIDE DEF r
    <3>5. WorkerMoves(w) /\ worker'[w] = r
      BY <2>8, <3>3, SetMoves DEF ClonesInv
    <3>6. QuotaAgrees' /\ 0 <= made
      BY <2>1, <2>2, <2>8, <3>4, <3>5, QuotaMoves DEF QuotaPlaces, ClonesInv
    <3>7. \A m \in r.mine : \E e \in clones' : e.id = m.id /\ e.lease = w /\ e.head = m.proof.head
      BY <2>2, <2>3, <2>8, <3>1, <3>4 DEF JobsOf
    <3>8. \A m, n \in r.mine : m.id = n.id => m = n
      BY <2>2, <2>5, <3>1, <3>4 DEF JobsOf
    <3>9. JobsOf(w, worker[w])'
      BY <3>4, <3>5, <3>7, <3>8 DEF JobsOf
    <3>10. worker[w].at \in QuotaPlaces
      BY <2>1 DEF QuotaPlaces
    <3> QED
      BY <2>6, <2>8, <3>4, <3>5, <3>6, <3>9, <3>10, ClonesGo
  <2> QED
    BY <1>3, <2>4, <2>7, <2>8 DEF VerifyJob
<1> QED
  BY <1>1, <1>2, <1>3

\* A worker gives its clones back, outside every lock, or dies.
LEMMA ReleaseSteps ==
  ASSUME ClonesInv, NEW w \in Workers, Unlock(w) \/ RemoveOwn(w) \/ Kill(w)
  PROVE  ClonesInv'
<1>1. CASE Unlock(w)
  <2>1. JobsOf(w, worker[w]) /\ made \in Nat
    BY DEF ClonesInv, CloneTypes, JobsAgree
  <2> DEFINE Freed(m) == [c \in clones |-> IF c.id = m.id THEN [c EXCEPT !.lease = "free"] ELSE c]
  <2>2. PICK m \in worker[w].mine : /\ Set(w, [worker[w] EXCEPT !.dir = m.id, !.mine = worker[w].mine \ {m}])
                                    /\ clones' = {IF c.id = m.id THEN [c EXCEPT !.lease = "free"] ELSE c : c \in clones}
    BY <1>1 DEF Unlock
  <2> DEFINE r == [worker[w] EXCEPT !.dir = m.id, !.mine = worker[w].mine \ {m}]
             f == Freed(m)
  <2>3. PICK d \in clones : d.id = m.id /\ d.lease = w
    BY <2>1 DEF JobsOf
  <2>4. worker[w] \in WorkerShape /\ worker[w].at = "drop" /\ m.id \in Nat /\ worker[w].mine \ {m} \in SUBSET Given
        /\ UNCHANGED <<remote, mirrors, made, quota, work>> /\ d \in JobClone /\ m.id <= made
    <3>1. worker[w] \in WorkerShape /\ worker[w].at = "drop" /\ UNCHANGED <<remote, mirrors, made, quota, work>> /\ d \in JobClone
      BY <1>1 DEF Unlock, ClonesInv, CloneTypes
    <3> QED
      BY <2>3, <3>1 DEF WorkerShape, Given, ClonesInv, DirsAgree
  <2>5. r \in WorkerShape /\ Set(w, r)
    BY <2>2, <2>4, RecordUpdates
  <2>6. r.at = "drop" /\ r.dir = m.id /\ r.mine = worker[w].mine \ {m}
    BY <2>4 DEF WorkerShape
  <2> HIDE DEF r
  <2>7. WorkerMoves(w) /\ worker'[w] = r
    BY <2>5, SetMoves DEF ClonesInv
  <2>8. QuotaAgrees'
    BY <2>4, <2>6, <2>7, QuotaMoves DEF QuotaPlaces, ClonesInv
  <2>9. f = [c \in clones |-> f[c]] /\ clones' = {f[c] : c \in clones}
    BY <2>2
  <2>10. \A c \in clones : IF c.id = m.id THEN c.lease = w /\ f[c] = [c EXCEPT !.lease = "free"] ELSE f[c] = c
    <3>1. \A c \in clones : c.id = m.id => c = d
      BY <2>3 DEF ClonesInv, DirsAgree
    <3> QED
      BY <2>3, <3>1
  <2> HIDE DEF f
  <2>11. JobsOf(w, worker[w])'
    <3>1. ASSUME NEW n \in r.mine PROVE \E c \in clones' : c.id = n.id /\ c.lease = w /\ c.head = n.proof.head
      <4>1. n.id # m.id
        BY <2>1, <2>6, <3>1 DEF JobsOf
      <4>2. PICK c \in clones : c.id = n.id /\ c.lease = w /\ c.head = n.proof.head
        BY <2>1, <2>6, <3>1 DEF JobsOf
      <4>3. c \in clones'
        BY <2>9, <2>10, <4>1, <4>2
      <4> QED
        BY <4>2, <4>3
    <3>2. ASSUME NEW c \in clones', c.id = m.id PROVE c.lease = "free"
      <4>1. PICK e \in clones : c = f[e]
        BY <2>9
      <4>2. e \in JobClone
        BY DEF ClonesInv, CloneTypes
      <4>3. [e EXCEPT !.lease = "free"].lease = "free"
        BY <4>2, CloneUpdates
      <4>4. e.id = m.id
        BY <2>10, <3>2, <4>1
      <4> QED
        BY <2>10, <4>1, <4>3, <4>4
    <3>3. \A x, y \in r.mine : x.id = y.id => x = y
      BY <2>1, <2>6 DEF JobsOf
    <3> QED
      BY <2>6, <2>7, <3>1, <3>2, <3>3 DEF JobsOf
  <2>12. work' \in WorkShape
    BY <2>4 DEF ClonesInv, CloneTypes
  <2>13. \A c \in clones : f[c] = c \/ (c.lease = w /\ f[c] = [c EXCEPT !.lease = "free"])
    BY <2>10
  <2>14. worker'[w].at \notin {"build", "publish"} /\ worker'[w].dir <= made /\ UNCHANGED <<remote, mirrors, made>>
    BY <2>4, <2>6, <2>7
  <2> HIDE DEF Freed
  <2> QED
    BY <2>7, <2>8, <2>9, <2>11, <2>12, <2>13, <2>14, LeasesFreed
<1>2. CASE RemoveOwn(w)
  <2>1. JobsOf(w, worker[w]) /\ made \in Nat
    BY DEF ClonesInv, CloneTypes, JobsAgree
  <2> DEFINE r == [worker[w] EXCEPT !.dir = 0]
  <2>2. worker[w] \in WorkerShape /\ worker[w].at = "drop" /\ worker[w].dir # 0 /\ Set(w, r)
        /\ clones' = {c \in clones : c.id # worker[w].dir} /\ UNCHANGED <<remote, mirrors, made, quota, work>>
    BY <1>2 DEF RemoveOwn, ClonesInv, CloneTypes
  <2>3. r \in WorkerShape
    BY <2>2, RecordUpdates
  <2>4. r.at = "drop" /\ r.dir = 0 /\ r.mine = worker[w].mine
    BY <2>2 DEF WorkerShape
  <2> HIDE DEF r
  <2>5. WorkerMoves(w) /\ worker'[w] = r
    BY <2>2, <2>3, SetMoves DEF ClonesInv
  <2>6. QuotaAgrees' /\ 0 <= made
    BY <2>1, <2>2, <2>4, <2>5, QuotaMoves DEF QuotaPlaces, ClonesInv
  <2>7. \A c \in clones : c.lease \in Workers \cup {"missing"} => c \in clones'
    BY <2>1, <2>2, CloneLimits DEF JobsOf
  <2>8. JobsOf(w, worker[w])'
    BY <2>1, <2>4, <2>5, <2>7 DEF JobsOf
  <2> QED
    BY <2>2, <2>4, <2>5, <2>6, <2>7, <2>8, ClonesGo
<1>3. CASE Kill(w)
  <2> DEFINE f == [c \in clones |-> IF c.lease = w THEN [c EXCEPT !.lease = "free"] ELSE c]
  <2>1. /\ Set(w, NewWorker) /\ quota' = (IF quota = w THEN "free" ELSE quota)
        /\ clones' = {f[c] : c \in clones} /\ UNCHANGED <<remote, mirrors, made>>
    BY <1>3 DEF Kill, Set
  <2>2. WorkerMoves(w) /\ worker'[w].mine = {} /\ worker'[w].dir = 0 /\ worker'[w].at = "down"
    BY <2>1, NewWorkerShape, SetMoves DEF ClonesInv
  <2>3. work' \in WorkShape
    BY <1>3, WorkUpdates DEF Kill, ClonesInv, CloneTypes
  <2>4. QuotaAgrees'
    BY <2>1, <2>2, QuotaMoves DEF QuotaPlaces, ClonesInv
  <2>5. f = [c \in clones |-> f[c]]
    OBVIOUS
  <2>6. \A c \in clones : f[c] = c \/ (c.lease = w /\ f[c] = [c EXCEPT !.lease = "free"])
    OBVIOUS
  <2> HIDE DEF f
  <2>7. JobsOf(w, worker[w])' /\ worker'[w].dir <= made
    BY <2>2 DEF JobsOf, ClonesInv, CloneTypes
  <2> QED
    BY <2>1, <2>2, <2>3, <2>4, <2>5, <2>6, <2>7, LeasesFreed
<1> QED
  BY <1>1, <1>2, <1>3

\* The default branch moves, a mirror grows old or is harmed.
LEMMA OutsideSteps ==
  ASSUME ClonesInv, MoveDefault \/ Decay
  PROVE  ClonesInv'
<1>1. CASE MoveDefault
  <2>1. work' \in WorkShape
    BY <1>1, WorkUpdates DEF MoveDefault, ClonesInv, CloneTypes
  <2>2. remote' \in [Repos -> RemoteShape]
    <3>1. PICK p \in Repos, renamed \in BOOLEAN :
            remote' = [remote EXCEPT ![p].head = @ + 1, ![p].branch = IF renamed THEN @ + 1 ELSE @]
      BY <1>1 DEF MoveDefault
    <3>2. remote \in [Repos -> RemoteShape]
      BY DEF ClonesInv, CloneTypes
    <3> DEFINE one == [remote EXCEPT ![p].head = @ + 1]
               b == IF renamed THEN remote[p].branch + 1 ELSE remote[p].branch
    <3>3. one \in [Repos -> RemoteShape] /\ b \in Nat
      BY <3>2 DEF RemoteShape
    <3>4. remote' = [one EXCEPT ![p].branch = b]
      BY <3>1
    <3> HIDE DEF one, b
    <3> QED
      BY <3>3, <3>4 DEF RemoteShape
  <2>3. UNCHANGED <<mirrors, clones, made, quota, worker>>
    BY <1>1 DEF MoveDefault, storage
  <2>4. CloneTypes' /\ QuotaAgrees' /\ DirsAgree'
    BY <2>1, <2>2, <2>3 DEF ClonesInv, CloneTypes, QuotaAgrees, DirsAgree
  <2>5. JobsAgree'
    BY <2>3 DEF ClonesInv, JobsAgree, JobsOf
  <2>6. MirrorsAgree'
    BY <2>3 DEF ClonesInv, MirrorsAgree, PublishedMirrors, CacheKey
  <2> QED
    BY <2>4, <2>5, <2>6 DEF ClonesInv
<1>2. CASE Decay
  <2>1. work' \in WorkShape
    BY <1>2, WorkUpdates DEF Decay, ClonesInv, CloneTypes
  <2>2. UNCHANGED <<remote, clones, made, quota, worker>>
    BY <1>2 DEF Decay
  <2>0. PICK m \in mirrors, aged \in BOOLEAN :
          mirrors' = (mirrors \ {m}) \union {IF aged THEN [m EXCEPT !.old = TRUE] ELSE [m EXCEPT !.sound = FALSE]}
    BY <1>2 DEF Decay
  <2>3. PICK n \in {[m EXCEPT !.old = TRUE], [m EXCEPT !.sound = FALSE]} : mirrors' = (mirrors \ {m}) \cup {n}
    BY <2>0, Zenon
  <2>4. n \in MirrorShape /\ n.id = m.id /\ n.key = m.key /\ n.branch = m.branch /\ n.building = m.building
    BY <2>3, MirrorUpdates DEF ClonesInv, CloneTypes
  <2>5. CloneTypes' /\ QuotaAgrees'
    BY <2>1, <2>2, <2>3, <2>4 DEF ClonesInv, CloneTypes, QuotaAgrees
  <2>6. DirsAgree'
    <3>1. \A c \in mirrors' : c.id <= made /\ \A d \in mirrors' : c.id = d.id => c = d
      BY <2>3, <2>4 DEF ClonesInv, DirsAgree
    <3> QED
      BY <2>2, <3>1 DEF ClonesInv, DirsAgree
  <2>7. JobsAgree'
    BY <2>2 DEF ClonesInv, JobsAgree, JobsOf
  <2>8. MirrorsAgree'
    <3>1. PublishedMirrors' = IF m.building THEN PublishedMirrors ELSE (PublishedMirrors \ {m}) \cup {n}
      BY <2>3, <2>4 DEF PublishedMirrors
    <3>2. \A p \in PublishedMirrors' : p.branch = p.key[2] /\ \A q \in PublishedMirrors' : p.key = q.key => p = q
      <4>1. CASE m.building
        BY <3>1, <4>1 DEF ClonesInv, MirrorsAgree
      <4>2. CASE ~m.building
        <5>1. m \in PublishedMirrors /\ PublishedMirrors' = (PublishedMirrors \ {m}) \cup {n}
          BY <3>1, <4>2 DEF PublishedMirrors
        <5> QED
          BY <2>4, <5>1 DEF ClonesInv, MirrorsAgree
      <4> QED
        BY <4>1, <4>2
    <3>3. \A p \in PublishedMirrors' : \E q \in PublishedMirrors : p.key = q.key
      BY <2>3, <2>4 DEF PublishedMirrors
    <3>4. \A q \in mirrors : \E p \in mirrors' : p.id = q.id /\ p.key = q.key /\ p.building = q.building
      BY <2>3, <2>4
    <3>5. ASSUME NEW w \in Workers, worker'[w].at \in {"build", "publish"}
          PROVE  /\ \A p \in PublishedMirrors' : p.key # CacheKey(worker[w].proof)'
                 /\ worker'[w].at = "publish" =>
                      \E p \in mirrors' : p.id = worker'[w].dir /\ p.building /\ p.key = CacheKey(worker[w].proof)'
      <4>1. CacheKey(worker[w].proof)' = CacheKey(worker[w].proof) /\ worker'[w] = worker[w]
        BY <2>2 DEF CacheKey
      <4> QED
        BY <3>3, <3>4, <3>5, <4>1 DEF ClonesInv, MirrorsAgree
    <3> QED
      BY <3>2, <3>5 DEF MirrorsAgree
  <2> QED
    BY <2>5, <2>6, <2>7, <2>8 DEF ClonesInv
<1> QED
  BY <1>1, <1>2

\* Before anything is cached.
LEMMA ClonesStart == CloneInit => ClonesInv
<1> SUFFICES ASSUME CloneInit PROVE ClonesInv
  OBVIOUS
<1>1. IsFiniteSet({}) /\ Cardinality({}) = 0 /\ MaxJobs \in Nat
  BY FS_EmptySet, CloneLimits
<1>2. CloneTypes
  BY <1>1, NewWorkerShape, CloneLimits DEF CloneInit, CloneTypes, RemoteShape, WorkShape
<1>3. QuotaAgrees /\ DirsAgree
  BY NewWorkerShape, CloneLimits DEF CloneInit, QuotaAgrees, QuotaPlaces, DirsAgree
<1>4. JobsAgree
  BY <1>1, NewWorkerShape DEF CloneInit, JobsAgree, JobsOf
<1>5. MirrorsAgree
  BY NewWorkerShape DEF CloneInit, MirrorsAgree, PublishedMirrors
<1> QED
  BY <1>2, <1>3, <1>4, <1>5 DEF ClonesInv

\* The clones keep their invariant: whoever builds, publishes, evicts or cleans holds the
\* quota, no two directories share a number, a lease names its worker until that worker gives
\* the clone back or dies, and a key under construction is not published.
THEOREM ClonesInvariant == CloneSpec => []ClonesInv
<1>1. CloneInit => ClonesInv
  BY ClonesStart
<1>2. ClonesInv /\ [CloneNext]_cloneVars => ClonesInv'
  <2> SUFFICES ASSUME ClonesInv, [CloneNext]_cloneVars PROVE ClonesInv'
    OBVIOUS
  <2>1. ASSUME NEW w \in Workers, Materialize(w) \/ Release(w) \/ Kill(w) PROVE ClonesInv'
    BY <2>1, CacheSteps, MirrorSteps, JobSteps, LeaseSteps, ReleaseSteps DEF Materialize, Release
  <2>2. CASE MoveDefault \/ Decay
    BY <2>2, OutsideSteps
  <2>3. CASE UNCHANGED cloneVars
    <3>1. UNCHANGED <<remote, mirrors, clones, made, quota, worker, work>>
      BY <2>3 DEF cloneVars
    <3>2. CloneTypes' /\ QuotaAgrees' /\ DirsAgree'
      BY <3>1 DEF ClonesInv, CloneTypes, QuotaAgrees, DirsAgree
    <3>3. JobsAgree'
      BY <3>1 DEF ClonesInv, JobsAgree, JobsOf
    <3>4. MirrorsAgree'
      BY <3>1 DEF ClonesInv, MirrorsAgree, PublishedMirrors, CacheKey
    <3> QED
      BY <3>2, <3>3, <3>4 DEF ClonesInv
  <2> QED
    BY <2>1, <2>2, <2>3 DEF CloneNext
<1> QED
  BY <1>1, <1>2, PTL DEF CloneSpec

\* However many workers share the directory, die and restart: a worktree that a worker was given
\* stays there, under its lease and at the head that was proved; the jobs stay within their bound;
\* and a key has at most one published mirror, of that key's branch.
THEOREM ClonesAreSound == CloneSpec => []ClonesSound
<1>1. ClonesInv => ClonesSound
  BY DEF ClonesInv, ClonesSound, JobsAgree, JobsOf, MirrorsAgree, PublishedMirrors
<1> QED
  BY <1>1, ClonesInvariant, PTL

-----------------------------------------------------------------------------
(* The recovery ledger and the loop.  What a command has read and will write *)
(* is a sound ledger too (HostsAgree), since the ledger is replaced as a     *)
(* whole; so whichever of two overlapping commands writes last, a reader     *)
(* finds one history.                                                        *)

LoopRecord == [ticks : Nat, failed : Nat, consecutive : Nat, recent : Seq(Nat), error : Errors \cup {NoRecord}, stopped : BOOLEAN]
WorldShape == [head : Nat, merged : Nat, tip : Nat]
AttemptShape == [attempt : Nat, outcome : Outcomes, op : 0..1, landed : Nat, retry : Nat]

LoopAgrees ==
  /\ loop \in LoopRecord /\ loop.failed <= loop.ticks
  /\ \A i \in 1..Len(loop.recent) : loop.recent[i] <= loop.ticks
  /\ LoopSound

Spent(r, e) == {i \in DOMAIN e.attempts : Retryable(r, e.attempts[i])}

\* One entry of a ledger, for request r, while the pull request is merged as m (0: not at all).
EntryAgrees(r, e, m) ==
  /\ e.attempts \in Seq(AttemptShape)
  /\ \A i \in DOMAIN e.attempts : e.attempts[i].attempt = i
  /\ \A i \in Spent(r, e) : i <= MaxAttempts /\ (i # MaxAttempts => e.attempts[i].retry = NextRetry(i))
  /\ (e.escalation # "none") <=> MaxAttempts \in Spent(r, e)
  /\ \A i \in DOMAIN e.attempts : e.attempts[i].outcome = "success" => m # 0

LedgerAgrees(l, m) == \A r \in DOMAIN l : EntryAgrees(r, l[r], m)

HostsAgree ==
  /\ host = [h \in Hosts |-> host[h]]
  /\ \A h \in Hosts : /\ host[h] = [pc |-> host[h].pc, req |-> host[h].req, copy |-> host[h].copy]
                      /\ host[h].pc \in {"idle", "request", "persist"}
  /\ \A h \in Hosts : host[h].pc = "persist" => LedgerAgrees(host[h].copy, world.merged)

LedgerInv == LoopAgrees /\ world \in WorldShape /\ LedgerAgrees(ledger, world.merged) /\ HostsAgree

\* A multiple grows with its factor.
LEMMA Multiples ==
  ASSUME NEW a \in Nat, NEW p \in Nat, NEW q \in Nat, 1 <= p, p <= q
  PROVE  a * p \in Nat /\ a * q \in Nat /\ a <= a * p /\ a * p <= a * q
<1>1. PICK x \in Nat : p = 1 + x
  <2>1. p - 1 \in Nat /\ p = 1 + (p - 1)
    OBVIOUS
  <2> QED
    BY <2>1
<1>2. PICK y \in Nat : q = p + y
  <2>1. q - p \in Nat /\ q = p + (q - p)
    OBVIOUS
  <2> QED
    BY <2>1
<1>3. a * x \in Nat /\ a * y \in Nat /\ a * p \in Nat /\ a * q \in Nat
  OBVIOUS
<1>4. a * p = a + a * x /\ a * q = a * p + a * y
  BY <1>1, <1>2
<1> QED
  BY <1>3, <1>4

\* Delays are within their limits and grow with the attempts.
LEMMA DelaysGrow ==
  ASSUME NEW i \in Nat \ {0}, NEW j \in Nat \ {0}, i <= j
  PROVE  NextRetry(i) \in InitialBackoff..MaxBackoff /\ NextRetry(j) \in InitialBackoff..MaxBackoff /\ NextRetry(i) <= NextRetry(j)
<1> DEFINE k == IF i - 1 < 20 THEN i - 1 ELSE 20
           l == IF j - 1 < 20 THEN j - 1 ELSE 20
           p == 2 ^ k
           q == 2 ^ l
<1>1. k \in 0..20 /\ l \in 0..20 /\ k <= l
  OBVIOUS
<1>2. NextRetry(i) = (IF InitialBackoff * p < MaxBackoff THEN InitialBackoff * p ELSE MaxBackoff)
      /\ NextRetry(j) = (IF InitialBackoff * q < MaxBackoff THEN InitialBackoff * q ELSE MaxBackoff)
  BY DEF NextRetry
<1> HIDE DEF k, l
<1>3. p \in Nat /\ q \in Nat /\ 1 <= p /\ p <= q
  BY <1>1, Doubling
<1> HIDE DEF p, q
<1>4. InitialBackoff \in Nat /\ MaxBackoff \in Nat /\ InitialBackoff <= MaxBackoff
  BY RecoveryBounds
<1> DEFINE a == InitialBackoff * p
           b == InitialBackoff * q
<1>5. a \in Nat /\ b \in Nat /\ InitialBackoff <= a /\ a <= b
  BY <1>3, <1>4, Multiples
<1> HIDE DEF a, b
<1>6. NextRetry(i) = (IF a < MaxBackoff THEN a ELSE MaxBackoff) /\ NextRetry(j) = (IF b < MaxBackoff THEN b ELSE MaxBackoff)
  BY <1>2 DEF a, b
<1> QED
  BY <1>4, <1>5, <1>6

\* The loop keeps the newest failures.
LEMMA KeepIs ==
  ASSUME NEW fs \in Seq(Nat), NEW n \in Nat, Len(fs) <= Retained
  PROVE  /\ Keep(fs, n) \in Seq(Nat)
         /\ Len(Keep(fs, n)) = IF Len(fs) = Retained THEN Retained ELSE Len(fs) + 1
         /\ Keep(fs, n)[Len(Keep(fs, n))] = n
         /\ \A i \in 1..(Len(Keep(fs, n)) - 1) : Keep(fs, n)[i] = fs[IF Len(fs) = Retained THEN i + 1 ELSE i]
<1>1. Retained \in Nat \ {0} /\ Len(fs) \in Nat
  BY RecoveryBounds
<1>2. CASE Len(fs) = Retained
  <2>1. fs # <<>>
    BY <1>1, <1>2
  <2>2. Tail(fs) \in Seq(Nat) /\ Len(Tail(fs)) = Len(fs) - 1 /\ \A i \in 1..(Len(fs) - 1) : Tail(fs)[i] = fs[i + 1]
    BY <2>1
  <2> DEFINE t == Tail(fs)
  <2> HIDE DEF t
  <2>3. Keep(fs, n) = Append(t, n) /\ t \in Seq(Nat) /\ Len(t) = Len(fs) - 1 /\ \A i \in 1..(Len(fs) - 1) : t[i] = fs[i + 1]
    BY <1>2, <2>2 DEF Keep, t
  <2>4. Append(t, n) \in Seq(Nat) /\ Len(Append(t, n)) = Len(t) + 1 /\ Append(t, n)[Len(t) + 1] = n
        /\ \A i \in 1..Len(t) : Append(t, n)[i] = t[i]
    BY <2>3
  <2> QED
    BY <1>1, <1>2, <2>3, <2>4
<1>3. CASE Len(fs) # Retained
  <2>1. Keep(fs, n) = Append(fs, n)
    BY <1>3 DEF Keep
  <2>2. Append(fs, n) \in Seq(Nat) /\ Len(Append(fs, n)) = Len(fs) + 1 /\ Append(fs, n)[Len(fs) + 1] = n
        /\ \A i \in 1..Len(fs) : Append(fs, n)[i] = fs[i]
    OBVIOUS
  <2> QED
    BY <1>1, <1>3, <2>1, <2>2
<1> QED
  BY <1>2, <1>3

\* The parts of the loop's record change one by one.
LEMMA LoopUpdates ==
  /\ \A l \in LoopRecord, n \in Nat : /\ [l EXCEPT !.ticks = n] \in LoopRecord
                                      /\ [l EXCEPT !.failed = n] \in LoopRecord
                                      /\ [l EXCEPT !.consecutive = n] \in LoopRecord
  /\ \A l \in LoopRecord, fs \in Seq(Nat) : [l EXCEPT !.recent = fs] \in LoopRecord
  /\ \A l \in LoopRecord, e \in Errors : [l EXCEPT !.error = e] \in LoopRecord
  BY DEF LoopRecord

\* The loop's own record.
LEMMA LoopStep ==
  ASSUME LoopAgrees, TickSucceeds \/ Stop \/ (\E e \in Errors : TickFails(e))
  PROVE  LoopAgrees'
<1>1. /\ loop \in LoopRecord /\ loop.ticks \in Nat /\ loop.failed \in Nat /\ loop.consecutive \in Nat /\ loop.recent \in Seq(Nat)
      /\ loop.failed <= loop.ticks /\ Len(loop.recent) \in Nat /\ Retained \in Nat \ {0}
  BY RecoveryBounds DEF LoopAgrees, LoopRecord
<1>2. CASE TickSucceeds
  <2>1. /\ loop' \in LoopRecord /\ loop'.ticks = loop.ticks + 1 /\ loop'.failed = loop.failed /\ loop'.consecutive = 0
        /\ loop'.recent = loop.recent
    <3>1. loop' = [loop EXCEPT !.ticks = loop.ticks + 1, !.consecutive = 0]
      BY <1>2 DEF TickSucceeds
    <3>2. loop.ticks + 1 \in Nat /\ 0 \in Nat
      BY <1>1
    <3>3. loop' \in LoopRecord
      BY <1>1, <3>1, <3>2, LoopUpdates
    <3> QED
      BY <1>1, <3>1, <3>3 DEF LoopRecord
  <2>2. \A i \in 1..Len(loop.recent) : loop.recent[i] <= loop.ticks /\ loop.recent[i] \in Nat
    BY <1>1 DEF LoopAgrees
  <2>3. LoopSound'
    <3>1. Len(loop'.recent) = (IF loop'.failed < Retained THEN loop'.failed ELSE Retained)
      BY <2>1 DEF LoopAgrees, LoopSound
    <3>2. \A i \in 1..Len(loop'.recent) - 1 : loop'.recent[i] < loop'.recent[i + 1]
      BY <2>1 DEF LoopAgrees, LoopSound
    <3>3. \A i \in 1..Len(loop'.recent) : ~(i > Len(loop'.recent) - loop'.consecutive)
      BY <1>1, <2>1
    <3> QED
      BY <3>1, <3>2, <3>3 DEF LoopSound
  <2>4. \A i \in 1..Len(loop'.recent) : loop'.recent[i] <= loop'.ticks
    BY <1>1, <2>1, <2>2
  <2> QED
    BY <1>1, <2>1, <2>3, <2>4 DEF LoopAgrees
<1>3. CASE Stop
  <2>1. \A b \in BOOLEAN : LET l == [loop EXCEPT !.stopped = b] IN
          /\ l \in LoopRecord /\ l.ticks = loop.ticks /\ l.failed = loop.failed /\ l.consecutive = loop.consecutive
          /\ l.recent = loop.recent
    BY <1>1, SMT DEF LoopRecord
  <2>2. /\ loop' \in LoopRecord /\ loop'.ticks = loop.ticks /\ loop'.failed = loop.failed
        /\ loop'.consecutive = loop.consecutive /\ loop'.recent = loop.recent
    BY <1>3, <2>1, Zenon DEF Stop
  <2> QED
    BY <2>2 DEF LoopAgrees, LoopSound
<1>4. ASSUME NEW e \in Errors, TickFails(e) PROVE LoopAgrees'
  <2> DEFINE fs == loop.recent
             t == loop.ticks
             kept == Keep(fs, t + 1)
             n == Len(fs)
  <2>1. n = (IF loop.failed < Retained THEN loop.failed ELSE Retained) /\ n <= Retained
        /\ (\A i \in 1..n - 1 : fs[i] < fs[i + 1])
        /\ (\A i \in 1..n : i > n - loop.consecutive => fs[i] = t - (n - i))
        /\ (\A i \in 1..n : fs[i] <= t /\ fs[i] \in Nat)
    BY <1>1 DEF LoopAgrees, LoopSound
  <2>2. /\ kept \in Seq(Nat) /\ Len(kept) = (IF n = Retained THEN Retained ELSE n + 1) /\ kept[Len(kept)] = t + 1
        /\ \A i \in 1..(Len(kept) - 1) : kept[i] = fs[IF n = Retained THEN i + 1 ELSE i]
    <3>1. t + 1 \in Nat
      BY <1>1
    <3> QED
      BY <1>1, <2>1, <3>1, KeepIs
  <2>3. /\ loop' \in LoopRecord /\ loop'.ticks = t + 1 /\ loop'.failed = loop.failed + 1
        /\ loop'.consecutive = loop.consecutive + 1 /\ loop'.recent = kept
    <3> HIDE DEF kept
    <3>1. loop' = [loop EXCEPT !.ticks = t + 1, !.failed = loop.failed + 1, !.consecutive = loop.consecutive + 1,
                               !.recent = kept, !.error = e]
      BY <1>4 DEF TickFails, kept
    <3>2. t + 1 \in Nat /\ loop.failed + 1 \in Nat /\ loop.consecutive + 1 \in Nat
      BY <1>1
    <3>3. loop' \in LoopRecord
      BY <1>1, <2>2, <3>1, <3>2, LoopUpdates
    <3> QED
      BY <1>1, <3>1, <3>3 DEF LoopRecord
  <2> DEFINE m == Len(kept)
             c == loop.consecutive
  <2>4. m \in Nat /\ n \in Nat /\ t \in Nat /\ c \in Nat /\ m \in 1..Retained
    BY <1>1, <2>1, <2>2
  <2> HIDE DEF kept, n, t, fs, c
  <2>5. m = (IF loop.failed + 1 < Retained THEN loop.failed + 1 ELSE Retained)
    BY <1>1, <2>1, <2>2
  <2>6. ASSUME NEW i \in 1..m - 1
        PROVE  kept[i] <= t /\ kept[i] \in Nat /\ kept[i] < kept[i + 1] /\ (i > m - (c + 1) => kept[i] = (t + 1) - (m - i))
    <3>1. CASE n = Retained
      <4>1. kept[i] = fs[i + 1] /\ m = n /\ i + 1 \in 1..n
        BY <2>2, <2>4, <2>6, <3>1
      <4>2. fs[i + 1] <= t /\ fs[i + 1] \in Nat /\ (i + 1 > n - c => fs[i + 1] = t - (n - (i + 1)))
        BY <2>1, <4>1 DEF c
      <4>3. i = m - 1 => kept[i + 1] = t + 1
        BY <2>2, <2>4, <2>6
      <4>4. i # m - 1 => i + 1 \in 1..m - 1 /\ kept[i + 1] = fs[(i + 1) + 1] /\ fs[i + 1] < fs[(i + 1) + 1]
        BY <2>1, <2>2, <2>4, <2>6, <3>1, <4>1
      <4> QED
        BY <2>4, <4>1, <4>2, <4>3, <4>4
    <3>2. CASE n # Retained
      <4>1. kept[i] = fs[i] /\ m = n + 1 /\ i \in 1..n
        BY <2>2, <2>4, <2>6, <3>2
      <4>2. fs[i] <= t /\ fs[i] \in Nat /\ (i > n - c => fs[i] = t - (n - i))
        BY <2>1, <4>1 DEF c
      <4>3. i = m - 1 => kept[i + 1] = t + 1
        BY <2>2, <2>4, <2>6
      <4>4. ASSUME i # m - 1 PROVE i + 1 \in 1..m - 1 /\ kept[i + 1] = fs[i + 1] /\ fs[i] < fs[i + 1]
        <5>1. i + 1 \in 1..m - 1 /\ i \in 1..n - 1
          BY <2>4, <2>6, <4>1, <4>4
        <5>2. kept[i + 1] = fs[i + 1]
          BY <2>2, <3>2, <5>1
        <5> QED
          BY <2>1, <5>1, <5>2
      <4> QED
        BY <2>4, <4>1, <4>2, <4>3, <4>4
    <3> QED
      BY <3>1, <3>2
  <2>7. \A i \in 1..m : kept[i] <= t + 1 /\ (i > m - (c + 1) => kept[i] = (t + 1) - (m - i))
    <3>1. ASSUME NEW i \in 1..m PROVE kept[i] <= t + 1 /\ (i > m - (c + 1) => kept[i] = (t + 1) - (m - i))
      <4>1. CASE i = m
        BY <2>2, <2>4, <4>1
      <4>2. CASE i # m
        <5>1. i \in 1..m - 1
          BY <2>4, <4>2
        <5> QED
          BY <2>4, <2>6, <5>1
      <4> QED
        BY <4>1, <4>2
    <3> QED
      BY <3>1
  <2>8. LoopSound'
    BY <2>3, <2>5, <2>6, <2>7 DEF LoopSound, c
  <2>9. loop'.failed <= loop'.ticks
    BY <1>1, <2>3 DEF t
  <2> QED
    BY <2>3, <2>7, <2>8, <2>9 DEF LoopAgrees
<1> QED
  BY <1>2, <1>3, <1>4

\* An attempt that is neither over the limit nor a claim without proof extends an entry.
LEMMA EntryGrows ==
  ASSUME NEW r, NEW e, NEW m, EntryAgrees(r, e, m), NEW outcome \in Outcomes, NEW op \in 0..1, NEW landed \in Nat,
         ~(outcome = "transient_failure" /\ r.disposition = "retry_transient" /\ Len(e.attempts) >= MaxAttempts),
         outcome = "success" => m # 0
  PROVE  EntryAgrees(r, Recorded(e, r, outcome, op, landed), m)
<1> DEFINE s == e.attempts
           n == Len(s) + 1
           retryable == outcome = "transient_failure" /\ r.disposition = "retry_transient"
           exhausted == retryable /\ n >= MaxAttempts
           retry == IF retryable /\ ~exhausted THEN NextRetry(n) ELSE 0
           a == [attempt |-> n, outcome |-> outcome, op |-> op, landed |-> landed, retry |-> retry]
           raised == IF exhausted /\ e.escalation = "none" THEN Escalation(r) ELSE e.escalation
           new == Recorded(e, r, outcome, op, landed)
<1>1. s \in Seq(AttemptShape) /\ Len(s) \in Nat /\ n \in Nat \ {0} /\ MaxAttempts \in Nat \ {0}
  BY RecoveryBounds DEF EntryAgrees
<1>2. new.attempts = Append(s, a) /\ new.escalation = raised
  BY DEF Recorded, Exhausted
<1>3. retry \in Nat
  <2>1. NextRetry(n) \in Nat
    <3> HIDE DEF n
    <3>1. n <= n
      BY <1>1
    <3>2. NextRetry(n) \in InitialBackoff..MaxBackoff
      BY <1>1, <3>1, DelaysGrow
    <3> QED
      BY <3>2, RecoveryBounds
  <2> QED
    BY <2>1
<1>4. (retryable => n <= MaxAttempts) /\ (exhausted <=> retryable /\ n = MaxAttempts)
  BY <1>1
<1>5. retryable /\ n # MaxAttempts => retry = NextRetry(n)
  BY <1>4
<1>6. Escalation(r) # "none"
  BY DEF Escalation
<1> HIDE DEF retry
<1>7. a \in AttemptShape /\ a.attempt = n /\ a.outcome = outcome /\ a.retry = retry
  BY <1>1, <1>3 DEF AttemptShape
<1>8. (Retryable(r, a) <=> retryable)
  BY <1>7 DEF Retryable
<1>9. exhausted => raised # "none"
  BY <1>6
<1>10. ~exhausted => raised = e.escalation
  OBVIOUS
<1> HIDE DEF a, raised, new, retryable, exhausted
<1>11. /\ new.attempts \in Seq(AttemptShape) /\ DOMAIN new.attempts = 1..n /\ DOMAIN s = 1..(n - 1) /\ new.attempts[n] = a
       /\ \A i \in 1..(n - 1) : new.attempts[i] = s[i]
  BY <1>1, <1>2, <1>7
<1> HIDE DEF s, n
<1>12. \A i \in 1..n : i = n \/ i \in 1..(n - 1)
  BY <1>1
<1>13. \A i \in DOMAIN new.attempts : new.attempts[i].attempt = i /\ (new.attempts[i].outcome = "success" => m # 0)
  <2>1. ASSUME NEW i \in DOMAIN new.attempts
        PROVE  new.attempts[i].attempt = i /\ (new.attempts[i].outcome = "success" => m # 0)
    <3>1. CASE i = n
      BY <1>7, <1>11, <3>1
    <3>2. CASE i # n
      <4>1. i \in DOMAIN s /\ new.attempts[i] = s[i]
        BY <1>11, <1>12, <3>2
      <4> QED
        BY <4>1 DEF EntryAgrees, s
    <3> QED
      BY <3>1, <3>2
  <2> QED
    BY <2>1
<1>14. \A i \in DOMAIN new.attempts : i \in Spent(r, new) <=> (IF i = n THEN retryable ELSE i \in Spent(r, e))
  BY <1>8, <1>11, <1>12 DEF Spent, s
<1>15. \A i \in Spent(r, new) : i <= MaxAttempts /\ (i # MaxAttempts => new.attempts[i].retry = NextRetry(i))
  <2>1. ASSUME NEW i \in Spent(r, new)
        PROVE  i <= MaxAttempts /\ (i # MaxAttempts => new.attempts[i].retry = NextRetry(i))
    <3>1. i \in DOMAIN new.attempts
      BY DEF Spent
    <3>2. CASE i = n
      BY <1>4, <1>5, <1>7, <1>11, <1>14, <3>1, <3>2
    <3>3. CASE i # n
      <4>1. i \in Spent(r, e) /\ new.attempts[i] = s[i]
        BY <1>11, <1>12, <1>14, <3>1, <3>3
      <4> QED
        BY <4>1 DEF EntryAgrees, s
    <3> QED
      BY <3>2, <3>3
  <2> QED
    BY <2>1
<1>16. MaxAttempts \in Spent(r, new) <=> exhausted \/ MaxAttempts \in Spent(r, e)
  <2>1. Spent(r, new) \subseteq 1..n /\ Spent(r, e) \subseteq 1..(n - 1)
    BY <1>11 DEF Spent, s
  <2>2. n \notin 1..(n - 1) /\ 1..(n - 1) \subseteq 1..n /\ n \in 1..n
    BY <1>1
  <2>3. CASE MaxAttempts = n
    BY <1>4, <1>11, <1>14, <2>1, <2>2, <2>3
  <2>4. CASE MaxAttempts # n
    BY <1>4, <1>11, <1>14, <2>1, <2>2, <2>4
  <2> QED
    BY <2>3, <2>4
<1>17. (new.escalation # "none") <=> MaxAttempts \in Spent(r, new)
  BY <1>2, <1>9, <1>10, <1>16 DEF EntryAgrees
<1> QED
  BY <1>11, <1>13, <1>15, <1>17 DEF EntryAgrees, new

\* A request that nobody has answered yet.
LEMMA EntryStarts ==
  ASSUME NEW r, NEW m, NEW e, e.attempts = <<>>, e.escalation = "none"
  PROVE  EntryAgrees(r, e, m)
<1>1. <<>> \in Seq(AttemptShape) /\ DOMAIN e.attempts = {}
  OBVIOUS
<1>2. Spent(r, e) = {}
  BY <1>1 DEF Spent
<1> QED
  BY <1>1, <1>2 DEF EntryAgrees

\* What was a sound ledger stays one when the provider moves on.
LEMMA LedgerStays ==
  ASSUME NEW l, NEW m, NEW n, LedgerAgrees(l, m), m # 0 => n # 0
  PROVE  LedgerAgrees(l, n)
  BY DEF LedgerAgrees, EntryAgrees

\* A command changes what it keeps to something sound.
LEMMA HostMoves ==
  ASSUME LedgerInv, NEW h \in Hosts, NEW x, host' = [host EXCEPT ![h] = x], x = [pc |-> x.pc, req |-> x.req, copy |-> x.copy],
         x.pc \in {"idle", "request", "persist"}, x.pc = "persist" => LedgerAgrees(x.copy, world.merged), world' = world
  PROVE  HostsAgree'
<1>1. \A g \in Hosts : host'[g] = IF g = h THEN x ELSE host[g]
  BY DEF LedgerInv, HostsAgree
<1>2. host' = [g \in Hosts |-> host'[g]]
  BY DEF LedgerInv, HostsAgree
<1>3. ASSUME NEW g \in Hosts
      PROVE  /\ host'[g] = [pc |-> host'[g].pc, req |-> host'[g].req, copy |-> host'[g].copy]
             /\ host'[g].pc \in {"idle", "request", "persist"}
             /\ host'[g].pc = "persist" => LedgerAgrees(host'[g].copy, world'.merged)
  <2>1. CASE g = h
    <3>1. host'[g] = x
      BY <1>1, <2>1
    <3> QED
      BY <3>1
  <2>2. CASE g # h
    <3>1. host'[g] = host[g]
      BY <1>1, <2>2
    <3> QED
      BY <3>1 DEF LedgerInv, HostsAgree
  <2> QED
    BY <2>1, <2>2
<1> QED
  BY <1>2, <1>3 DEF HostsAgree

\* A command that is not doing anything.
LEMMA IdleHost == Idle = [pc |-> Idle.pc, req |-> Idle.req, copy |-> Idle.copy] /\ Idle.pc = "idle"
  BY DEF Idle

\* A record of three parts, two of which change.
LEMMA HostRecord ==
  ASSUME NEW x, x = [pc |-> x.pc, req |-> x.req, copy |-> x.copy], NEW q
  PROVE  [x EXCEPT !.pc = "request", !.req = q] = [pc |-> "request", req |-> q, copy |-> x.copy]
<1> DEFINE y == [x EXCEPT !.pc = "request", !.req = q]
<1>1. x \in [pc : {x.pc}, req : {x.req}, copy : {x.copy}]
  OBVIOUS
<1>2. y \in [pc : {"request"}, req : {q}, copy : {x.copy}]
  BY <1>1
<1> HIDE DEF y
<1>3. y = [pc |-> y.pc, req |-> y.req, copy |-> y.copy]
  BY <1>2
<1>4. y.pc = "request" /\ y.req = q /\ y.copy = x.copy
  BY <1>2
<1> QED
  BY <1>3, <1>4 DEF y

\* The steps of a command.
LEMMA HostStep ==
  ASSUME LedgerInv, NEW h \in Hosts,
         \/ ReadFreshStatus(h) \/ LoadForRequest(h) \/ Persist(h) \/ Dies(h)
         \/ \E r \in DOMAIN ledger, outcome \in Reported, op \in 0..1 :
              \E landed \in IF outcome = "success" THEN 1..world.tip ELSE {0} :
                LoadForAttempt(h, r, outcome, op, landed)
  PROVE  LedgerInv'
<1>1. ASSUME loop' = loop, world' = world, LedgerAgrees(ledger', world.merged), HostsAgree' PROVE LedgerInv'
  <2>1. LoopAgrees' /\ (world \in WorldShape)'
    BY <1>1 DEF LedgerInv, LoopAgrees, LoopSound
  <2>2. LedgerAgrees(ledger, world.merged)'
    BY <1>1
  <2> QED
    BY <1>1, <2>1, <2>2 DEF LedgerInv
<1>2. CASE ReadFreshStatus(h)
  <2> DEFINE x == [pc |-> "request", req |-> Request(loop.error, world), copy |-> host[h].copy]
  <2>1. host[h] = [pc |-> host[h].pc, req |-> host[h].req, copy |-> host[h].copy] /\ host = [g \in Hosts |-> host[g]]
    BY DEF LedgerInv, HostsAgree
  <2> DEFINE q == Request(loop.error, world)
  <2> HIDE DEF q
  <2>2. host' = [host EXCEPT ![h].pc = "request", ![h].req = q]
    BY <1>2 DEF ReadFreshStatus, q
  <2>3. [host[h] EXCEPT !.pc = "request", !.req = q] = [pc |-> "request", req |-> q, copy |-> host[h].copy]
    BY <2>1, HostRecord
  <2>4. host' = [host EXCEPT ![h] = [host[h] EXCEPT !.pc = "request", !.req = q]]
    BY <2>1, <2>2
  <2>5. host' = [host EXCEPT ![h] = x]
    BY <2>3, <2>4 DEF q
  <2>6. x = [pc |-> x.pc, req |-> x.req, copy |-> x.copy] /\ x.pc = "request"
    OBVIOUS
  <2> HIDE DEF x
  <2>7. HostsAgree'
    BY <1>2, <2>5, <2>6, HostMoves DEF ReadFreshStatus
  <2> QED
    BY <1>1, <1>2, <2>7 DEF ReadFreshStatus, LedgerInv
<1>3. CASE LoadForRequest(h)
  <2> DEFINE r == host[h].req
             copy == [q \in DOMAIN ledger \cup {r} |->
                        IF q = r THEN [attempts |-> <<>>, escalation |-> "none", completed |-> FALSE] ELSE ledger[q]]
             y == [pc |-> "persist", req |-> r, copy |-> copy]
             x == IF r \in DOMAIN ledger THEN Idle ELSE y
  <2>1. host' = [host EXCEPT ![h] = x] /\ UNCHANGED <<loop, world, ledger>>
    BY <1>3 DEF LoadForRequest
  <2>2. LedgerAgrees(copy, world.merged)
    <3>1. EntryAgrees(r, [attempts |-> <<>>, escalation |-> "none", completed |-> FALSE], world.merged)
      BY EntryStarts
    <3>2. \A q \in DOMAIN ledger : EntryAgrees(q, ledger[q], world.merged)
      BY DEF LedgerInv, LedgerAgrees
    <3>3. DOMAIN copy = DOMAIN ledger \cup {r}
      OBVIOUS
    <3>4. ASSUME NEW q \in DOMAIN copy PROVE EntryAgrees(q, copy[q], world.merged)
      <4>1. CASE q = r
        <5>1. copy[q] = [attempts |-> <<>>, escalation |-> "none", completed |-> FALSE]
          BY <4>1
        <5> QED
          BY <3>1, <4>1, <5>1
      <4>2. CASE q # r
        <5>1. copy[q] = ledger[q] /\ q \in DOMAIN ledger
          BY <4>2
        <5> QED
          BY <3>2, <5>1
      <4> QED
        BY <4>1, <4>2
    <3> QED
      BY <3>4 DEF LedgerAgrees
  <2> HIDE DEF copy
  <2>3. y = [pc |-> y.pc, req |-> y.req, copy |-> y.copy] /\ y.pc = "persist" /\ y.copy = copy
    OBVIOUS
  <2> HIDE DEF y
  <2>4. x = [pc |-> x.pc, req |-> x.req, copy |-> x.copy] /\ x.pc \in {"idle", "request", "persist"}
        /\ (x.pc = "persist" => LedgerAgrees(x.copy, world.merged))
    <3>1. CASE r \in DOMAIN ledger
      <4>1. x = Idle
        BY <3>1
      <4> HIDE DEF x
      <4> QED
        BY <4>1, IdleHost
    <3>2. CASE r \notin DOMAIN ledger
      <4>1. x = y
        BY <3>2
      <4> HIDE DEF x
      <4> QED
        BY <2>2, <2>3, <4>1
    <3> QED
      BY <3>1, <3>2
  <2> HIDE DEF x
  <2>5. HostsAgree'
    BY <2>1, <2>4, HostMoves
  <2> QED
    BY <1>1, <2>1, <2>5 DEF LedgerInv
<1>4. CASE Persist(h) \/ Dies(h)
  <2>1. host' = [host EXCEPT ![h] = Idle] /\ world' = world /\ loop' = loop
    BY <1>4 DEF Persist, Dies
  <2>2. HostsAgree'
    BY <2>1, IdleHost, HostMoves
  <2>3. LedgerAgrees(ledger', world.merged)
    <3>1. CASE Persist(h)
      <4>1. ledger' = host[h].copy /\ LedgerAgrees(host[h].copy, world.merged)
        BY <3>1 DEF Persist, LedgerInv, HostsAgree
      <4> QED
        BY <4>1
    <3>2. CASE Dies(h)
      <4>1. ledger' = ledger /\ LedgerAgrees(ledger, world.merged)
        BY <3>2 DEF Dies, LedgerInv
      <4> QED
        BY <4>1
    <3> QED
      BY <1>4, <3>1, <3>2
  <2> QED
    BY <1>1, <2>1, <2>2, <2>3
<1>5. ASSUME NEW r \in DOMAIN ledger, NEW outcome \in Reported, NEW op \in 0..1,
             NEW landed \in IF outcome = "success" THEN 1..world.tip ELSE {0}, LoadForAttempt(h, r, outcome, op, landed)
      PROVE  LedgerInv'
  <2> DEFINE entry == ledger[r]
             full == /\ outcome = "transient_failure" /\ r.disposition = "retry_transient"
                     /\ Len(entry.attempts) >= MaxAttempts
             valid == outcome = "success" => SuccessVerified(landed)
             new == Recorded(entry, r, outcome, op, landed)
             y == [pc |-> "persist", req |-> r, copy |-> [ledger EXCEPT ![r] = new]]
             x == IF ~valid \/ Duplicate(entry, outcome, op) \/ full THEN Idle ELSE y
  <2>1. host' = [host EXCEPT ![h] = x] /\ UNCHANGED <<loop, world, ledger>>
    BY <1>5 DEF LoadForAttempt
  <2>2. outcome \in Outcomes /\ landed \in Nat
    BY RecoveryBounds DEF LedgerInv, WorldShape
  <2>3. ASSUME valid, ~full PROVE LedgerAgrees(y.copy, world.merged)
    <3>1. \A q \in DOMAIN ledger : EntryAgrees(q, ledger[q], world.merged)
      BY DEF LedgerInv, LedgerAgrees
    <3>2. EntryAgrees(r, entry, world.merged) /\ (outcome = "success" => world.merged # 0)
      BY <2>3, <3>1 DEF SuccessVerified
    <3>3. EntryAgrees(r, new, world.merged)
      <4> HIDE DEF entry
      <4> QED
        BY <2>2, <2>3, <3>2, EntryGrows
    <3> HIDE DEF new
    <3>4. y.copy = [ledger EXCEPT ![r] = new]
      OBVIOUS
    <3> DEFINE copy == [ledger EXCEPT ![r] = new]
    <3>5. DOMAIN copy = DOMAIN ledger /\ \A q \in DOMAIN ledger : copy[q] = IF q = r THEN new ELSE ledger[q]
      OBVIOUS
    <3> HIDE DEF copy
    <3>6. ASSUME NEW q \in DOMAIN copy PROVE EntryAgrees(q, copy[q], world.merged)
      <4>1. CASE q = r
        <5>1. copy[q] = new
          BY <3>5, <4>1
        <5> QED
          BY <3>3, <4>1, <5>1
      <4>2. CASE q # r
        <5>1. copy[q] = ledger[q] /\ q \in DOMAIN ledger
          BY <3>5, <4>2
        <5> QED
          BY <3>1, <5>1
      <4> QED
        BY <4>1, <4>2
    <3> QED
      BY <3>4, <3>6 DEF LedgerAgrees, copy
  <2> HIDE DEF new
  <2>4. y = [pc |-> y.pc, req |-> y.req, copy |-> y.copy] /\ y.pc = "persist"
    OBVIOUS
  <2> HIDE DEF y
  <2>5. x = [pc |-> x.pc, req |-> x.req, copy |-> x.copy] /\ x.pc \in {"idle", "request", "persist"}
        /\ (x.pc = "persist" => LedgerAgrees(x.copy, world.merged))
    <3>1. CASE ~valid \/ Duplicate(entry, outcome, op) \/ full
      <4>1. x = Idle
        BY <3>1
      <4> HIDE DEF x
      <4> QED
        BY <4>1, IdleHost
    <3>2. CASE ~(~valid \/ Duplicate(entry, outcome, op) \/ full)
      <4>1. x = y /\ valid /\ ~full
        BY <3>2
      <4> HIDE DEF x, valid, full
      <4> QED
        BY <2>3, <2>4, <4>1
    <3> QED
      BY <3>1, <3>2
  <2> HIDE DEF x
  <2>6. HostsAgree'
    BY <2>1, <2>5, HostMoves
  <2> QED
    BY <1>1, <2>1, <2>6 DEF LedgerInv
<1> QED
  BY <1>2, <1>3, <1>4, <1>5

\* The loop and the provider leave the ledgers alone, and what is merged stays merged.
LEMMA LedgerOutside ==
  ASSUME LedgerInv, UNCHANGED <<ledger, host>>, LoopAgrees', world' \in WorldShape, world.merged # 0 => world'.merged # 0
  PROVE  LedgerInv'
<1>1. LedgerAgrees(ledger, world'.merged) /\ \A h \in Hosts : host[h].pc = "persist" => LedgerAgrees(host[h].copy, world'.merged)
  BY LedgerStays DEF LedgerInv, HostsAgree
<1>2. LedgerAgrees(ledger, world.merged)' /\ HostsAgree'
  BY <1>1 DEF LedgerInv, HostsAgree
<1> QED
  BY <1>2 DEF LedgerInv

\* The recovery ledger keeps its invariant: what any command has read and will write is a ledger
\* of whole histories, and the loop counts every failure of the row that is going on.
THEOREM LedgerInvariant == LedgerSpec => []LedgerInv
<1>1. LedgerInit => LedgerInv
  <2> SUFFICES ASSUME LedgerInit PROVE LedgerInv
    OBVIOUS
  <2>1. loop \in LoopRecord /\ loop.ticks = 0 /\ loop.failed = 0 /\ loop.consecutive = 0 /\ loop.recent = <<>>
    <3>1. \A b \in BOOLEAN :
            [ticks |-> 0, failed |-> 0, consecutive |-> 0, recent |-> <<>>, error |-> NoRecord, stopped |-> b] \in LoopRecord
      BY SMT DEF LoopRecord
    <3>2. LoopStart \in LoopRecord
      BY <3>1, Zenon DEF LoopStart
    <3> QED
      BY <3>2 DEF LedgerInit, LoopStart
  <2>2. LoopAgrees
    BY <2>1, RecoveryBounds DEF LoopAgrees, LoopSound
  <2>3. world \in WorldShape
    BY DEF LedgerInit, WorldShape
  <2>4. LedgerAgrees(ledger, world.merged)
    BY DEF LedgerInit, NoRequests, LedgerAgrees
  <2>5. HostsAgree
    BY IdleHost DEF LedgerInit, HostsAgree
  <2> QED
    BY <2>2, <2>3, <2>4, <2>5 DEF LedgerInv
<1>2. LedgerInv /\ [LedgerNext]_ledgerVars => LedgerInv'
  <2> SUFFICES ASSUME LedgerInv, [LedgerNext]_ledgerVars PROVE LedgerInv'
    OBVIOUS
  <2>1. CASE TickSucceeds \/ Stop \/ \E e \in Errors : TickFails(e)
    <3>1. LoopAgrees'
      BY <2>1, LoopStep DEF LedgerInv
    <3>2. UNCHANGED <<world, ledger, host>>
      BY <2>1 DEF TickSucceeds, Stop, TickFails
    <3> QED
      BY <3>1, <3>2, LedgerOutside DEF LedgerInv
  <2>2. CASE World
    <3>1. world' \in WorldShape /\ (world.merged # 0 => world'.merged # 0)
      <4>1. world \in WorldShape /\ world.tip + 1 \in Nat /\ world.head + 1 \in Nat /\ world.tip + 1 # 0
        BY DEF LedgerInv, WorldShape
      <4>2. CASE Lands
        BY <4>1, <4>2 DEF Lands, WorldShape
      <4>3. CASE OtherLands
        BY <4>1, <4>3 DEF OtherLands, WorldShape
      <4>4. CASE HeadMoves
        BY <4>1, <4>4 DEF HeadMoves, WorldShape
      <4> QED
        BY <2>2, <4>2, <4>3, <4>4 DEF World
    <3>2. UNCHANGED <<loop, ledger, host>>
      BY <2>2 DEF World
    <3>3. LoopAgrees'
      BY <3>2 DEF LedgerInv, LoopAgrees, LoopSound
    <3> QED
      BY <3>1, <3>2, <3>3, LedgerOutside
  <2>3. CASE UNCHANGED ledgerVars
    <3>1. UNCHANGED <<loop, world, ledger, host>>
      BY <2>3 DEF ledgerVars
    <3>2. LoopAgrees'
      BY <3>1 DEF LedgerInv, LoopAgrees, LoopSound
    <3> QED
      BY <3>1, <3>2, LedgerOutside DEF LedgerInv
  <2> QED
    BY <2>1, <2>2, <2>3, HostStep DEF LedgerNext
<1> QED
  BY <1>1, <1>2, PTL DEF LedgerSpec

\* Whatever commands overlap, overwrite each other or die: in every ledger a reader can see the
\* attempts are numbered in a row, delays grow within the limit, an escalation is there exactly
\* when the last allowed attempt failed, and a success means that the pull request is merged; and
\* the loop's record of its failures is exact.
THEOREM LedgerIsSound == LedgerSpec => []LedgerSound
<1>1. LedgerInv => LedgerSound
  <2> SUFFICES ASSUME LedgerInv PROVE LedgerSound
    OBVIOUS
  <2>1. LedgerTypeOK /\ LoopSound
    <3>1. LoopSound /\ loop.failed <= loop.ticks /\ loop.failed \in Nat /\ Retained \in Nat
      BY RecoveryBounds DEF LedgerInv, LoopAgrees, LoopRecord
    <3>2. Len(loop.recent) <= Retained
      BY <3>1 DEF LoopSound
    <3>3. \A q \in DOMAIN ledger : \A i \in DOMAIN ledger[q].attempts : ledger[q].attempts[i].outcome \in Outcomes
      <4>1. ASSUME NEW q \in DOMAIN ledger, NEW i \in DOMAIN ledger[q].attempts PROVE ledger[q].attempts[i].outcome \in Outcomes
        <5>1. ledger[q].attempts \in Seq(AttemptShape)
          BY DEF LedgerInv, LedgerAgrees, EntryAgrees
        <5>2. ledger[q].attempts[i] \in AttemptShape
          BY <5>1
        <5> QED
          BY <5>2 DEF AttemptShape
      <4> QED
        BY <4>1
    <3>4. \A h \in Hosts : host[h].pc \in {"idle", "request", "persist"}
      BY DEF LedgerInv, HostsAgree
    <3> QED
      BY <3>1, <3>2, <3>3, <3>4 DEF LedgerTypeOK
  <2>2. ASSUME NEW r \in DOMAIN ledger
        PROVE  LET e == ledger[r]
                   spent == {i \in DOMAIN e.attempts : Retryable(r, e.attempts[i])}
               IN /\ \A i \in DOMAIN e.attempts : e.attempts[i].attempt = i
                  /\ \A i \in spent : i <= MaxAttempts
                  /\ (e.escalation # "none") <=> MaxAttempts \in spent
                  /\ \A i, j \in spent \ {MaxAttempts} :
                       /\ e.attempts[i].retry \in InitialBackoff..MaxBackoff
                       /\ i < j => e.attempts[i].retry <= e.attempts[j].retry
                  /\ \A i \in DOMAIN e.attempts : e.attempts[i].outcome = "success" => world.merged # 0
    <3> DEFINE e == ledger[r]
               spent == {i \in DOMAIN e.attempts : Retryable(r, e.attempts[i])}
    <3>1. EntryAgrees(r, e, world.merged)
      BY DEF LedgerInv, LedgerAgrees
    <3>2. spent = Spent(r, e)
      BY DEF Spent
    <3> HIDE DEF e
    <3>3. spent \subseteq Nat \ {0}
      BY <3>1 DEF EntryAgrees
    <3> HIDE DEF spent
    <3>4. \A i \in spent \ {MaxAttempts} : e.attempts[i].retry = NextRetry(i)
      BY <3>1, <3>2 DEF EntryAgrees
    <3>5. ASSUME NEW i \in spent \ {MaxAttempts}, NEW j \in spent \ {MaxAttempts}
          PROVE  /\ e.attempts[i].retry \in InitialBackoff..MaxBackoff
                 /\ i < j => e.attempts[i].retry <= e.attempts[j].retry
      <4>1. i \in Nat \ {0} /\ j \in Nat \ {0} /\ i <= i /\ (i < j => i <= j)
        BY <3>3
      <4>2. NextRetry(i) \in InitialBackoff..MaxBackoff /\ (i < j => NextRetry(i) <= NextRetry(j))
        BY <4>1, DelaysGrow
      <4> QED
        BY <3>4, <4>2
    <3>6. (\A i \in spent : i <= MaxAttempts) /\ ((e.escalation # "none") <=> MaxAttempts \in spent)
      BY <3>1, <3>2 DEF EntryAgrees
    <3>7. \A i \in DOMAIN e.attempts : e.attempts[i].attempt = i /\ (e.attempts[i].outcome = "success" => world.merged # 0)
      BY <3>1 DEF EntryAgrees
    <3> QED
      BY <3>5, <3>6, <3>7 DEF e, spent
  <2> QED
    BY <2>1, <2>2 DEF LedgerSound
<1> QED
  BY <1>1, LedgerInvariant, PTL
-----------------------------------------------------------------------------
(* The status pass.  Whatever an answer says of the repository was seen in *)
(* some generation at some moment that is not before the pass, or not      *)
(* before the cache that the pass took it from; the moments stay true      *)
(* while the repository moves on.                                          *)

AnswerKinds == {"none", "complete", "current", "last_good", "error", "unavailable"}
AnswerShape == [kind : AnswerKinds, healthy : BOOLEAN, from : Nat, at : Nat, config : Nat]
CallPlaces == {"idle", "load", "discover", "labels", "prepare", "check", "project", "return", "expired", "exit", "done"}
CallModes == {"cli", "poll", "exact"}
Flags == BOOLEAN
CallShape ==
  [at : CallPlaces, mode : CallModes, parent : Nat, config : Nat, start : Nat, deadline : Int, compat : Int,
   graph : Nat, label : Nat, complete : Flags, checkpoint : Flags, watch : Flags, answer : AnswerShape]

\* Generation g was the present one at time t.
SeenAtTime(g, t) == began[g] <= t /\ (g = gen \/ (g < gen /\ began[g + 1] >= t))
SeenWithin(g, since, to) == g \in Generations /\ \E t \in Int : since <= t /\ t <= to /\ SeenAtTime(g, t)
SoundWithin(part, since, to) == \E g \in Generations : SeenWithin(g, since, to) /\ faulty[g] # part

Vouched(a) ==
  /\ a.from <= a.at /\ a.at <= now
  /\ a.healthy => /\ a.kind = "complete"
                  /\ SoundWithin("graph", a.from, a.at) /\ SoundWithin("stack", a.from, a.at)
                  /\ SoundWithin("labels", a.from - LabelAge, a.at)

\* An answer that is kept: a complete one, of a pass no longer than this.
KeptAnswer(a, longest) ==
  a \in AnswerShape /\ a.kind \in {"none", "complete"} /\ Vouched(a) /\ a.at - a.from <= longest

StoresOK ==
  /\ KeptAnswer(lastGood, Watchdog) /\ KeptAnswer(polled, StatusBudget)
  /\ labels \in [at : Nat, gen : Int]
  /\ labels.gen # Absent => labels.gen \in Generations /\ labels.at <= now /\ SeenAtTime(labels.gen, labels.at)

\* What an answer that a caller gets is worth.
Slack(x) == IF x.mode = "poll" THEN CacheAge + StatusBudget ELSE 0
AnswerWorth(x, a) ==
  /\ Vouched(a)
  /\ a.healthy => x.start - Slack(x) <= a.from
  /\ a.kind = "last_good" => x.start - a.from <= LastGoodAge + Watchdog
  /\ a.kind \in {"complete", "current", "last_good"} => a.config \in {x.parent, x.config}
  /\ x.mode # "cli" => a.kind \in {"complete", "error"}

CallOK(x) ==
  /\ x.start <= now
  /\ x.at \notin {"idle", "done"} => now <= x.start + (IF x.mode = "cli" THEN Watchdog ELSE StatusBudget)
  /\ x.at \in {"load", "exit"} \/ x.watch => x.mode = "cli"
  /\ x.at \in {"labels", "prepare", "check", "project"} => SeenWithin(x.graph, x.start, now)
  /\ x.at \in {"prepare", "check", "project"} => SeenWithin(x.label, x.start - LabelAge, now)
  /\ x.at = "project" /\ x.mode # "cli" => x.complete
  /\ x.at = "return" => x.answer.from = x.start /\ x.answer.kind \in {"complete", "current"}
  /\ x.at \in {"return", "exit", "done"} => AnswerWorth(x, x.answer)

WorldOK ==
  /\ now \in Nat /\ gen \in Generations /\ began \in [Generations -> Nat] /\ began[gen] <= now
  /\ config \in Nat

StatusInv ==
  /\ WorldOK /\ StoresOK
  /\ call \in [Callers -> CallShape] /\ \A c \in Callers : CallOK(call[c])

\* The constants of the module.
LEMMA StatusConstants ==
  /\ LastGen \in Nat /\ StatusBudget \in Nat /\ Watchdog \in Nat /\ LastGoodAge \in Nat /\ CacheAge \in Nat
  /\ LabelAge \in Nat /\ PostReserve \in Nat /\ CompatBudget \in Nat /\ Generations \subseteq Nat
BY StatusBounds DEF Generations

\* The present generation is seen now, and what was seen stays seen.
LEMMA SeenNow == ASSUME WorldOK PROVE \A since \in Int : since <= now => SeenWithin(gen, since, now)
BY StatusConstants DEF WorldOK, SeenWithin, SeenAtTime

LEMMA SeenLater ==
  ASSUME WorldOK, UNCHANGED <<gen, began>> \/ (gen < LastGen /\ gen' = gen + 1 /\ began' = [began EXCEPT ![gen + 1] = now])
  PROVE  \A g \in Generations, t \in Int : t <= now /\ SeenAtTime(g, t) => SeenAtTime(g, t)'
<1> SUFFICES ASSUME NEW g \in Generations, NEW t \in Int, t <= now, SeenAtTime(g, t) PROVE SeenAtTime(g, t)'
  OBVIOUS
<1>1. CASE UNCHANGED <<gen, began>>
  BY <1>1 DEF SeenAtTime
<1>2. CASE gen < LastGen /\ gen' = gen + 1 /\ began' = [began EXCEPT ![gen + 1] = now]
  <2>1. g \in Nat /\ gen \in Nat /\ now \in Nat /\ gen + 1 \in Generations /\ began \in [Generations -> Nat]
    BY <1>2, StatusConstants DEF WorldOK, Generations
  <2>2. CASE g = gen
    <3>1. began'[g] = began[g] /\ began'[g + 1] = now
      BY <1>2, <2>1, <2>2
    <3> QED
      BY <1>2, <2>1, <2>2, <3>1 DEF SeenAtTime
  <2>3. CASE g # gen
    <3>1. g < gen /\ began[g + 1] >= t /\ began[g] <= t
      BY <2>3 DEF SeenAtTime
    <3>2. g # gen + 1 /\ g + 1 # gen + 1 /\ g < gen + 1
      BY <2>1, <3>1
    <3>3. g + 1 \in Generations
      BY <2>1, <3>1, StatusConstants DEF Generations
    <3>4. began'[g] = began[g] /\ began'[g + 1] = began[g + 1]
      BY <1>2, <2>1, <3>2, <3>3
    <3> QED
      BY <1>2, <3>1, <3>2, <3>4 DEF SeenAtTime
  <2> QED
    BY <2>2, <2>3
<1> QED
  BY <1>1, <1>2

\* The interval may grow.
LEMMA WithinWider ==
  ASSUME NEW g, NEW a \in Int, NEW b \in Int, NEW c \in Int, NEW d \in Int, c <= a, b <= d, SeenWithin(g, a, b)
  PROVE  SeenWithin(g, c, d)
<1>1. PICK t \in Int : a <= t /\ t <= b /\ SeenAtTime(g, t) /\ g \in Generations
  BY DEF SeenWithin
<1>2. c <= t /\ t <= d
  BY <1>1
<1> QED
  BY <1>1, <1>2 DEF SeenWithin

LEMMA SoundWider ==
  ASSUME NEW part, NEW a \in Int, NEW b \in Int, NEW c \in Int, NEW d \in Int, c <= a, b <= d, SoundWithin(part, a, b)
  PROVE  SoundWithin(part, c, d)
BY WithinWider DEF SoundWithin

\* An answer stays vouched for while its evidence does.
StillSeen ==
  /\ now \in Nat /\ now' \in Nat /\ now <= now' /\ faulty' = faulty
  /\ \A g \in Generations, t \in Int : t <= now /\ SeenAtTime(g, t) => SeenAtTime(g, t)'

LEMMA WithinLater ==
  ASSUME StillSeen, NEW g, NEW a \in Int, NEW b \in Int, b <= now, SeenWithin(g, a, b)
  PROVE  SeenWithin(g, a, b)'
<1>1. PICK t \in Int : a <= t /\ t <= b /\ SeenAtTime(g, t) /\ g \in Generations
  BY DEF SeenWithin
<1>2. t <= now
  BY <1>1 DEF StillSeen
<1>3. SeenAtTime(g, t)'
  BY <1>1, <1>2 DEF StillSeen
<1> QED
  BY <1>1, <1>3 DEF SeenWithin

LEMMA VouchedLater ==
  ASSUME StillSeen, NEW a \in AnswerShape, Vouched(a)
  PROVE  Vouched(a)'
<1>1. a.from \in Nat /\ a.at \in Nat /\ a.from - LabelAge \in Int /\ a.at <= now /\ a.from <= a.at
  BY StatusConstants DEF AnswerShape, Vouched
<1>2. a.at <= now'
  BY <1>1 DEF StillSeen
<1>3. ASSUME NEW part, NEW since \in Int, SoundWithin(part, since, a.at) PROVE SoundWithin(part, since, a.at)'
  <2>1. PICK g \in Generations : SeenWithin(g, since, a.at) /\ faulty[g] # part
    BY <1>3 DEF SoundWithin
  <2>2. SeenWithin(g, since, a.at)'
    BY <1>1, <2>1, WithinLater
  <2> QED
    BY <2>1, <2>2 DEF SoundWithin, StillSeen
<1> QED
  BY <1>1, <1>2, <1>3 DEF Vouched

\* No answer, and an error.
LEMMA EmptyAnswers ==
  /\ NoAnswer \in AnswerShape /\ NoAnswer.kind = "none" /\ ~NoAnswer.healthy /\ NoAnswer.from = 0 /\ NoAnswer.at = 0
  /\ \A kind \in AnswerKinds : /\ Failed(kind) \in AnswerShape /\ Failed(kind).kind = kind
                               /\ ~Failed(kind).healthy /\ Failed(kind).from = 0 /\ Failed(kind).at = 0
<1>1. NoAnswer \in AnswerShape /\ NoAnswer.kind = "none" /\ NoAnswer.from = 0 /\ NoAnswer.at = 0
  BY DEF NoAnswer, AnswerShape, AnswerKinds
<1>2. ~NoAnswer.healthy
  BY DEF NoAnswer
<1>3. \A kind \in AnswerKinds : /\ Failed(kind) \in AnswerShape /\ Failed(kind).kind = kind
                                /\ Failed(kind).healthy = NoAnswer.healthy /\ Failed(kind).from = 0 /\ Failed(kind).at = 0
  BY <1>1 DEF Failed, AnswerShape
<1> QED
  BY <1>1, <1>2, <1>3

\* A call's parts, one by one.
LEMMA CallFields ==
  ASSUME NEW y \in CallShape
  PROVE  /\ y.at \in CallPlaces /\ y.mode \in CallModes /\ y.parent \in Nat /\ y.config \in Nat /\ y.start \in Nat
         /\ y.deadline \in Int /\ y.compat \in Int /\ y.graph \in Nat /\ y.label \in Nat
         /\ y.complete \in BOOLEAN /\ y.checkpoint \in BOOLEAN /\ y.watch \in BOOLEAN /\ y.answer \in AnswerShape
BY DEF CallShape, Flags

LEMMA NoCallShape == NoCall \in CallShape /\ NoCall.at = "idle" /\ ~NoCall.watch /\ NoCall.start = 0
<1>1. NoCall.at = "idle" /\ NoCall.start = 0
  BY DEF NoCall
<1>2. ~NoCall.watch
  BY DEF NoCall
<1>3. NoCall \in CallShape
  <2>1. "idle" \in CallPlaces /\ "cli" \in CallModes /\ 0 \in Nat /\ 0 \in Int /\ FALSE \in BOOLEAN /\ NoAnswer \in AnswerShape
    BY EmptyAnswers DEF CallPlaces, CallModes
  <2> QED
    BY <2>1, Zenon DEF NoCall, CallShape, Flags
<1> QED
  BY <1>1, <1>2, <1>3

\* What is known of a call in progress.
LEMMA StatusFacts ==
  ASSUME StatusInv
  PROVE  /\ now \in Nat /\ gen \in Generations /\ config \in Nat /\ began \in [Generations -> Nat] /\ WorldOK /\ StoresOK
         /\ call \in [Callers -> CallShape]
         /\ \A c \in Callers : call[c] \in CallShape /\ CallOK(call[c])
BY DEF StatusInv, WorldOK

\* A step of one call while the repository stands still.
LEMMA CallStep ==
  ASSUME StatusInv, NEW c \in Callers, NEW x \in CallShape, CallOK(x), call' = [call EXCEPT ![c] = x],
         UNCHANGED outer, StoresOK'
  PROVE  StatusInv'
<1>0. UNCHANGED <<now, gen, began, faulty, config>>
  BY DEF outer
<1>1. WorldOK'
  BY <1>0 DEF StatusInv, WorldOK
<1>2. call' \in [Callers -> CallShape]
  BY StatusFacts
<1>3. \A y : CallOK(y) => CallOK(y)'
  BY <1>0 DEF CallOK, SeenWithin, SeenAtTime, AnswerWorth, Vouched, SoundWithin, Slack
<1>4. ASSUME NEW d \in Callers PROVE CallOK(call[d])'
  <2>1. call'[d] = IF d = c THEN x ELSE call[d]
    BY StatusFacts
  <2>2. CallOK(call'[d])
    BY <2>1, StatusFacts
  <2>3. PICK z : z = call'[d]
    OBVIOUS
  <2>4. CallOK(z)'
    BY <1>3, <2>2, <2>3
  <2> QED
    BY <2>3, <2>4 DEF CallOK, SeenWithin, SeenAtTime, AnswerWorth, Vouched, SoundWithin, Slack
<1> QED
  BY <1>1, <1>2, <1>4 DEF StatusInv

LEMMA StoresSame == ASSUME StatusInv, UNCHANGED <<outer, lastGood, polled, labels>> PROVE StoresOK'
<1>0. UNCHANGED <<now, gen, began, faulty, lastGood, polled, labels>>
  BY DEF outer
<1> QED
  BY <1>0 DEF StatusInv, StoresOK, KeptAnswer, Vouched, SoundWithin, SeenWithin, SeenAtTime

\* The pass is over: what is left of the call.
OverCall(y, p, a) ==
  [NoCall EXCEPT !.at = p, !.answer = a, !.mode = y.mode, !.start = y.start, !.parent = y.parent,
     !.config = y.config, !.watch = p # "done" /\ y.watch, !.checkpoint = p # "done" /\ y.checkpoint]

LEMMA OverShape ==
  ASSUME NEW y \in CallShape, NEW p \in CallPlaces, NEW a \in AnswerShape
  PROVE  LET x == OverCall(y, p, a)
         IN  /\ x \in CallShape /\ x.at = p /\ x.answer = a /\ x.mode = y.mode /\ x.start = y.start
             /\ x.parent = y.parent /\ x.config = y.config /\ (x.watch => y.watch)
<1> DEFINE w == p # "done" /\ y.watch
           h == p # "done" /\ y.checkpoint
<1>1. w \in Flags /\ h \in Flags /\ (w => y.watch)
  BY DEF Flags
<1> HIDE DEF w, h
<1>2. PICK m \in CallModes, s \in Nat, q \in Nat, k \in Nat :
        m = y.mode /\ s = y.start /\ q = y.parent /\ k = y.config
  BY CallFields
<1> DEFINE x == [NoCall EXCEPT !.at = p, !.answer = a, !.mode = m, !.start = s, !.parent = q,
                   !.config = k, !.watch = w, !.checkpoint = h]
<1>4. /\ x \in CallShape /\ x.at = p /\ x.mode = m
      /\ x.parent = q /\ x.config = k /\ x.start = s /\ x.watch = w /\ x.answer = a
  BY <1>1, NoCallShape DEF NoCall, CallShape
<1> HIDE DEF x
<1>5. x.watch => y.watch
  BY <1>1, <1>4
<1> QED
  BY <1>2, <1>4, <1>5, Zenon DEF w, h, x, OverCall

\* A pass that ends with an answer, in one of the places where it counts or none.
LEMMA OverInv ==
  ASSUME StatusInv, NEW c \in Callers, NEW p \in {"return", "expired", "exit", "done"}, NEW a \in AnswerShape,
         Over(c, p, a), UNCHANGED outer, StoresOK', call[c].at \notin {"idle", "done"},
         p = "return" => a.from = call[c].start /\ a.kind \in {"complete", "current"},
         p = "exit" => call[c].mode = "cli",
         p # "expired" => AnswerWorth(call[c], a)
  PROVE  StatusInv'
<1>1. PICK x \in CallShape :
        /\ call' = [call EXCEPT ![c] = x]
        /\ x.at = p /\ x.answer = a /\ x.mode = call[c].mode /\ x.start = call[c].start
        /\ x.parent = call[c].parent /\ x.config = call[c].config /\ (x.watch => call[c].watch)
  <2>1. p \in CallPlaces /\ call[c] \in CallShape
    BY StatusFacts DEF CallPlaces
  <2>2. call' = [call EXCEPT ![c] = OverCall(call[c], p, a)]
    BY DEF Over, OverCall
  <2> DEFINE x == OverCall(call[c], p, a)
  <2>3. /\ x \in CallShape /\ x.at = p /\ x.answer = a /\ x.mode = call[c].mode /\ x.start = call[c].start
        /\ x.parent = call[c].parent /\ x.config = call[c].config /\ (x.watch => call[c].watch)
    BY <2>1, OverShape
  <2> HIDE DEF x
  <2> QED
    BY <2>2, <2>3 DEF x
<1>2. CallOK(call[c])
  BY StatusFacts
<1>3. p # "expired" => AnswerWorth(x, x.answer)
  BY <1>1 DEF AnswerWorth, Slack
<1>4. CallOK(x)
  BY <1>1, <1>2, <1>3 DEF CallOK
<1> QED
  BY <1>1, <1>4, CallStep

\* An error, and no answer at all.
LEMMA FailedWorth ==
  ASSUME WorldOK, NEW x \in CallShape, NEW kind \in {"error", "unavailable"}, x.mode # "cli" => kind = "error"
  PROVE  AnswerWorth(x, Failed(kind)) /\ Failed(kind) \in AnswerShape
<1>1. /\ Failed(kind) \in AnswerShape /\ Failed(kind).kind = kind /\ ~Failed(kind).healthy
      /\ Failed(kind).from = 0 /\ Failed(kind).at = 0
  BY EmptyAnswers DEF AnswerKinds
<1>2. 0 <= now
  BY DEF WorldOK
<1> QED
  BY <1>1, <1>2 DEF AnswerWorth, Vouched

\* The last complete answer, if it is not too old.
LEMMA LastGoodWorth ==
  ASSUME StatusInv, NEW x \in CallShape, x.mode = "cli", x.start <= now, NEW k \in {x.parent, x.config}
  PROVE  AnswerWorth(x, LastGoodFor(k)) /\ LastGoodFor(k) \in AnswerShape
<1>1. CASE Usable(lastGood, k)
  <2>1. LastGoodFor(k) = RecoverPartialStatus(lastGood)
    BY <1>1 DEF LastGoodFor
  <2>2. /\ lastGood \in AnswerShape /\ Vouched(lastGood) /\ lastGood.at - lastGood.from <= Watchdog
        /\ lastGood.config = k /\ now - lastGood.at <= LastGoodAge
    BY <1>1 DEF StatusInv, StoresOK, KeptAnswer, Usable
  <2>3. PICK a : a = RecoverPartialStatus(lastGood)
    OBVIOUS
  <2>4. a \in AnswerShape /\ a.kind = "last_good" /\ a.from = lastGood.from /\ a.at = lastGood.at /\ a.config = lastGood.config
    <3>1. \A y \in AnswerShape, z \in AnswerKinds, b \in BOOLEAN :
            LET u == [y EXCEPT !.kind = z, !.healthy = b]
            IN  u \in AnswerShape /\ u.kind = z /\ u.from = y.from /\ u.at = y.at /\ u.config = y.config
      BY DEF AnswerShape
    <3>2. "last_good" \in AnswerKinds /\ FALSE \in BOOLEAN
      BY DEF AnswerKinds
    <3> QED
      BY <2>2, <2>3, <3>1, <3>2, Zenon DEF RecoverPartialStatus
  <2>5. ~a.healthy
    <3>1. \A y \in AnswerShape : \A z, b : [y EXCEPT !.kind = z, !.healthy = b].healthy = b
      BY DEF AnswerShape
    <3> QED
      BY <2>2, <2>3, <3>1, Zenon DEF RecoverPartialStatus
  <2>6. x.start - a.from <= LastGoodAge + Watchdog
    <3>1. a.from \in Nat /\ a.at \in Nat /\ x.start \in Nat /\ now \in Nat /\ LastGoodAge \in Nat /\ Watchdog \in Nat
      BY <2>4, StatusFacts, CallFields, StatusConstants DEF AnswerShape
    <3>2. a.at - a.from <= Watchdog /\ now - a.at <= LastGoodAge
      BY <2>2, <2>4
    <3> QED
      BY <3>1, <3>2
  <2>7. Vouched(a)
    BY <2>2, <2>4, <2>5 DEF Vouched
  <2> QED
    BY <2>1, <2>2, <2>3, <2>4, <2>5, <2>6, <2>7 DEF AnswerWorth
<1>2. CASE ~Usable(lastGood, k)
  <2>1. LastGoodFor(k) = Failed("unavailable")
    BY <1>2 DEF LastGoodFor
  <2> QED
    BY <2>1, FailedWorth, StatusFacts
<1> QED
  BY <1>1, <1>2

\* A vouched answer with a later time of delivery.
LEMMA DeliveredLater ==
  ASSUME WorldOK, NEW a \in AnswerShape, Vouched(a)
  PROVE  LET d == [a EXCEPT !.at = now]
         IN  /\ d \in AnswerShape /\ Vouched(d) /\ d.kind = a.kind /\ d.healthy = a.healthy
             /\ d.from = a.from /\ d.config = a.config /\ d.at = now
<1>0. now \in Nat
  BY DEF WorldOK
<1>1. PICK d : d = [a EXCEPT !.at = now]
  OBVIOUS
<1>2. d \in AnswerShape /\ d.kind = a.kind /\ d.healthy = a.healthy /\ d.from = a.from /\ d.config = a.config /\ d.at = now
  BY <1>0, <1>1 DEF AnswerShape
<1>3. a.from \in Nat /\ a.at \in Nat /\ a.from <= a.at /\ a.at <= now /\ now <= now /\ a.from <= now /\ LabelAge \in Nat
      /\ a.from - LabelAge \in Int
  BY <1>0, StatusConstants DEF AnswerShape, Vouched
<1>4. \A part : /\ SoundWithin(part, a.from, a.at) => SoundWithin(part, a.from, now)
                /\ SoundWithin(part, a.from - LabelAge, a.at) => SoundWithin(part, a.from - LabelAge, now)
  <2>1. a.from \in Int /\ a.at \in Int /\ now \in Int /\ a.from <= a.from /\ a.from - LabelAge <= a.from - LabelAge
    BY <1>0, <1>3
  <2> QED
    BY <1>3, <2>1, SoundWider
<1>5. Vouched(d)
  BY <1>2, <1>3, <1>4 DEF Vouched
<1> QED
  BY <1>1, <1>2, <1>5

\* A call that begins.
LEMMA BeginInv == ASSUME StatusInv, NEW c \in Callers, Begin(c) PROVE StatusInv'
<1>0. UNCHANGED outer /\ now \in Nat /\ config \in Nat /\ StatusBudget \in Nat /\ Watchdog \in Nat /\ now <= now + Watchdog
      /\ now <= now + StatusBudget /\ now + StatusBudget \in Int /\ now <= now
  BY StatusFacts, StatusConstants DEF Begin
<1>1. CASE CliBegins(c)
  <2> DEFINE x == [NoCall EXCEPT !.at = "load", !.parent = config, !.start = now]
  <2>1. x \in CallShape /\ x.at = "load" /\ x.mode = "cli" /\ x.start = now
    <3>1. "load" \in CallPlaces
      BY DEF CallPlaces
    <3> QED
      BY <1>0, <3>1, NoCallShape DEF NoCall, CallShape
  <2>2. call' = [call EXCEPT ![c] = x] /\ StoresOK'
    BY <1>0, <1>1, StoresSame DEF CliBegins, stores
  <2> HIDE DEF x
  <2>3. CallOK(x)
    BY <1>0, <2>1 DEF CallOK
  <2> QED
    BY <1>0, <2>1, <2>2, <2>3, CallStep
<1>2. ASSUME NEW m \in {"poll", "exact"}, ExactBegins(c, m) PROVE StatusInv'
  <2> DEFINE x == [NoCall EXCEPT !.at = "discover", !.mode = m, !.parent = config,
                     !.config = config, !.start = now, !.deadline = now + StatusBudget]
  <2>1. x \in CallShape /\ x.at = "discover" /\ x.mode = m /\ x.start = now /\ x.watch = NoCall.watch
    <3>1. "discover" \in CallPlaces /\ m \in CallModes
      BY DEF CallPlaces, CallModes
    <3> QED
      BY <1>0, <3>1, NoCallShape DEF NoCall, CallShape
  <2>2. call' = [call EXCEPT ![c] = x] /\ StoresOK'
    BY <1>0, <1>2, StoresSame DEF ExactBegins, stores
  <2> HIDE DEF x
  <2>3. ~x.watch
    BY <2>1, NoCallShape
  <2>4. CallOK(x)
    BY <1>0, <2>1, <2>3 DEF CallOK
  <2> QED
    BY <1>0, <2>1, <2>2, <2>4, CallStep
<1>3. CASE PollBegins(c) /\ PollHit
  <2>1. /\ polled \in AnswerShape /\ polled.kind = "complete" /\ Vouched(polled)
        /\ polled.at - polled.from <= StatusBudget /\ polled.config = config /\ now - polled.at <= CacheAge
    BY <1>3 DEF PollHit, StatusInv, StoresOK, KeptAnswer
  <2> DEFINE a == [polled EXCEPT !.at = now]
             x == [NoCall EXCEPT !.at = "done", !.mode = "poll", !.start = now, !.parent = config,
                     !.config = config, !.answer = a]
  <2>2. /\ a \in AnswerShape /\ Vouched(a) /\ a.kind = "complete" /\ a.from = polled.from /\ a.config = config
    BY <2>1, DeliveredLater, StatusFacts
  <2>3. call' = [call EXCEPT ![c] = x] /\ StoresOK'
    BY <1>0, <1>3, StoresSame DEF PollBegins, stores
  <2> HIDE DEF a
  <2>4. /\ x \in CallShape /\ x.at = "done" /\ x.mode = "poll" /\ x.start = now /\ x.watch = NoCall.watch
        /\ x.answer = a /\ x.config = config
    <3>1. "done" \in CallPlaces /\ "poll" \in CallModes
      BY DEF CallPlaces, CallModes
    <3> QED
      BY <1>0, <2>2, <3>1, NoCallShape DEF NoCall, CallShape
  <2> HIDE DEF x
  <2>5. ~x.watch
    BY <2>4, NoCallShape
  <2>6. x.start - Slack(x) <= a.from
    <3>1. Slack(x) = CacheAge + StatusBudget
      BY <2>4 DEF Slack
    <3>2. polled.from \in Nat /\ polled.at \in Nat /\ CacheAge \in Nat
      BY <2>1, StatusConstants DEF AnswerShape
    <3> QED
      BY <1>0, <2>1, <2>2, <2>4, <3>1, <3>2
  <2>7. AnswerWorth(x, x.answer)
    BY <2>2, <2>4, <2>6 DEF AnswerWorth
  <2>8. CallOK(x)
    BY <1>0, <2>4, <2>5, <2>7 DEF CallOK
  <2> QED
    BY <1>0, <2>3, <2>4, <2>8, CallStep
<1>4. CASE PollBegins(c) /\ ~PollHit
  <2>1. ExactBegins(c, "poll")
    BY <1>4 DEF PollBegins
  <2> QED
    BY <1>2, <2>1
<1> QED
  BY <1>1, <1>2, <1>3, <1>4 DEF Begin

\* The phases of a pass.
LEMMA WorkerLoadsInv == ASSUME StatusInv, NEW c \in Callers, WorkerLoads(c) PROVE StatusInv'
<1>1. call[c].at = "load" /\ UNCHANGED outer /\ StoresOK' /\ call[c] \in CallShape /\ CallOK(call[c]) /\ now + StatusBudget \in Int
      /\ config \in Nat
  BY StoresSame, StatusFacts, StatusConstants DEF WorkerLoads, stores
<1> DEFINE x == [call[c] EXCEPT !.at = "discover", !.config = config, !.deadline = now + StatusBudget]
<1>2. call' = [call EXCEPT ![c] = x]
  BY DEF WorkerLoads
<1>3. "discover" \in CallPlaces
  BY DEF CallPlaces
<1>4. x \in CallShape /\ x.at = "discover" /\ x.mode = call[c].mode /\ x.start = call[c].start /\ x.watch = call[c].watch
  BY <1>1, <1>3 DEF CallShape
<1> HIDE DEF x
<1>5. CallOK(x)
  BY <1>1, <1>4 DEF CallOK
<1> QED
  BY <1>1, <1>2, <1>4, <1>5, CallStep

LEMMA DiscoverInv == ASSUME StatusInv, NEW c \in Callers, Discover(c) PROVE StatusInv'
<1>1. call[c].at = "discover" /\ UNCHANGED outer /\ StoresOK' /\ call[c] \in CallShape /\ CallOK(call[c]) /\ gen \in Nat
  BY StoresSame, StatusFacts, StatusConstants DEF Discover, stores
<1> DEFINE x == [call[c] EXCEPT !.at = "labels", !.graph = gen]
<1>2. call' = [call EXCEPT ![c] = x]
  BY DEF Discover
<1>3. "labels" \in CallPlaces
  BY DEF CallPlaces
<1>4. /\ x \in CallShape /\ x.at = "labels" /\ x.mode = call[c].mode /\ x.start = call[c].start
      /\ x.watch = call[c].watch /\ x.graph = gen
  BY <1>1, <1>3 DEF CallShape
<1> HIDE DEF x
<1>5. SeenWithin(x.graph, x.start, now)
  <2>1. x.start \in Int /\ x.start <= now
    BY <1>1, <1>4, CallFields DEF CallOK
  <2> QED
    BY <1>4, <2>1, SeenNow, StatusFacts
<1>6. CallOK(x)
  BY <1>1, <1>4, <1>5 DEF CallOK
<1> QED
  BY <1>1, <1>2, <1>4, <1>6, CallStep

\* A call that goes on to another place with what it has.
LEMMA GoInv ==
  ASSUME StatusInv, NEW c \in Callers, NEW p \in CallPlaces, GoTo(c, p), UNCHANGED outer, StoresOK',
         call[c].at \notin {"idle", "done"}, p \notin {"idle", "done", "load", "return", "labels", "prepare"},
         p \in {"check", "project"} => call[c].at \in {"prepare", "check"},
         p = "project" => call[c].mode = "cli",
         p = "exit" => call[c].mode = "cli" /\ call[c].at = "return"
  PROVE  StatusInv'
<1>1. call[c] \in CallShape /\ CallOK(call[c])
  BY StatusFacts
<1> DEFINE x == [call[c] EXCEPT !.at = p]
<1>2. call' = [call EXCEPT ![c] = x]
  BY DEF GoTo
<1>3. /\ x \in CallShape /\ x.at = p /\ x.mode = call[c].mode /\ x.start = call[c].start /\ x.watch = call[c].watch
      /\ x.graph = call[c].graph /\ x.label = call[c].label /\ x.answer = call[c].answer /\ x.parent = call[c].parent
      /\ x.config = call[c].config
  BY <1>1 DEF CallShape
<1> HIDE DEF x
<1>4. p = "exit" => AnswerWorth(x, x.answer)
  BY <1>1, <1>3 DEF CallOK, AnswerWorth, Slack
<1>5. CallOK(x)
  BY <1>1, <1>3, <1>4 DEF CallOK
<1> QED
  BY <1>2, <1>3, <1>5, CallStep

LEMMA ReadLabelsInv == ASSUME StatusInv, NEW c \in Callers, ReadLabels(c) PROVE StatusInv'
<1>1. /\ call[c].at = "labels" /\ UNCHANGED <<outer, lastGood, polled>> /\ call[c] \in CallShape /\ CallOK(call[c])
      /\ now \in Nat /\ gen \in Nat /\ gen \in Generations
  BY StatusFacts, StatusConstants DEF ReadLabels
<1>2. PICK label \in Generations, large \in BOOLEAN, written \in BOOLEAN :
        /\ IF ~Cli(c) /\ LabelsFresh THEN label = labels.gen /\ UNCHANGED labels
           ELSE label = gen /\ labels' = IF Cli(c) THEN labels ELSE [at |-> now, gen |-> gen]
        /\ large => Cli(c)
        /\ call' = [call EXCEPT ![c] =
             [call[c] EXCEPT !.at = IF large THEN "project" ELSE "prepare", !.label = label, !.checkpoint = written,
                             !.compat = CompatDeadline(c)]]
  BY DEF ReadLabels
<1>3. CompatDeadline(c) \in Int
  BY <1>1, CallFields, StatusConstants DEF CompatDeadline
<1>4. written \in Flags /\ label \in Nat
  BY StatusConstants DEF Flags
<1>5. PICK p \in {"project", "prepare"} : p = (IF large THEN "project" ELSE "prepare") /\ (p = "project" => Cli(c))
  BY <1>2
<1>6. PICK d \in Int : d = CompatDeadline(c)
  BY <1>3
<1> DEFINE x == [call[c] EXCEPT !.at = p, !.label = label, !.checkpoint = written, !.compat = d]
<1>7. call' = [call EXCEPT ![c] = x]
  BY <1>2, <1>5, <1>6
<1>8. /\ x \in CallShape /\ x.at = p /\ x.mode = call[c].mode /\ x.start = call[c].start
      /\ x.watch = call[c].watch /\ x.graph = call[c].graph /\ x.label = label
  <2>1. p \in CallPlaces
    BY DEF CallPlaces
  <2> QED
    BY <1>1, <1>4, <2>1 DEF CallShape
<1> HIDE DEF x
<1>9. SeenWithin(label, x.start - LabelAge, now)
  <2>1. x.start \in Nat /\ x.start <= now /\ LabelAge \in Nat /\ x.start - LabelAge \in Int /\ x.start - LabelAge <= now
    <3>1. x.start \in Nat /\ x.start <= now /\ LabelAge \in Nat
      BY <1>1, <1>8, CallFields, StatusConstants DEF CallOK
    <3> QED
      BY <1>1, <3>1
  <2>2. CASE ~Cli(c) /\ LabelsFresh
    <3>1. label = labels.gen /\ labels.gen # Absent /\ now - labels.at <= LabelAge
      BY <1>2, <2>2 DEF LabelsFresh
    <3>2. labels.at \in Nat /\ labels.at <= now /\ SeenAtTime(labels.gen, labels.at)
      BY <3>1 DEF StatusInv, StoresOK
    <3>3. x.start - LabelAge <= labels.at
      BY <1>1, <2>1, <3>1, <3>2
    <3> QED
      BY <3>1, <3>2, <3>3 DEF SeenWithin
  <2>3. CASE ~(~Cli(c) /\ LabelsFresh)
    <3>1. label = gen
      BY <1>2, <2>3
    <3> QED
      BY <2>1, <3>1, SeenNow, StatusFacts
  <2> QED
    BY <2>2, <2>3
<1>10. CallOK(x)
  BY <1>1, <1>5, <1>8, <1>9 DEF CallOK, Cli
<1>11. StoresOK'
  <2>0. UNCHANGED <<now, gen, began, faulty, lastGood, polled>>
    BY <1>1 DEF outer
  <2>1. CASE labels' = labels
    BY <1>1, <2>1, StoresSame
  <2>2. CASE labels' = [at |-> now, gen |-> gen]
    <3>1. KeptAnswer(lastGood, Watchdog)' /\ KeptAnswer(polled, StatusBudget)'
      BY <2>0 DEF StatusInv, StoresOK, KeptAnswer, Vouched, SoundWithin, SeenWithin, SeenAtTime
    <3>2. labels' \in [at : Nat, gen : Int] /\ labels'.at = now /\ labels'.gen = gen
      BY <1>1, <2>2
    <3>3. SeenAtTime(gen, now)'
      BY <2>0, StatusFacts DEF SeenAtTime, WorldOK
    <3> QED
      BY <1>1, <2>0, <3>1, <3>2, <3>3 DEF StoresOK
  <2> QED
    BY <1>2, <2>1, <2>2
<1> QED
  BY <1>1, <1>7, <1>8, <1>10, <1>11, CallStep DEF outer

LEMMA PrepareRevisionsInv == ASSUME StatusInv, NEW c \in Callers, PrepareRevisions(c) PROVE StatusInv'
<1>1. /\ call[c].at = "prepare" /\ UNCHANGED outer /\ StoresOK' /\ call[c] \in CallShape /\ "check" \in CallPlaces
      /\ "project" \in CallPlaces
  BY StoresSame, StatusFacts DEF PrepareRevisions, CallPlaces
<1>2. CASE Answered(c, Failed("error"))
  BY <1>1, <1>2, FailedWorth, OverInv, StatusFacts DEF Answered
<1>3. CASE GoTo(c, "check")
  BY <1>1, <1>3, GoInv
<1>4. CASE Deferred(c)
  BY <1>1, <1>4, GoInv DEF Deferred, Cli
<1> QED
  BY <1>2, <1>3, <1>4 DEF PrepareRevisions

LEMMA CheckCompatibilityInv == ASSUME StatusInv, NEW c \in Callers, CheckCompatibility(c) PROVE StatusInv'
<1>1. /\ call[c].at = "check" /\ UNCHANGED outer /\ StoresOK' /\ call[c] \in CallShape /\ CallOK(call[c])
      /\ "project" \in CallPlaces
  BY StoresSame, StatusFacts DEF CheckCompatibility, CallPlaces
<1>2. CASE Deferred(c)
  BY <1>1, <1>2, GoInv DEF Deferred, Cli
<1>3. CASE call' = [call EXCEPT ![c] = [call[c] EXCEPT !.at = "project", !.complete = TRUE]]
  <2>1. PICK e \in Flags : e = TRUE
    BY DEF Flags
  <2> DEFINE x == [call[c] EXCEPT !.at = "project", !.complete = e]
  <2>2. call' = [call EXCEPT ![c] = x]
    BY <1>3, <2>1, Zenon
  <2>3. /\ x \in CallShape /\ x.at = "project" /\ x.mode = call[c].mode /\ x.start = call[c].start
        /\ x.watch = call[c].watch /\ x.graph = call[c].graph /\ x.label = call[c].label /\ x.complete = e
    BY <1>1 DEF CallShape
  <2> HIDE DEF x
  <2>4. x.complete
    BY <2>1, <2>3, Zenon
  <2>5. CallOK(x)
    BY <1>1, <2>3, <2>4 DEF CallOK
  <2> QED
    BY <1>1, <2>2, <2>3, <2>5, CallStep
<1> QED
  BY <1>2, <1>3 DEF CheckCompatibility

\* The end of a pass.
LEMMA ExpiresInv ==
  ASSUME StatusInv, NEW c \in Callers, Expires(c), call[c].at \notin {"idle", "done"}, UNCHANGED outer, StoresOK'
  PROVE  StatusInv'
BY OverInv, EmptyAnswers DEF Expires

LEMMA ProjectInv == ASSUME StatusInv, NEW c \in Callers, Project(c) PROVE StatusInv'
<1>1. call[c].at = "project" /\ UNCHANGED outer /\ StoresOK' /\ call[c] \in CallShape /\ CallOK(call[c]) /\ WorldOK /\ now \in Nat
      /\ gen \in Generations
  BY StoresSame, StatusFacts DEF Project, stores
<1>2. CASE Expires(c)
  BY <1>1, <1>2, ExpiresInv
<1>3. CASE Over(c, "return", PassAnswer(c))
  <2>1. PICK kind \in {"complete", "current"} :
          kind = (IF call[c].complete THEN "complete" ELSE "current") /\ (kind = "current" => ~call[c].complete)
          /\ (call[c].complete => kind = "complete")
    BY Zenon
  <2>2. PICK b \in BOOLEAN : b = Healthy(c)
    BY <1>1, CallFields DEF Healthy
  <2>3. PICK a : a = Answer(kind, b, call[c].start, call[c].config) /\ a = PassAnswer(c)
    BY <2>1, <2>2, Zenon DEF PassAnswer
  <2>4. /\ a \in AnswerShape /\ a.kind = kind /\ (a.healthy <=> b) /\ a.from = call[c].start /\ a.at = now
        /\ a.config = call[c].config
    <3>1. PICK s \in Nat, k \in Nat : s = call[c].start /\ k = call[c].config
      BY <1>1, CallFields
    <3>2. kind \in AnswerKinds
      BY DEF AnswerKinds
    <3>3. /\ Answer(kind, b, s, k) \in AnswerShape /\ Answer(kind, b, s, k).kind = kind /\ Answer(kind, b, s, k).healthy = b
          /\ Answer(kind, b, s, k).from = s /\ Answer(kind, b, s, k).at = now /\ Answer(kind, b, s, k).config = k
      BY <1>1, <3>2, Zenon DEF Answer, AnswerShape
    <3> QED
      BY <2>3, <3>1, <3>3, Zenon
  <2>5. b => /\ call[c].complete /\ faulty[call[c].graph] # "graph" /\ faulty[call[c].label] # "labels"
             /\ faulty[gen] # "stack"
    BY <2>2 DEF Healthy
  <2>6. SeenWithin(call[c].graph, call[c].start, now) /\ SeenWithin(call[c].label, call[c].start - LabelAge, now)
    BY <1>1 DEF CallOK
  <2>7. call[c].start \in Nat /\ call[c].start <= now /\ SeenWithin(gen, call[c].start, now)
    <3>1. call[c].start \in Nat /\ call[c].start <= now
      BY <1>1, CallFields DEF CallOK
    <3> QED
      BY <1>1, <3>1, SeenNow
  <2>8. Vouched(a)
    <3>1. b => /\ SoundWithin("graph", call[c].start, now) /\ SoundWithin("stack", call[c].start, now)
               /\ SoundWithin("labels", call[c].start - LabelAge, now)
      BY <1>1, <2>5, <2>6, <2>7 DEF SoundWithin, SeenWithin
    <3>2. b => a.kind = "complete"
      BY <2>1, <2>4, <2>5
    <3> QED
      BY <1>1, <2>4, <2>7, <3>1, <3>2 DEF Vouched
  <2>9. AnswerWorth(call[c], a)
    <3>1. call[c].start - Slack(call[c]) <= call[c].start
      BY <2>7, StatusConstants DEF Slack
    <3>2. call[c].mode # "cli" => a.kind = "complete"
      BY <1>1, <2>1, <2>4 DEF CallOK
    <3> QED
      BY <2>1, <2>4, <2>8, <3>1, <3>2 DEF AnswerWorth
  <2> QED
    BY <1>1, <1>3, <2>1, <2>3, <2>4, <2>9, OverInv
<1> QED
  BY <1>2, <1>3 DEF Project

LEMMA ReturnsInv == ASSUME StatusInv, NEW c \in Callers, Returns(c) PROVE StatusInv'
<1>1. /\ call[c].at = "return" /\ UNCHANGED <<outer, labels>> /\ call[c] \in CallShape /\ CallOK(call[c]) /\ WorldOK /\ now \in Nat
      /\ call[c].answer \in AnswerShape /\ call[c].start \in Nat /\ call[c].mode \in CallModes
  BY StatusFacts, CallFields DEF Returns
<1>2. PICK a : a = [call[c].answer EXCEPT !.at = now]
  OBVIOUS
<1>3. AnswerWorth(call[c], call[c].answer) /\ call[c].answer.from = call[c].start /\ call[c].answer.kind \in {"complete", "current"}
  BY <1>1 DEF CallOK
<1>4. /\ a \in AnswerShape /\ Vouched(a) /\ a.kind = call[c].answer.kind /\ a.healthy = call[c].answer.healthy
      /\ a.from = call[c].start /\ a.config = call[c].answer.config /\ a.at = now
  <2>1. Vouched(call[c].answer)
    BY <1>3 DEF AnswerWorth
  <2> QED
    BY <1>1, <1>2, <1>3, <2>1, DeliveredLater
<1>5. AnswerWorth(call[c], a)
  <2>1. a.healthy => call[c].start - Slack(call[c]) <= a.from
    BY <1>3, <1>4 DEF AnswerWorth
  <2> QED
    BY <1>3, <1>4, <2>1 DEF AnswerWorth
<1>6. UNCHANGED <<now, gen, began, faulty, labels>>
  BY <1>1 DEF outer
<1>7. now - call[c].start <= (IF call[c].mode = "cli" THEN Watchdog ELSE StatusBudget)
  <2>1. now <= call[c].start + (IF call[c].mode = "cli" THEN Watchdog ELSE StatusBudget)
    BY <1>1 DEF CallOK
  <2> QED
    BY <1>1, <2>1, StatusConstants
<1>8. \A y, n : KeptAnswer(y, n) => KeptAnswer(y, n)'
  BY <1>6 DEF KeptAnswer, Vouched, SoundWithin, SeenWithin, SeenAtTime
<1>9. \A y, z : KeptAnswer(y, Watchdog) /\ KeptAnswer(z, StatusBudget) /\ lastGood' = y /\ polled' = z => StoresOK'
  <2> SUFFICES ASSUME NEW y, NEW z, KeptAnswer(y, Watchdog), KeptAnswer(z, StatusBudget), lastGood' = y, polled' = z
               PROVE  StoresOK'
    OBVIOUS
  <2>1. KeptAnswer(y, Watchdog)' /\ KeptAnswer(z, StatusBudget)'
    BY <1>8
  <2>2. KeptAnswer(lastGood, Watchdog)' /\ KeptAnswer(polled, StatusBudget)'
    BY <2>1 DEF KeptAnswer, Vouched, SoundWithin, SeenWithin, SeenAtTime
  <2> QED
    BY <1>6, <2>2 DEF StatusInv, StoresOK, SeenAtTime
<1>10. KeptAnswer(lastGood, Watchdog) /\ KeptAnswer(polled, StatusBudget)
  BY DEF StatusInv, StoresOK
<1>11. CASE call[c].mode = "cli"
  <2>1. lastGood' \in Persisted(a) /\ GoTo(c, "exit") /\ polled' = polled
    BY <1>2, <1>11 DEF Returns
  <2>2. a.kind = "complete" => KeptAnswer(a, Watchdog)
    BY <1>4, <1>7, <1>11 DEF KeptAnswer
  <2>3. KeptAnswer(lastGood', Watchdog)
    BY <1>10, <2>1, <2>2 DEF Persisted
  <2>4. StoresOK'
    <3>1. PICK y : y = lastGood' /\ KeptAnswer(y, Watchdog)
      BY <2>3
    <3> QED
      BY <1>9, <1>10, <2>1, <3>1
  <2>5. "exit" \in CallPlaces
    BY DEF CallPlaces
  <2> QED
    BY <1>1, <1>11, <2>1, <2>4, <2>5, GoInv
<1>12. CASE call[c].mode = "poll"
  <2>1. polled' = a /\ Answered(c, a) /\ lastGood' = lastGood
    BY <1>2, <1>12 DEF Returns
  <2>2. KeptAnswer(a, StatusBudget)
    <3>1. a.kind = "complete"
      BY <1>3, <1>4, <1>12 DEF AnswerWorth
    <3> QED
      BY <1>4, <1>7, <1>12, <3>1 DEF KeptAnswer
  <2>3. StoresOK'
    BY <1>9, <1>10, <2>1, <2>2
  <2> QED
    BY <1>1, <1>4, <1>5, <2>1, <2>3, OverInv DEF Answered
<1>13. CASE call[c].mode \notin {"cli", "poll"}
  <2>1. Answered(c, a) /\ lastGood' = lastGood /\ polled' = polled
    BY <1>2, <1>13 DEF Returns
  <2>2. StoresOK'
    BY <1>1, <2>1, StoresSame
  <2> QED
    BY <1>1, <1>4, <1>5, <2>1, <2>2, OverInv DEF Answered
<1> QED
  BY <1>11, <1>12, <1>13

LEMMA ExpiredInv == ASSUME StatusInv, NEW c \in Callers, Expired(c) PROVE StatusInv'
<1>1. call[c].at = "expired" /\ UNCHANGED outer /\ StoresOK' /\ call[c] \in CallShape /\ CallOK(call[c])
  BY StoresSame, StatusFacts DEF Expired, stores
<1>2. CASE Cli(c)
  <2>1. Over(c, "exit", LastGoodFor(call[c].config)) /\ call[c].mode = "cli" /\ call[c].start <= now
    BY <1>1, <1>2 DEF Expired, Cli, CallOK
  <2>2. AnswerWorth(call[c], LastGoodFor(call[c].config)) /\ LastGoodFor(call[c].config) \in AnswerShape
    BY <1>1, <2>1, LastGoodWorth
  <2> QED
    BY <1>1, <2>1, <2>2, OverInv
<1>3. CASE ~Cli(c)
  <2>1. Answered(c, Failed("error"))
    BY <1>3 DEF Expired
  <2> QED
    BY <1>1, <2>1, FailedWorth, OverInv, StatusFacts DEF Answered
<1> QED
  BY <1>2, <1>3

LEMMA TimesOutInv == ASSUME StatusInv, NEW c \in Callers, TimesOut(c) PROVE StatusInv'
<1>1. UNCHANGED outer /\ StoresOK' /\ "project" \in CallPlaces
  BY StoresSame DEF TimesOut, stores, CallPlaces
<1>2. CASE call[c].at \in {"discover", "labels", "prepare", "check"} /\ Expires(c)
  BY <1>1, <1>2, ExpiresInv
<1>3. CASE call[c].at \in {"prepare", "check"} /\ Cli(c) /\ GoTo(c, "project")
  BY <1>1, <1>3, GoInv DEF Cli
<1> QED
  BY <1>2, <1>3 DEF TimesOut

LEMMA FailsInv == ASSUME StatusInv, NEW c \in Callers, Fails(c) PROVE StatusInv'
<1>1. /\ call[c].at \notin {"idle", "done"} /\ UNCHANGED outer /\ StoresOK' /\ call[c] \in CallShape
      /\ Answered(c, Failed("error"))
  BY StoresSame, StatusFacts DEF Fails, stores
<1> QED
  BY <1>1, FailedWorth, OverInv, StatusFacts DEF Answered

LEMMA RelaysInv == ASSUME StatusInv, NEW c \in Callers, Relays(c) PROVE StatusInv'
<1>1. /\ call[c].at = "exit" /\ UNCHANGED outer /\ StoresOK' /\ call[c] \in CallShape /\ CallOK(call[c])
      /\ Answered(c, call[c].answer) /\ call[c].answer \in AnswerShape
  BY StoresSame, StatusFacts, CallFields DEF Relays, stores
<1>2. AnswerWorth(call[c], call[c].answer)
  BY <1>1 DEF CallOK
<1> QED
  BY <1>1, <1>2, OverInv DEF Answered

LEMMA WatchdogFiresInv == ASSUME StatusInv, NEW c \in Callers, WatchdogFires(c) PROVE StatusInv'
<1>1. /\ Cli(c) /\ UNCHANGED outer /\ StoresOK' /\ call[c] \in CallShape /\ CallOK(call[c])
      /\ call[c].at \notin {"idle", "done"}
  BY StoresSame, StatusFacts DEF WatchdogFires, stores, Running
<1>2. PICK w \in Flags : w = TRUE
  BY DEF Flags
<1> DEFINE x == [call[c] EXCEPT !.watch = w]
<1>3. call' = [call EXCEPT ![c] = x]
  <2>1. call' = [call EXCEPT ![c].watch = TRUE]
    BY DEF WatchdogFires
  <2> QED
    BY <1>2, <2>1, Zenon
<1>4. /\ x \in CallShape /\ x.at = call[c].at /\ x.mode = call[c].mode /\ x.start = call[c].start
      /\ x.graph = call[c].graph /\ x.label = call[c].label /\ x.complete = call[c].complete
      /\ x.answer = call[c].answer /\ x.parent = call[c].parent /\ x.config = call[c].config
  BY <1>1 DEF CallShape
<1> HIDE DEF x
<1>5. x.at \in {"return", "exit", "done"} => AnswerWorth(x, x.answer)
  BY <1>1, <1>4 DEF CallOK, AnswerWorth, Slack
<1>6. CallOK(x)
  BY <1>1, <1>4, <1>5 DEF CallOK, Cli
<1> QED
  BY <1>1, <1>3, <1>4, <1>6, CallStep

LEMMA FallbackInv == ASSUME StatusInv, NEW c \in Callers, Fallback(c) PROVE StatusInv'
<1>1. /\ UNCHANGED outer /\ StoresOK' /\ call[c] \in CallShape /\ CallOK(call[c])
      /\ call[c].at \notin {"idle", "done"} /\ call[c].watch /\ now \in Nat
  BY StoresSame, StatusFacts DEF Fallback, stores, Running
<1>2. call[c].mode = "cli" /\ call[c].start <= now /\ call[c].start \in Nat /\ call[c].parent \in Nat
  BY <1>1, CallFields DEF CallOK
<1>3. CASE CheckpointUsable(c)
  <2>1. Answered(c, CheckpointAnswer(c))
    BY <1>3 DEF Fallback
  <2> DEFINE a == CheckpointAnswer(c)
  <2>2. /\ a \in AnswerShape /\ a.kind = "current" /\ ~a.healthy /\ a.from = call[c].start /\ a.at = now
        /\ a.config = call[c].parent
    <3>1. PICK kind \in AnswerKinds, b \in BOOLEAN, s \in Nat, k \in Nat :
            kind = "current" /\ ~b /\ b = FALSE /\ s = call[c].start /\ k = call[c].parent
      BY <1>2 DEF AnswerKinds
    <3>2. /\ Answer(kind, b, s, k) \in AnswerShape /\ Answer(kind, b, s, k).kind = kind /\ Answer(kind, b, s, k).healthy = b
          /\ Answer(kind, b, s, k).from = s /\ Answer(kind, b, s, k).at = now /\ Answer(kind, b, s, k).config = k
      BY <1>1, Zenon DEF Answer, AnswerShape
    <3> QED
      BY <3>1, <3>2, Zenon DEF CheckpointAnswer
  <2> HIDE DEF a
  <2>3. AnswerWorth(call[c], a)
    BY <1>1, <1>2, <2>2 DEF AnswerWorth, Vouched
  <2> QED
    BY <1>1, <2>1, <2>2, <2>3, OverInv DEF Answered, a
<1>4. CASE ~CheckpointUsable(c)
  <2>1. Answered(c, LastGoodFor(call[c].parent))
    BY <1>4 DEF Fallback
  <2>2. AnswerWorth(call[c], LastGoodFor(call[c].parent)) /\ LastGoodFor(call[c].parent) \in AnswerShape
    BY <1>1, <1>2, LastGoodWorth
  <2> QED
    BY <1>1, <2>1, <2>2, OverInv DEF Answered
<1> QED
  BY <1>3, <1>4

\* Nothing that was seen is undone by a step of the world.
LEMMA WorldStep ==
  ASSUME StatusInv, StillSeen, WorldOK', UNCHANGED <<call, stores>>,
         \A c \in Callers : Running(c) => now' <= call[c].start + (IF call[c].mode = "cli" THEN Watchdog ELSE StatusBudget)
  PROVE  StatusInv'
<1>0. now \in Nat /\ now' \in Nat /\ now <= now' /\ UNCHANGED <<lastGood, polled, labels>>
  BY DEF StillSeen, stores
<1>1. \A a \in AnswerShape : Vouched(a) => Vouched(a)'
  BY VouchedLater
<1>2. StoresOK'
  <2>1. KeptAnswer(lastGood, Watchdog)' /\ KeptAnswer(polled, StatusBudget)'
    <3>1. /\ lastGood \in AnswerShape /\ Vouched(lastGood) /\ polled \in AnswerShape /\ Vouched(polled)
      BY DEF StatusInv, StoresOK, KeptAnswer
    <3>2. PICK y, z : y = lastGood /\ z = polled /\ Vouched(y)' /\ Vouched(z)'
      BY <1>1, <3>1
    <3>3. Vouched(lastGood)' /\ Vouched(polled)'
      BY <1>0, <3>2 DEF Vouched, SoundWithin, SeenWithin, SeenAtTime
    <3> QED
      BY <1>0, <3>3 DEF StatusInv, StoresOK, KeptAnswer
  <2>2. labels \in [at : Nat, gen : Int] /\ labels.at \in Int
    BY DEF StatusInv, StoresOK
  <2>3. labels.gen # Absent => /\ labels.gen \in Generations /\ labels.at <= now' /\ SeenAtTime(labels.gen, labels.at)'
    <3> SUFFICES ASSUME labels.gen # Absent
                 PROVE  labels.gen \in Generations /\ labels.at <= now' /\ SeenAtTime(labels.gen, labels.at)'
      OBVIOUS
    <3>1. labels.gen \in Generations /\ labels.at <= now /\ SeenAtTime(labels.gen, labels.at) /\ labels.at \in Nat
      BY DEF StatusInv, StoresOK
    <3>2. PICK g \in Generations, t \in Int : g = labels.gen /\ t = labels.at /\ SeenAtTime(g, t)'
      BY <2>2, <3>1 DEF StillSeen
    <3> QED
      BY <1>0, <3>1, <3>2 DEF SeenAtTime
  <2> QED
    BY <1>0, <2>1, <2>2, <2>3 DEF StoresOK
<1>3. ASSUME NEW c \in Callers PROVE CallOK(call[c])'
  <2>1. PICK x \in CallShape : x = call[c] /\ CallOK(x)
    BY StatusFacts
  <2>2. x.start \in Nat /\ x.start - LabelAge \in Int /\ x.answer \in AnswerShape /\ x.start <= now'
    BY <1>0, <2>1, CallFields, StatusConstants DEF CallOK
  <2>3. \A g : \A since \in Int : SeenWithin(g, since, now) => SeenWithin(g, since, now)'
    <3> SUFFICES ASSUME NEW g, NEW since \in Int, SeenWithin(g, since, now) PROVE SeenWithin(g, since, now)'
      OBVIOUS
    <3>1. PICK t \in Int : since <= t /\ t <= now /\ SeenAtTime(g, t) /\ g \in Generations
      BY DEF SeenWithin
    <3>2. SeenAtTime(g, t)' /\ t <= now'
      BY <1>0, <3>1 DEF StillSeen
    <3> QED
      BY <3>1, <3>2 DEF SeenWithin
  <2>4. x.at \in {"return", "exit", "done"} => AnswerWorth(x, x.answer)'
    BY <1>1, <2>1, <2>2 DEF CallOK, AnswerWorth, Slack
  <2>5. x.at \notin {"idle", "done"} => now' <= x.start + (IF x.mode = "cli" THEN Watchdog ELSE StatusBudget)
    BY <2>1 DEF Running
  <2>6. CallOK(x)'
    BY <2>1, <2>2, <2>3, <2>4, <2>5 DEF CallOK
  <2>7. x = call'[c]
    BY <2>1
  <2> QED
    BY <2>6, <2>7 DEF CallOK, SeenWithin, SeenAtTime, AnswerWorth, Vouched, SoundWithin, Slack
<1> QED
  BY <1>2, <1>3 DEF StatusInv

LEMMA RunningBounds ==
  ASSUME StatusInv
  PROVE  \A c \in Callers : Running(c) => now <= call[c].start + (IF call[c].mode = "cli" THEN Watchdog ELSE StatusBudget)
BY StatusFacts DEF Running, CallOK

LEMMA MovesInv == ASSUME StatusInv, Moves PROVE StatusInv'
<1>1. gen < LastGen /\ gen' = gen + 1 /\ began' = [began EXCEPT ![gen + 1] = now] /\ UNCHANGED <<now, faulty, config, stores, call>>
  BY DEF Moves
<1>2. StillSeen
  BY <1>1, SeenLater, StatusFacts DEF StillSeen
<1>3. WorldOK'
  <2>1. gen + 1 \in Generations
    BY <1>1, StatusFacts, StatusConstants DEF Generations
  <2>2. began' \in [Generations -> Nat] /\ began'[gen + 1] = now
    BY <1>1, <2>1, StatusFacts
  <2> QED
    BY <1>1, <2>1, <2>2, StatusFacts DEF WorldOK
<1> QED
  BY <1>1, <1>2, <1>3, RunningBounds, WorldStep

LEMMA ReconfigureInv == ASSUME StatusInv, Reconfigure PROVE StatusInv'
<1>1. config' = 1 /\ UNCHANGED <<now, gen, began, faulty, stores, call>>
  BY DEF Reconfigure
<1>2. StillSeen
  BY <1>1, SeenLater, StatusFacts DEF StillSeen
<1>3. WorldOK'
  BY <1>1 DEF StatusInv, WorldOK
<1> QED
  BY <1>1, <1>2, <1>3, RunningBounds, WorldStep

LEMMA TickInv == ASSUME StatusInv, Tick PROVE StatusInv'
<1>1. now' = now + 1 /\ UNCHANGED <<gen, began, faulty, config, stores, call>> /\ \A c \in Callers : Running(c) => now < Due(c)
  BY DEF Tick
<1>2. StillSeen
  BY <1>1, SeenLater, StatusFacts DEF StillSeen
<1>3. WorldOK'
  BY <1>1 DEF StatusInv, WorldOK
<1>4. ASSUME NEW c \in Callers, Running(c)
      PROVE  now' <= call[c].start + (IF call[c].mode = "cli" THEN Watchdog ELSE StatusBudget)
  BY <1>1, <1>4, StatusFacts, CallFields, StatusConstants DEF Due, Cli
<1> QED
  BY <1>1, <1>2, <1>3, <1>4, WorldStep

LEMMA InvalidateInv == ASSUME StatusInv, Invalidate PROVE StatusInv'
<1>1. polled' = NoAnswer /\ UNCHANGED <<now, gen, began, faulty, config, lastGood, labels, call>>
  BY DEF Invalidate, outer
<1>2. KeptAnswer(NoAnswer, StatusBudget)
  BY EmptyAnswers, StatusFacts, StatusConstants DEF KeptAnswer, Vouched
<1>3. StoresOK'
  BY <1>1, <1>2 DEF StatusInv, StoresOK, KeptAnswer, Vouched, SoundWithin, SeenWithin, SeenAtTime
<1> QED
  BY <1>1, <1>3 DEF StatusInv, WorldOK, CallOK, SeenWithin, SeenAtTime, AnswerWorth, Vouched, SoundWithin, Slack

\* The invariant holds at the start and after every step.
LEMMA StatusInitInv == StatusInit => StatusInv
<1> SUFFICES ASSUME StatusInit PROVE StatusInv
  OBVIOUS
<1>1. /\ now = 0 /\ gen = 0 /\ began = [g \in Generations |-> IF g = 0 THEN 0 ELSE Never] /\ config = 0
      /\ lastGood = NoAnswer /\ polled = NoAnswer /\ labels = [at |-> 0, gen |-> Absent] /\ call = [c \in Callers |-> NoCall]
  BY DEF StatusInit
<1>2. 0 \in Generations /\ Never \in Nat /\ Horizon \in Nat
  BY StatusBounds DEF Generations, Never
<1>3. WorldOK
  BY <1>1, <1>2 DEF WorldOK
<1>4. KeptAnswer(NoAnswer, StatusBudget) /\ KeptAnswer(NoAnswer, Watchdog)
  BY <1>1, EmptyAnswers, StatusConstants DEF KeptAnswer, Vouched
<1>5. StoresOK
  BY <1>1, <1>4 DEF StoresOK, Absent
<1>6. CallOK(NoCall)
  BY <1>1, NoCallShape DEF CallOK
<1> QED
  BY <1>1, <1>3, <1>5, <1>6, NoCallShape DEF StatusInv

LEMMA StatusNextInv == StatusInv /\ [StatusNext]_statusVars => StatusInv'
<1> SUFFICES ASSUME StatusInv, [StatusNext]_statusVars PROVE StatusInv'
  OBVIOUS
<1>1. CASE UNCHANGED statusVars
  <2>1. UNCHANGED <<now, gen, began, faulty, config, lastGood, polled, labels, call>>
    BY <1>1 DEF statusVars
  <2>2. StoresOK'
    BY <2>1 DEF StatusInv, StoresOK, KeptAnswer, Vouched, SoundWithin, SeenWithin, SeenAtTime
  <2> QED
    BY <2>1, <2>2 DEF StatusInv, WorldOK, CallOK, SeenWithin, SeenAtTime, AnswerWorth, Vouched, SoundWithin, Slack
<1>2. ASSUME NEW c \in Callers, Pass(c) PROVE StatusInv'
  BY <1>2, WorkerLoadsInv, DiscoverInv, ReadLabelsInv, PrepareRevisionsInv, CheckCompatibilityInv, ProjectInv, ReturnsInv,
     ExpiredInv, TimesOutInv, FailsInv, RelaysInv, WatchdogFiresInv, FallbackInv DEF Pass
<1> QED
  BY <1>1, <1>2, BeginInv, MovesInv, ReconfigureInv, TickInv, InvalidateInv DEF StatusNext

(* What an answer says was seen in a generation that was there at some     *)
(* moment of its pass, and stays so while the repository moves on; a pass  *)
(* is no longer than its budget or the watchdog, and only complete answers *)
(* of such passes are kept (status_with_discovery_options, run_status).    *)
THEOREM StatusInvariant == StatusSpec => []StatusInv
<1> QED
  BY StatusInitInv, StatusNextInv, PTL DEF StatusSpec

(* A repository that is called healthy was so in the course of the call, a *)
(* fallback is of this configuration and no older than its limits, and     *)
(* exact passes give everything or an error, for any budgets, callers and  *)
(* generations.                                                            *)
THEOREM StatusIsSound == StatusSpec => []StatusSound
<1>1. StatusInv => StatusSound
  <2> SUFFICES ASSUME StatusInv, NEW c \in Callers, call[c].at = "done"
               PROVE  /\ call[c].answer.healthy =>
                           LET from == call[c].start - (IF call[c].mode = "poll" THEN CacheAge + StatusBudget ELSE 0)
                               Sound(part, since) == \E g \in Generations : WasCurrent(g, since, call[c].answer.at) /\ faulty[g] # part
                           IN  call[c].answer.kind = "complete" /\ Sound("graph", from) /\ Sound("stack", from)
                               /\ Sound("labels", from - LabelAge)
                      /\ call[c].answer.kind = "last_good" => call[c].start - call[c].answer.from <= LastGoodAge + Watchdog
                      /\ call[c].answer.kind \in {"complete", "current", "last_good"}
                           => call[c].answer.config \in {call[c].parent, call[c].config}
                      /\ ~Cli(c) => call[c].answer.kind \in {"complete", "error"}
    BY DEF StatusSound, HealthyWasTrue, EvidenceBounded, ExactOrError, Answers
  <2>1. PICK x \in CallShape, a \in AnswerShape : x = call[c] /\ a = x.answer /\ AnswerWorth(x, a)
    BY StatusFacts, CallFields DEF CallOK
  <2>2. x.start \in Nat /\ a.from \in Nat /\ a.at \in Nat /\ Slack(x) \in Nat /\ LabelAge \in Nat
    BY <2>1, CallFields, StatusConstants DEF AnswerShape, Slack
  <2>3. ASSUME NEW part, NEW since \in Int, NEW from \in Int, from <= since, SoundWithin(part, since, a.at)
        PROVE  \E g \in Generations : WasCurrent(g, from, a.at) /\ faulty[g] # part
    <3>1. PICK g \in Generations : SeenWithin(g, since, a.at) /\ faulty[g] # part
      BY <2>3 DEF SoundWithin
    <3>2. PICK t \in Int : since <= t /\ t <= a.at /\ SeenAtTime(g, t)
      BY <3>1 DEF SeenWithin
    <3>3. began[g] \in Nat /\ (g < gen => g + 1 \in Generations /\ began[g + 1] \in Nat)
      BY StatusFacts, StatusConstants DEF Generations
    <3>4. WasCurrent(g, from, a.at)
      BY <2>2, <2>3, <3>2, <3>3 DEF WasCurrent, SeenAtTime
    <3> QED
      BY <3>1, <3>4
  <2>4. ASSUME a.healthy
        PROVE  LET from == x.start - Slack(x)
                   Sound(part, since) == \E g \in Generations : WasCurrent(g, since, a.at) /\ faulty[g] # part
               IN  a.kind = "complete" /\ Sound("graph", from) /\ Sound("stack", from) /\ Sound("labels", from - LabelAge)
    <3>1. /\ a.kind = "complete" /\ SoundWithin("graph", a.from, a.at) /\ SoundWithin("stack", a.from, a.at)
          /\ SoundWithin("labels", a.from - LabelAge, a.at) /\ x.start - Slack(x) <= a.from
      BY <2>1, <2>4 DEF AnswerWorth, Vouched
    <3>2. /\ x.start - Slack(x) \in Int /\ x.start - Slack(x) - LabelAge \in Int /\ a.from - LabelAge \in Int
          /\ x.start - Slack(x) - LabelAge <= a.from - LabelAge /\ a.from \in Int
      BY <2>2, <3>1
    <3> QED
      BY <2>3, <3>1, <3>2
  <2> QED
    BY <2>1, <2>4 DEF AnswerWorth, Slack, Cli
<1> QED
  BY <1>1, StatusInvariant, PTL
-----------------------------------------------------------------------------
(* The generation judgement.  The streams of a pass divide its sound pull  *)
(* requests: whoever is in the stream of another has that very stream.  So *)
(* the pull requests of one stream have one canonical, and whatever a pass *)
(* says of them it says by the facts and the words that it read.           *)

\* Every set of naturals that is not empty has a least element.
LEMMA FirstNatural ==
  ASSUME NEW T, T \subseteq Nat, T # {}
  PROVE  \E x \in T : \A y \in T : x <= y
<1> DEFINE R == OpToRel(<, Nat)
<1>1. IsWellFoundedOn(R, Nat)
  BY NatLessThanWellFounded
<1>2. PICK x \in T : \A y \in T : <<y, x>> \notin R
  <2> HIDE DEF R
  <2> QED
    BY <1>1, WFMin
<1>3. \A y \in T : <<y, x>> \in R <=> y < x
  BY DEF OpToRel
<1> HIDE DEF R
<1>4. \A y \in T : ~(y < x)
  BY <1>2, <1>3
<1>5. x \in Nat /\ \A y \in T : y \in Nat
  OBVIOUS
<1> QED
  BY <1>4, <1>5

\* The greatest one of some pull requests is one of them.
LEMMA GreatestRow ==
  ASSUME NEW T, T \subseteq Row, T # {}
  PROVE  Max(T) \in T
<1>0. Rows \in Nat /\ \A p \in T : p \in Nat /\ p <= Rows
  BY GenerationBounds DEF Row
<1> DEFINE D == {Rows - p : p \in T}
<1>1. D \subseteq Nat /\ D # {}
  BY <1>0
<1>2. PICK d \in D : \A e \in D : d <= e
  <2> HIDE DEF D
  <2> QED
    BY <1>1, FirstNatural
<1>3. PICK x \in T : d = Rows - x
  OBVIOUS
<1>4. ASSUME NEW y \in T PROVE x >= y
  <2>1. d <= Rows - y
    BY <1>2
  <2>2. x \in Nat /\ y \in Nat
    BY <1>0
  <2> QED
    BY <1>0, <1>3, <2>1, <2>2
<1>5. \E m : m \in T /\ \A y \in T : m >= y
  BY <1>4
<1> QED
  BY <1>5, Zenon DEF Max

Reaches(f, p, reached) == reached = [n \in 0 .. Rows |-> ReachedIn(f, p, n, reached)]
ReachedFrom(f, p) == CHOOSE reached : Reaches(f, p, reached)

\* What is reached in so many steps is defined: a solution for 0 .. n - 1 is extended to n.
LEMMA ReachedExists ==
  ASSUME NEW f, NEW p
  PROVE  \E reached : Reaches(f, p, reached)
<1> DEFINE Upto(g, n) == g = [i \in 0 .. n |-> ReachedIn(f, p, i, g)]
           T == {n \in 0 .. Rows : ~\E g : Upto(g, n)}
<1>0. Rows \in Nat
  BY GenerationBounds
<1>1. T = {}
  <2> SUFFICES ASSUME T # {} PROVE FALSE
    OBVIOUS
  <2>1. PICK n \in T : \A m \in T : n <= m
    <3>1. T \subseteq Nat
      BY <1>0
    <3> HIDE DEF T
    <3> QED
      BY <3>1, FirstNatural
  <2>2. n \in Nat /\ n <= Rows /\ ~\E g : Upto(g, n)
    BY <1>0
  <2>3. n # 0
    <3> SUFFICES ASSUME n = 0 PROVE FALSE
      OBVIOUS
    <3> DEFINE g == [i \in 0 .. 0 |-> {p}]
    <3>1. \A i \in 0 .. 0 : ReachedIn(f, p, i, g) = {p}
      BY DEF ReachedIn
    <3>2. Upto(g, 0)
      BY <3>1
    <3> HIDE DEF g, Upto
    <3> QED
      BY <2>2, <3>2
  <2>4. PICK h : Upto(h, n - 1)
    <3>1. n - 1 \in 0 .. Rows /\ ~(n <= n - 1)
      BY <1>0, <2>2, <2>3
    <3> QED
      BY <2>1, <3>1
  <2> DEFINE g == [i \in 0 .. n |-> IF i = n THEN ReachedIn(f, p, n, h) ELSE h[i]]
  <2>5. ASSUME NEW i \in 0 .. n PROVE ReachedIn(f, p, i, g) = ReachedIn(f, p, i, h)
    <3>1. CASE i = 0
      BY <3>1 DEF ReachedIn
    <3>2. CASE i # 0
      <4>1. g[i - 1] = h[i - 1]
        BY <2>2, <3>2
      <4> HIDE DEF g
      <4> QED
        BY <4>1 DEF ReachedIn
    <3> QED
      BY <3>1, <3>2
  <2>6. \A i \in 0 .. n : g[i] = ReachedIn(f, p, i, h)
    <3>1. \A i \in 0 .. n - 1 : h[i] = ReachedIn(f, p, i, h)
      BY <2>4
    <3>2. \A i \in 0 .. n : i = n \/ i \in 0 .. n - 1
      BY <2>2
    <3> QED
      BY <3>1, <3>2
  <2>7. Upto(g, n)
    <3>1. \A i \in 0 .. n : g[i] = ReachedIn(f, p, i, g)
      BY <2>5, <2>6
    <3>2. g = [i \in 0 .. n |-> g[i]]
      OBVIOUS
    <3> HIDE DEF g
    <3> QED
      BY <3>1, <3>2
  <2> HIDE DEF Upto, g
  <2> QED
    BY <2>2, <2>7
<1>2. \E g : Upto(g, Rows)
  BY <1>0, <1>1
<1> QED
  BY <1>2 DEF Reaches

\* One step at a time.
LEMMA ReachedSteps ==
  ASSUME NEW f, NEW p
  PROVE  /\ ReachedFrom(f, p)[0] = {p}
         /\ \A n \in 0 .. Rows - 1 : ReachedFrom(f, p)[n + 1] = UNION {Peers(f, q) : q \in ReachedFrom(f, p)[n]}
         /\ Component(f, p) = ReachedFrom(f, p)[Rows]
<1>0. Rows \in Nat
  BY GenerationBounds
<1>1. ReachedFrom(f, p) = [n \in 0 .. Rows |-> ReachedIn(f, p, n, ReachedFrom(f, p))]
  <2>1. \E reached : Reaches(f, p, reached)
    BY ReachedExists
  <2>2. Reaches(f, p, ReachedFrom(f, p))
    BY <2>1, Zenon DEF ReachedFrom
  <2> QED
    BY <2>2 DEF Reaches
<1>2. \A n \in 0 .. Rows : ReachedFrom(f, p)[n] = ReachedIn(f, p, n, ReachedFrom(f, p))
  BY <1>1
<1>3. Component(f, p) = ReachedFrom(f, p)[Rows]
  BY Zenon DEF Component, ReachedFrom, Reaches
<1>4. ReachedFrom(f, p)[0] = {p}
  <2>1. 0 \in 0 .. Rows
    BY <1>0
  <2>2. ReachedFrom(f, p)[0] = ReachedIn(f, p, 0, ReachedFrom(f, p))
    BY <1>2, <2>1, Zenon
  <2> QED
    BY <2>2, Zenon DEF ReachedIn
<1>5. ASSUME NEW n \in 0 .. Rows - 1
      PROVE  ReachedFrom(f, p)[n + 1] = UNION {Peers(f, q) : q \in ReachedFrom(f, p)[n]}
  <2>1. n + 1 \in 0 .. Rows /\ n + 1 # 0 /\ (n + 1) - 1 = n
    BY <1>0
  <2>2. ReachedFrom(f, p)[n + 1] = ReachedIn(f, p, n + 1, ReachedFrom(f, p))
    BY <1>2, <2>1
  <2> HIDE DEF ReachedFrom
  <2> QED
    BY <2>1, <2>2 DEF ReachedIn
<1> QED
  BY <1>3, <1>4, <1>5

\* Nobody outside of the set shares a slot with somebody in it.
Closed(f, C) == \A q \in C : Peers(f, q) \subseteq C

LEMMA PeersFacts ==
  ASSUME NEW f
  PROVE  /\ \A p : p \in Peers(f, p)
         /\ \A p \in Valid(f) : Peers(f, p) \subseteq Valid(f)
         /\ \A p, q \in Valid(f) : q \in Peers(f, p) => p \in Peers(f, q)
<1>1. \A p, q : SameStreamSlot(f, p, q) => SameStreamSlot(f, q, p)
  BY DEF SameStreamSlot
<1> QED
  BY <1>1 DEF Peers

\* A closed set with p has whatever is reached from p.
LEMMA ReachedWithin ==
  ASSUME NEW f, NEW p, NEW C, Closed(f, C), p \in C
  PROVE  Component(f, p) \subseteq C
<1> DEFINE r == ReachedFrom(f, p)
           T == {n \in 0 .. Rows : ~(r[n] \subseteq C)}
<1>0. Rows \in Nat
  BY GenerationBounds
<1>1. /\ r[0] = {p}
      /\ \A n \in 0 .. Rows - 1 : r[n + 1] = UNION {Peers(f, q) : q \in r[n]}
      /\ Component(f, p) = r[Rows]
  BY ReachedSteps
<1> HIDE DEF r
<1>2. T = {}
  <2> SUFFICES ASSUME T # {} PROVE FALSE
    OBVIOUS
  <2>1. PICK n \in T : \A m \in T : n <= m
    <3>1. T \subseteq Nat
      BY <1>0
    <3> HIDE DEF T
    <3> QED
      BY <3>1, FirstNatural
  <2>2. n \in Nat /\ n <= Rows /\ ~(r[n] \subseteq C)
    BY <1>0
  <2>3. n # 0
    BY <1>1, <2>2
  <2>4. n - 1 \in 0 .. Rows - 1 /\ n - 1 \in 0 .. Rows /\ (n - 1) + 1 = n /\ ~(n <= n - 1)
    BY <1>0, <2>2, <2>3
  <2>5. r[n - 1] \subseteq C
    BY <2>1, <2>4
  <2>6. r[n] = UNION {Peers(f, q) : q \in r[n - 1]}
    BY <1>1, <2>4
  <2> QED
    BY <2>2, <2>5, <2>6 DEF Closed
<1>3. Rows \in 0 .. Rows
  BY <1>0
<1> QED
  BY <1>1, <1>2, <1>3

\* As many steps as there are pull requests are enough: each one that is not the last adds somebody.
LEMMA ReachedCloses ==
  ASSUME NEW f, DOMAIN f \subseteq Row, NEW p \in Valid(f)
  PROVE  p \in Component(f, p) /\ Component(f, p) \subseteq Valid(f) /\ Closed(f, Component(f, p))
<1> DEFINE r == ReachedFrom(f, p)
           Good(n) == /\ p \in r[n] /\ r[n] \subseteq Valid(f)
                      /\ Closed(f, r[n]) \/ Cardinality(r[n]) >= n + 1
           T == {n \in 0 .. Rows : ~Good(n)}
<1>0. Rows \in Nat
  BY GenerationBounds
<1>1. /\ r[0] = {p}
      /\ \A n \in 0 .. Rows - 1 : r[n + 1] = UNION {Peers(f, q) : q \in r[n]}
      /\ Component(f, p) = r[Rows]
  BY ReachedSteps
<1> HIDE DEF r
<1>2. IsFiniteSet(Row) /\ Cardinality(Row) = Rows
  BY <1>0, FS_Interval DEF Row
<1>3. \A C \in SUBSET Valid(f) : IsFiniteSet(C) /\ Cardinality(C) \in Nat /\ Cardinality(C) <= Rows
  <2>1. Valid(f) \subseteq Row
    BY DEF Valid
  <2> QED
    BY <1>2, <2>1, FS_Subset, FS_CardinalityType
<1>4. T = {}
  <2> SUFFICES ASSUME T # {} PROVE FALSE
    OBVIOUS
  <2>1. PICK n \in T : \A m \in T : n <= m
    <3>1. T \subseteq Nat
      BY <1>0
    <3> HIDE DEF T
    <3> QED
      BY <3>1, FirstNatural
  <2>2. n \in Nat /\ n <= Rows /\ ~Good(n)
    BY <1>0
  <2>3. n # 0
    <3>1. Cardinality(r[0]) = 1
      BY <1>1, FS_Singleton
    <3>2. Good(0)
      BY <1>1, <3>1
    <3> QED
      BY <2>2, <3>2
  <2>4. n - 1 \in 0 .. Rows - 1 /\ n - 1 \in 0 .. Rows /\ (n - 1) + 1 = n /\ ~(n <= n - 1)
    BY <1>0, <2>2, <2>3
  <2>5. Good(n - 1)
    BY <2>1, <2>4
  <2>6. r[n] = UNION {Peers(f, q) : q \in r[n - 1]}
    BY <1>1, <2>4
  <2>7. r[n - 1] \subseteq r[n] /\ r[n] \subseteq Valid(f)
    BY <2>5, <2>6, PeersFacts
  <2>8. CASE Closed(f, r[n - 1])
    <3>1. r[n] = r[n - 1]
      BY <2>6, <2>7, <2>8 DEF Closed
    <3>2. p \in r[n] /\ Closed(f, r[n])
      BY <2>5, <2>8, <3>1
    <3> QED
      BY <2>2, <2>7, <3>2
  <2>9. CASE ~Closed(f, r[n - 1])
    <3>1. PICK q \in r[n - 1] : \E y \in Peers(f, q) : y \notin r[n - 1]
      BY <2>9 DEF Closed
    <3>2. PICK x \in Peers(f, q) : x \notin r[n - 1]
      BY <3>1
    <3>3. r[n - 1] \cup {x} \subseteq r[n]
      BY <2>6, <2>7, <3>2
    <3>4. Cardinality(r[n - 1] \cup {x}) = Cardinality(r[n - 1]) + 1
      BY <1>3, <2>5, <3>2, FS_AddElement
    <3>5. Cardinality(r[n - 1] \cup {x}) <= Cardinality(r[n])
      BY <1>3, <2>7, <3>3, FS_Subset
    <3>6. Cardinality(r[n - 1]) >= n /\ Cardinality(r[n - 1]) \in Nat /\ Cardinality(r[n]) \in Nat
      BY <1>3, <2>4, <2>5, <2>7, <2>9
    <3>7. Cardinality(r[n]) >= n + 1
      BY <2>2, <3>4, <3>5, <3>6
    <3>8. p \in r[n]
      BY <2>5, <2>7
    <3> QED
      BY <2>2, <2>7, <3>7, <3>8
  <2> QED
    BY <2>8, <2>9
<1>5. Good(Rows)
  BY <1>0, <1>4
<1>6. Closed(f, r[Rows])
  BY <1>0, <1>3, <1>5
<1> QED
  BY <1>1, <1>5, <1>6

\* The stream of a pull request is what is reached from it, and is the stream of everybody in it.
LEMMA StreamFacts ==
  ASSUME NEW f, DOMAIN f \subseteq Row, NEW p \in Valid(f)
  PROVE  /\ p \in StreamOf(Streams(f), p) /\ StreamOf(Streams(f), p) \subseteq Valid(f)
         /\ \A q \in Valid(f) : SameStreamSlot(f, p, q) => q \in StreamOf(Streams(f), p)
         /\ \A q \in StreamOf(Streams(f), p) : StreamOf(Streams(f), q) = StreamOf(Streams(f), p)
<1>1. ASSUME NEW x \in Valid(f), NEW y \in Component(f, x) PROVE Component(f, y) = Component(f, x)
  <2>1. x \in Component(f, x) /\ Component(f, x) \subseteq Valid(f) /\ Closed(f, Component(f, x))
    BY ReachedCloses
  <2>2. y \in Valid(f)
    BY <2>1
  <2>3. y \in Component(f, y) /\ Component(f, y) \subseteq Valid(f) /\ Closed(f, Component(f, y))
    BY <2>2, ReachedCloses
  <2>4. x \in Component(f, y)
    <3> SUFFICES ASSUME x \notin Component(f, y) PROVE FALSE
      OBVIOUS
    <3> DEFINE C == Valid(f) \ Component(f, y)
    <3>1. Closed(f, C)
      <4> SUFFICES ASSUME NEW q \in C, NEW z \in Peers(f, q) PROVE z \in C
        BY DEF Closed
      <4>1. z \in Valid(f) /\ q \in Peers(f, z)
        BY PeersFacts
      <4> QED
        BY <2>3, <4>1 DEF Closed
    <3>2. x \in C
      OBVIOUS
    <3> HIDE DEF C
    <3>3. Component(f, x) \subseteq C
      BY <3>1, <3>2, ReachedWithin
    <3> QED
      BY <2>3, <3>3 DEF C
  <2>5. Component(f, x) \subseteq Component(f, y)
    BY <2>3, <2>4, ReachedWithin
  <2>6. Component(f, y) \subseteq Component(f, x)
    BY <2>1, ReachedWithin
  <2> QED
    BY <2>5, <2>6
<1>2. ASSUME NEW x \in Valid(f) PROVE StreamOf(Streams(f), x) = Component(f, x)
  <2>1. Component(f, x) \in Streams(f) /\ x \in Component(f, x)
    BY ReachedCloses DEF Streams
  <2>2. ASSUME NEW S \in Streams(f), x \in S PROVE S = Component(f, x)
    <3>1. PICK y \in Valid(f) : S = Component(f, y)
      BY DEF Streams
    <3> QED
      BY <1>1, <2>2, <3>1
  <2>3. StreamOf(Streams(f), x) \in Streams(f) /\ x \in StreamOf(Streams(f), x)
    BY <2>1, Zenon DEF StreamOf
  <2> QED
    BY <2>2, <2>3
<1>3. p \in Component(f, p) /\ Component(f, p) \subseteq Valid(f) /\ Closed(f, Component(f, p))
  BY ReachedCloses
<1>4. \A q \in Valid(f) : SameStreamSlot(f, p, q) => q \in Component(f, p)
  BY <1>3 DEF Closed, Peers
<1>5. \A q \in Component(f, p) : StreamOf(Streams(f), q) = Component(f, p)
  BY <1>1, <1>2, <1>3
<1> QED
  BY <1>2, <1>3, <1>4, <1>5

-----------------------------------------------------------------------------
\* The canonical of a stream with several pull requests, and what it is by: by what somebody said, or by its commits.
LinkedOne(links, C, c) == LinkedCanonicals(links, C) # {} /\ c \in LinkedCanonicals(links, C)
MaximalOne(f, compared, C, c) == c \in Maxima(f, compared, C)

Metas == {"none", "invalid", "valid"}

\* What the finding of a sound pull request says, when it is not the only one of its stream.
LEMMA StreamVerdict ==
  ASSUME NEW f, NEW C, C \subseteq Row, NEW links, NEW compared
  PROVE  \/ \A p \in C : C # {p} => StreamFinding(f, C, links, compared, p) = Ambiguous(C)
         \/ \E c, authority :
              /\ LinkedOne(links, C, c) \/ MaximalOne(f, compared, C, c)
              /\ \A p \in C :
                   C # {p} => StreamFinding(f, C, links, compared, p) = CanonicalFinding(p, c, authority, C)
<1> DEFINE linked == LinkedCanonicals(links, C)
           maxima == Maxima(f, compared, C)
           one == CHOOSE c \in linked : TRUE
<1>0. linked \subseteq C /\ maxima \subseteq C
  BY DEF LinkedCanonicals, Maxima
<1>1. IsFiniteSet(linked)
  <2>1. IsFiniteSet(Row)
    BY GenerationBounds, FS_Interval DEF Row
  <2> QED
    BY <1>0, <2>1, FS_Subset
<1>2. CASE Cardinality(linked) = 1
  <2>1. linked # {}
    BY <1>2, FS_EmptySet
  <2>2. one \in linked
    BY <2>1
  <2>3. LinkedOne(links, C, one)
    BY <2>2 DEF LinkedOne
  <2>4. ASSUME NEW p \in C, C # {p}
        PROVE  StreamFinding(f, C, links, compared, p) = CanonicalFinding(p, one, "link", C)
    <3>1. Cardinality(linked) = 1 /\ ~(Cardinality(linked) > 1)
      BY <1>2
    <3> QED
      BY <2>1, <2>4, <3>1, Zenon DEF StreamFinding
  <2> HIDE DEF one
  <2> QED
    BY <2>3, <2>4
<1>3. CASE linked = {} /\ maxima # {}
  <2>1. Max(maxima) \in maxima
    BY <1>0, <1>3, GreatestRow
  <2>2. MaximalOne(f, compared, C, Max(maxima))
    BY <2>1 DEF MaximalOne
  <2>3. Cardinality(linked) = 0
    BY <1>3, FS_EmptySet
  <2>4. ASSUME NEW p \in C, C # {p}
        PROVE  StreamFinding(f, C, links, compared, p) = CanonicalFinding(p, Max(maxima), "containment", C)
    BY <1>3, <2>3, <2>4 DEF StreamFinding
  <2> HIDE DEF maxima
  <2> QED
    BY <2>2, <2>4
<1>4. CASE Cardinality(linked) # 1 /\ ~(linked = {} /\ maxima # {})
  <2>1. ASSUME NEW p \in C, C # {p} PROVE StreamFinding(f, C, links, compared, p) = Ambiguous(C)
    BY <1>4, <2>1 DEF StreamFinding
  <2> QED
    BY <2>1
<1> QED
  BY <1>2, <1>3, <1>4

-----------------------------------------------------------------------------
\* GenerationSound of any facts, words and findings.
Said(f, words, c, others) ==
  (words[c].head = f[c].head /\ others \subseteq words[c].declared) \/ others \subseteq words[c].priority
CurrentIn(findings, p) == findings[p].disposition = "current"
FoundOnce(f, findings) ==
  \A p, q \in DOMAIN findings :
    p # q /\ CurrentIn(findings, p) /\ CurrentIn(findings, q) => ~SameStreamSlot(f, p, q)
FoundByEvidence(f, words, findings) ==
  \A p \in Actionable(findings) :
    LET c == findings[p].canonical
        others == findings[p].related \ {c}
    IN  /\ p \in others /\ c \in DOMAIN findings /\ CurrentIn(findings, c)
        /\ (\A q \in others : f[q].source \subseteq f[c].source) \/ Said(f, words, c, others)
FoundNewest(f, words, findings) ==
  \A p \in DOMAIN findings : CurrentIn(findings, p) =>
    \A q \in Valid(f) \ {p} :
      SameStreamSlot(f, p, q) /\ f[q].source # f[p].source /\ f[p].source \subseteq f[q].source
      => Said(f, words, p, {q})

\* Somebody said what a link stands for, and a maximum has the commits.
LEMMA CanonicalWorth ==
  ASSUME NEW f, NEW words, NEW compared, NEW C, C \subseteq DOMAIN f, NEW c,
         LinkedOne(ReviewedLinks(f, words), C, c) \/ MaximalOne(f, compared, C, c)
  PROVE  /\ c \in C
         /\ (\A q \in C \ {c} : f[q].source \subseteq f[c].source) \/ Said(f, words, c, C \ {c})
<1>1. CASE LinkedOne(ReviewedLinks(f, words), C, c)
  <2>1. c \in C /\ C \ {c} \subseteq ReviewedLinks(f, words)[c]
    BY <1>1 DEF LinkedOne, LinkedCanonicals
  <2>2. CASE DeclaredSupersessions(f, words, c) # {}
    <3>1. ReviewedLinks(f, words)[c] = DeclaredSupersessions(f, words, c)
      BY <2>1, <2>2 DEF ReviewedLinks
    <3>2. words[c].head = f[c].head /\ DeclaredSupersessions(f, words, c) \subseteq words[c].declared
      BY <2>2 DEF DeclaredSupersessions
    <3> QED
      BY <2>1, <3>1, <3>2 DEF Said
  <2>3. CASE DeclaredSupersessions(f, words, c) = {}
    <3>1. ReviewedLinks(f, words)[c] = words[c].priority \ {c}
      BY <2>1, <2>3 DEF ReviewedLinks
    <3> QED
      BY <2>1, <3>1 DEF Said
  <2> QED
    BY <2>2, <2>3
<1>2. CASE MaximalOne(f, compared, C, c)
  BY <1>2 DEF MaximalOne, Maxima, Contained
<1> QED
  BY <1>1, <1>2

FactsRead(f) == DOMAIN f \subseteq Row /\ \A p \in DOMAIN f : f[p].meta \in Metas

\* The findings of one stream: alone and current, all of them ambiguous, or one canonical for all.
FoundAlone(findings, C, p) == C = {p} /\ findings[p] = CanonicalFinding(p, p, "alone", C)
FoundUnclear(findings, C) == \A q \in C : findings[q] = Ambiguous(C)
FoundClear(f, words, findings, C) ==
  \E c \in C :
    /\ (\A q \in C \ {c} : f[q].source \subseteq f[c].source) \/ Said(f, words, c, C \ {c})
    /\ \E authority : \A q \in C : findings[q] = CanonicalFinding(q, c, authority, C)

LEMMA FoundInStream ==
  ASSUME NEW f, FactsRead(f), NEW words, NEW compared, NEW p \in Valid(f)
  PROVE  LET findings == Analyze(f, Streams(f), ReviewedLinks(f, words), compared)
             C == StreamOf(Streams(f), p)
         IN  \/ FoundAlone(findings, C, p)
             \/ C # {p} /\ FoundUnclear(findings, C)
             \/ C # {p} /\ FoundClear(f, words, findings, C)
<1> DEFINE links == ReviewedLinks(f, words)
           findings == Analyze(f, Streams(f), links, compared)
           C == StreamOf(Streams(f), p)
<1>1. /\ p \in C /\ C \subseteq Valid(f)
      /\ \A q \in C : StreamOf(Streams(f), q) = C
  BY StreamFacts DEF FactsRead
<1>2. C \subseteq DOMAIN f /\ C \subseteq Row
  BY <1>1 DEF Valid, FactsRead
<1>3. ASSUME NEW q \in C PROVE findings[q] = StreamFinding(f, C, links, compared, q)
  <2>1. q \in DOMAIN f /\ f[q].meta = "valid"
    BY <1>1 DEF Valid
  <2>2. StreamOf(Streams(f), q) = C
    BY <1>1
  <2> HIDE DEF links, C
  <2> QED
    BY <2>1, <2>2 DEF Analyze
<1> HIDE DEF findings, C, links
<1>4. CASE C = {p}
  <2>1. StreamFinding(f, C, links, compared, p) = CanonicalFinding(p, p, "alone", C)
    BY <1>4 DEF StreamFinding
  <2> QED
    BY <1>1, <1>3, <1>4, <2>1 DEF findings, C, links, FoundAlone
<1>5. CASE C # {p}
  <2>1. \A q \in C : C # {q}
    BY <1>1, <1>5
  <2>2. CASE \A q \in C : C # {q} => StreamFinding(f, C, links, compared, q) = Ambiguous(C)
    <3>1. \A q \in C : findings[q] = Ambiguous(C)
      BY <1>3, <2>1, <2>2
    <3> QED
      BY <1>5, <3>1 DEF findings, C, links, FoundUnclear
  <2>3. ASSUME NEW c, NEW authority, LinkedOne(links, C, c) \/ MaximalOne(f, compared, C, c),
               \A q \in C : C # {q} => StreamFinding(f, C, links, compared, q) = CanonicalFinding(q, c, authority, C)
        PROVE  FoundClear(f, words, findings, C)
    <3>1. c \in C /\ ((\A q \in C \ {c} : f[q].source \subseteq f[c].source) \/ Said(f, words, c, C \ {c}))
      BY <1>2, <2>3, CanonicalWorth DEF links
    <3>2. \A q \in C : findings[q] = CanonicalFinding(q, c, authority, C)
      BY <1>3, <2>1, <2>3
    <3> QED
      BY <3>1, <3>2 DEF FoundClear
  <2> QED
    <3>1. \/ \A q \in C : C # {q} => StreamFinding(f, C, links, compared, q) = Ambiguous(C)
          \/ \E c, authority :
               /\ LinkedOne(links, C, c) \/ MaximalOne(f, compared, C, c)
               /\ \A q \in C :
                    C # {q} => StreamFinding(f, C, links, compared, q) = CanonicalFinding(q, c, authority, C)
      BY <1>2, StreamVerdict
    <3> QED
      BY <1>5, <2>2, <2>3, <3>1 DEF findings, C, links
<1> QED
  BY <1>4, <1>5

\* Whatever a pass finds is found by what it read.
LEMMA FoundSound ==
  ASSUME NEW f, FactsRead(f), NEW words, NEW compared
  PROVE  LET findings == Analyze(f, Streams(f), ReviewedLinks(f, words), compared)
         IN  FoundOnce(f, findings) /\ FoundByEvidence(f, words, findings) /\ FoundNewest(f, words, findings)
<1> DEFINE findings == Analyze(f, Streams(f), ReviewedLinks(f, words), compared)
           Stream(p) == StreamOf(Streams(f), p)
           Worth(C, c) == (\A q \in C \ {c} : f[q].source \subseteq f[c].source) \/ Said(f, words, c, C \ {c})
           Alone(p) == FoundAlone(findings, Stream(p), p)
           Unclear(p) == Stream(p) # {p} /\ FoundUnclear(findings, Stream(p))
           Clear(p) == Stream(p) # {p} /\ FoundClear(f, words, findings, Stream(p))
<1>1. ASSUME NEW p \in Valid(f) PROVE Alone(p) \/ Unclear(p) \/ Clear(p)
  BY FoundInStream
<1>2. \A p \in Valid(f) :
        /\ p \in Stream(p) /\ Stream(p) \subseteq Valid(f)
        /\ \A q \in Valid(f) : SameStreamSlot(f, p, q) => q \in Stream(p)
        /\ \A q \in Stream(p) : Stream(q) = Stream(p)
  BY StreamFacts DEF FactsRead
<1>3. DOMAIN findings = {q \in DOMAIN f : f[q].meta # "none"}
  BY DEF Analyze
<1>4. \A p \in DOMAIN findings : findings[p].disposition \in {"current", "superseded"} => p \in Valid(f)
  <2> SUFFICES ASSUME NEW p \in DOMAIN findings, p \notin Valid(f)
               PROVE  findings[p].disposition = "invalid"
    BY Zenon
  <2>1. p \in DOMAIN f /\ f[p].meta = "invalid"
    BY <1>3 DEF FactsRead, Metas, Valid
  <2>2. findings[p] = Finding("invalid", 0, "none", {p})
    BY <2>1 DEF Analyze
  <2> HIDE DEF findings
  <2> QED
    BY <2>2 DEF Finding
<1>5. Valid(f) \subseteq DOMAIN findings
  BY <1>3 DEF Valid
<1> HIDE DEF findings, Stream
<1>6. \A p : Ambiguous(p).disposition = "ambiguous"
  BY DEF Ambiguous, Finding
<1>7. \A p, c, authority, C :
        LET x == CanonicalFinding(p, c, authority, C)
        IN  x.canonical = c /\ x.related = C /\ x.disposition = IF p = c THEN "current" ELSE "superseded"
  BY DEF CanonicalFinding, Finding
\* A current one of several is the canonical one.
<1>8. ASSUME NEW p \in Valid(f), Stream(p) # {p}, CurrentIn(findings, p)
      PROVE  Worth(Stream(p), p) /\ \A q \in Stream(p) \ {p} : ~CurrentIn(findings, q)
  <2>1. ~Alone(p)
    BY <1>8 DEF FoundAlone
  <2>2. ~Unclear(p)
    BY <1>2, <1>6, <1>8 DEF CurrentIn, FoundUnclear
  <2>3. Clear(p)
    BY <1>1, <2>1, <2>2
  <2>4. PICK c \in Stream(p) : Worth(Stream(p), c) /\ \E authority : \A q \in Stream(p) : findings[q] = CanonicalFinding(q, c, authority, Stream(p))
    BY <2>3 DEF FoundClear
  <2>5. PICK authority : \A q \in Stream(p) : findings[q] = CanonicalFinding(q, c, authority, Stream(p))
    BY <2>4
  <2>6. \A q \in Stream(p) : findings[q].disposition = IF q = c THEN "current" ELSE "superseded"
    BY <1>7, <2>5
  <2>7. p = c
    BY <1>2, <1>8, <2>6 DEF CurrentIn
  <2> HIDE DEF Worth
  <2> QED
    BY <2>4, <2>6, <2>7 DEF CurrentIn
<1>9. FoundOnce(f, findings)
  <2> SUFFICES ASSUME NEW p \in DOMAIN findings, NEW q \in DOMAIN findings, p # q,
                      CurrentIn(findings, p), CurrentIn(findings, q), SameStreamSlot(f, p, q)
               PROVE  FALSE
    BY DEF FoundOnce
  <2>1. p \in Valid(f) /\ q \in Valid(f)
    BY <1>4 DEF CurrentIn
  <2>2. q \in Stream(p) /\ p \in Stream(p)
    BY <1>2, <2>1
  <2>3. Stream(p) # {p}
    BY <2>2
  <2> QED
    BY <1>8, <2>1, <2>2, <2>3
<1>10. FoundByEvidence(f, words, findings)
  <2> SUFFICES ASSUME NEW p \in Actionable(findings)
               PROVE  LET c == findings[p].canonical
                          others == findings[p].related \ {c}
                      IN  /\ p \in others /\ c \in DOMAIN findings /\ CurrentIn(findings, c)
                          /\ (\A q \in others : f[q].source \subseteq f[c].source) \/ Said(f, words, c, others)
    BY DEF FoundByEvidence
  <2>1. p \in DOMAIN findings /\ findings[p].disposition = "superseded"
    BY DEF Actionable
  <2>2. p \in Valid(f)
    BY <1>4, <2>1
  <2>3. ~Alone(p)
    BY <1>7, <2>1 DEF FoundAlone
  <2>4. ~Unclear(p)
    BY <1>2, <1>6, <2>1, <2>2 DEF FoundUnclear
  <2>5. PICK c \in Stream(p) : Worth(Stream(p), c) /\ \E authority : \A q \in Stream(p) : findings[q] = CanonicalFinding(q, c, authority, Stream(p))
    BY <1>1, <2>2, <2>3, <2>4 DEF FoundClear
  <2>6. PICK authority : \A q \in Stream(p) : findings[q] = CanonicalFinding(q, c, authority, Stream(p))
    BY <2>5
  <2>7. \A q \in Stream(p) : findings[q].disposition = (IF q = c THEN "current" ELSE "superseded")
                             /\ findings[q].canonical = c /\ findings[q].related = Stream(p)
    BY <1>7, <2>6
  <2>8. p \in Stream(p) /\ c \in DOMAIN findings
    BY <1>2, <1>5, <2>2
  <2>9. p # c /\ CurrentIn(findings, c) /\ findings[p].canonical = c /\ findings[p].related = Stream(p)
    BY <2>1, <2>7, <2>8 DEF CurrentIn
  <2> QED
    BY <2>5, <2>8, <2>9
<1>11. FoundNewest(f, words, findings)
  <2> SUFFICES ASSUME NEW p \in DOMAIN findings, CurrentIn(findings, p), NEW q \in Valid(f) \ {p},
                      SameStreamSlot(f, p, q), f[q].source # f[p].source, f[p].source \subseteq f[q].source
               PROVE  Said(f, words, p, {q})
    BY DEF FoundNewest
  <2>1. p \in Valid(f)
    BY <1>4 DEF CurrentIn
  <2>2. q \in Stream(p) \ {p}
    BY <1>2, <2>1
  <2>3. Worth(Stream(p), p)
    BY <1>8, <2>1, <2>2
  <2>4. ~(f[q].source \subseteq f[p].source)
    OBVIOUS
  <2> QED
    BY <2>2, <2>3, <2>4 DEF Said
<1> QED
  BY <1>9, <1>10, <1>11 DEF findings

-----------------------------------------------------------------------------
PassPlaces == {"idle", "selected", "links", "compare", "judged", "admitted", "refused"}
SlotsDeclared == {NoSlot} \cup UNION {Slots[p] : p \in Row}
RowFacts == [state : {"open", "merged", "closed"}, meta : Metas, slot : SlotsDeclared,
             source : Sources \cup {{}}, head : Nat]

\* The judgement of a pass that reached one is sound by the facts and words it has; before, there is none.
GenerationInv ==
  /\ row \in [Row -> RowFacts]
  /\ pass = [pc |-> pass.pc, candidate |-> pass.candidate, facts |-> pass.facts, words |-> pass.words,
              findings |-> pass.findings]
  /\ pass.pc \in PassPlaces
  /\ FactsRead(pass.facts)
  /\ pass.pc \in {"idle", "selected", "links"} => pass.findings = <<>>
  /\ Judged => /\ FoundOnce(pass.facts, pass.findings)
               /\ FoundByEvidence(pass.facts, pass.words, pass.findings)
               /\ FoundNewest(pass.facts, pass.words, pass.findings)
  /\ pass.pc = "admitted" => pass.candidate \in DOMAIN pass.findings /\ CurrentIn(pass.findings, pass.candidate)

\* A pass that found nothing said nothing.
LEMMA NothingFound ==
  ASSUME NEW f, NEW words
  PROVE  FoundOnce(f, <<>>) /\ FoundByEvidence(f, words, <<>>) /\ FoundNewest(f, words, <<>>)
<1>1. DOMAIN <<>> = {}
  OBVIOUS
<1> QED
  BY <1>1 DEF FoundOnce, FoundByEvidence, FoundNewest, Actionable

\* A body that a pull request may have.
LEMMA BodiesAreFacts == ASSUME NEW p \in Row, NEW b \in Bodies(p) PROVE b \in RowFacts
<1>1. 1 \in Nat /\ NoSlot \in SlotsDeclared /\ Slots[p] \subseteq SlotsDeclared
  BY DEF SlotsDeclared
<1> QED
  BY <1>1 DEF Bodies, Body, RowFacts, Metas

LEMMA GenerationInvInit == GenerationInit => GenerationInv
<1> SUFFICES ASSUME GenerationInit PROVE GenerationInv
  OBVIOUS
<1>1. row \in [Row -> RowFacts]
  <2>1. row \in [Row -> UNION {Bodies(p) : p \in Row}] /\ \A p \in Row : row[p] \in Bodies(p)
    BY DEF GenerationInit
  <2> QED
    BY <2>1, BodiesAreFacts
<1>2. pass = NoPass
  BY DEF GenerationInit
<1>3. DOMAIN <<>> = {}
  OBVIOUS
<1>4. FactsRead(pass.facts)
  BY <1>2, <1>3 DEF NoPass, FactsRead
<1> QED
  BY <1>1, <1>2, <1>4 DEF NoPass, GenerationInv, PassPlaces, Judged

\* What people and the provider do changes rows and comments, and no pass.
LEMMA OutsideKeeps == ASSUME GenerationInv, Outside PROVE GenerationInv'
<1>1. pass' = pass
  BY DEF Outside, AuthorPushes, BodyEdited, Ended, OwnerDeclares, ControllerPrioritises
<1>2. row' \in [Row -> RowFacts]
  <2> PICK p \in Row : \/ AuthorPushes(p)
                       \/ BodyEdited(p, Body("invalid", NoSlot, {}))
                       \/ \E state \in {"merged", "closed"} : Ended(p, state)
                       \/ \E others \in (SUBSET (Row \ {p})) \ {{}} : OwnerDeclares(p, others)
                       \/ ControllerPrioritises(p, Row \ {p})
    BY DEF Outside
  <2>0. row \in [Row -> RowFacts]
    BY DEF GenerationInv
  <2>1. CASE AuthorPushes(p)
    BY <2>0, <2>1 DEF AuthorPushes, RowFacts
  <2>2. CASE BodyEdited(p, Body("invalid", NoSlot, {}))
    <3>1. row[p].head \in Nat
      BY <2>0 DEF RowFacts
    <3>2. [Body("invalid", NoSlot, {}) EXCEPT !.head = row[p].head] \in RowFacts
      BY <3>1 DEF Body, RowFacts, Metas, SlotsDeclared
    <3> QED
      BY <2>0, <2>2, <3>2 DEF BodyEdited
  <2>3. CASE \E state \in {"merged", "closed"} : Ended(p, state)
    BY <2>0, <2>3 DEF Ended, RowFacts
  <2>4. CASE (\E others \in (SUBSET (Row \ {p})) \ {{}} : OwnerDeclares(p, others)) \/ ControllerPrioritises(p, Row \ {p})
    BY <2>0, <2>4 DEF OwnerDeclares, ControllerPrioritises
  <2> QED
    BY <2>1, <2>2, <2>3, <2>4
<1> QED
  BY <1>1, <1>2 DEF GenerationInv, Judged

LEMMA ReadFactsKeeps == ASSUME GenerationInv, ReadFacts PROVE GenerationInv'
<1> PICK seen \in SUBSET Row :
      pass' = [pass EXCEPT !.facts = [p \in seen |-> row[p]],
                           !.pc = IF pass.candidate # 0 /\ pass.candidate \notin seen THEN "refused" ELSE "links"]
  BY DEF ReadFacts
<1> DEFINE shown == [p \in seen |-> row[p]]
<1>1. row' = row /\ row \in [Row -> RowFacts] /\ pass.findings = <<>>
  BY DEF ReadFacts, GenerationInv
<1>2. FactsRead(shown)
  BY <1>1 DEF FactsRead, RowFacts
<1> HIDE DEF shown
<1>3. /\ pass'.facts = shown /\ pass'.words = pass.words /\ pass'.findings = <<>>
      /\ pass'.pc \in {"refused", "links"}
      /\ pass' = [pc |-> pass'.pc, candidate |-> pass'.candidate, facts |-> pass'.facts, words |-> pass'.words,
                  findings |-> pass'.findings]
  BY <1>1 DEF GenerationInv, shown
<1>4. FoundOnce(shown, <<>>) /\ FoundByEvidence(shown, pass.words, <<>>) /\ FoundNewest(shown, pass.words, <<>>)
  BY NothingFound
<1> QED
  BY <1>1, <1>2, <1>3, <1>4 DEF GenerationInv, Judged, PassPlaces

LEMMA ReadLinksKeeps == ASSUME GenerationInv, ReadLinks PROVE GenerationInv'
<1> PICK words : pass' = [pass EXCEPT !.pc = "compare", !.words = words]
  BY DEF ReadLinks
<1>1. row' = row
  BY DEF ReadLinks
<1>2. /\ pass'.facts = pass.facts /\ pass'.pc = "compare"
      /\ pass' = [pc |-> pass'.pc, candidate |-> pass'.candidate, facts |-> pass'.facts, words |-> pass'.words,
                  findings |-> pass'.findings]
  BY DEF GenerationInv
<1> QED
  BY <1>1, <1>2 DEF GenerationInv, Judged, PassPlaces

LEMMA JudgeKeeps == ASSUME GenerationInv, Judge PROVE GenerationInv'
<1> DEFINE f == pass.facts
           w == pass.words
<1>1. PICK compared, findings :
        /\ findings = Analyze(f, Streams(f), ReviewedLinks(f, w), compared)
        /\ pass' = [pass EXCEPT !.findings = findings,
                      !.pc = IF pass.candidate = 0 THEN "judged"
                             ELSE IF pass.candidate \in DOMAIN findings /\ RequireAdmissible(findings, pass.candidate)
                             THEN "admitted" ELSE "refused"]
  BY Zenon DEF Judge
<1>2. FoundOnce(f, findings) /\ FoundByEvidence(f, w, findings) /\ FoundNewest(f, w, findings)
  BY <1>1, FoundSound DEF GenerationInv
<1>3. /\ pass'.facts = f /\ pass'.words = w /\ pass'.findings = findings /\ pass'.candidate = pass.candidate
      /\ pass'.pc \in {"judged", "admitted", "refused"}
      /\ pass'.pc = "admitted" => pass.candidate \in DOMAIN findings /\ RequireAdmissible(findings, pass.candidate)
      /\ pass' = [pc |-> pass'.pc, candidate |-> pass'.candidate, facts |-> pass'.facts, words |-> pass'.words,
                  findings |-> pass'.findings]
  BY <1>1 DEF GenerationInv
<1>4. row' = row
  BY DEF Judge
<1> QED
  BY <1>2, <1>3, <1>4 DEF GenerationInv, Judged, PassPlaces, RequireAdmissible, CurrentIn

LEMMA SelectKeeps == ASSUME GenerationInv, NEW p \in Row, Select(p) PROVE GenerationInv'
<1>1. row' = row /\ pass' = [NoPass EXCEPT !.pc = "selected", !.candidate = p]
  BY DEF Select
<1>2. /\ pass'.facts = <<>> /\ pass'.pc = "selected" /\ pass'.findings = <<>>
      /\ pass' = [pc |-> pass'.pc, candidate |-> pass'.candidate, facts |-> pass'.facts, words |-> pass'.words,
                  findings |-> pass'.findings]
  BY <1>1 DEF NoPass
<1>3. DOMAIN <<>> = {}
  OBVIOUS
<1>4. FactsRead(<<>>)
  BY <1>3 DEF FactsRead
<1> QED
  BY <1>1, <1>2, <1>4 DEF GenerationInv, Judged, PassPlaces

\* What a pass has found is sound by what it read, whatever people did meanwhile.
THEOREM GenerationInvariant == GenerationSpec => []GenerationInv
<1>1. GenerationInv /\ [GenerationNext]_generationVars => GenerationInv'
  <2> SUFFICES ASSUME GenerationInv, [GenerationNext]_generationVars PROVE GenerationInv'
    OBVIOUS
  <2>1. CASE ReadFacts
    BY <2>1, ReadFactsKeeps
  <2>2. CASE ReadLinks
    BY <2>2, ReadLinksKeeps
  <2>3. CASE Judge
    BY <2>3, JudgeKeeps
  <2>4. CASE \E p \in Row : Select(p)
    BY <2>4, SelectKeeps
  <2>5. CASE Outside
    BY <2>5, OutsideKeeps
  <2>6. CASE UNCHANGED generationVars
    BY <2>6 DEF generationVars, GenerationInv, Judged
  <2> QED
    BY <2>1, <2>2, <2>3, <2>4, <2>5, <2>6 DEF GenerationNext
<1> QED
  BY <1>1, GenerationInvInit, PTL DEF GenerationSpec

\* Two pull requests of one slot are never both current, whoever is superseded has a current successor with its commits
\* or one that somebody named, and what is admitted is the newest of its slot: StreamFinding, require_admissible.
THEOREM GenerationIsSound == GenerationSpec => []GenerationSound
<1>1. GenerationInv => GenerationSound
  <2> SUFFICES ASSUME GenerationInv PROVE GenerationSound
    OBVIOUS
  <2>1. \A c, others : SaidOf(c, others) <=> Said(pass.facts, pass.words, c, others)
    BY DEF SaidOf, Said
  <2>2. OneCurrent
    BY DEF OneCurrent, GenerationInv, FoundOnce, Current, CurrentIn
  <2>3. SupersededByEvidence
    BY <2>1 DEF SupersededByEvidence, GenerationInv, FoundByEvidence, Current, CurrentIn
  <2>4. AdmittedIsNewest
    BY <2>1 DEF AdmittedIsNewest, GenerationInv, FoundNewest, CurrentIn, Judged
  <2> QED
    BY <2>2, <2>3, <2>4 DEF GenerationSound
<1> QED
  BY <1>1, GenerationInvariant, PTL

\* What a status answers and whom a judgement calls current or superseded rest on what was read, for any schedule of
\* readers, authors and owners: status_with_discovery_options and analyze.
THEOREM ReadsAreSound == StatusSpec /\ GenerationSpec => []ReadsSound
<1>1. StatusSound /\ GenerationSound => ReadsSound
  BY DEF ReadsSound
<1> QED
  BY <1>1, StatusIsSound, GenerationIsSound, PTL
=============================================================================
