------------------------------ MODULE Command ------------------------------
(***************************************************************************)
(* The command runner (command.rs) under the sync receipt of               *)
(* sync/receipt.rs: operations of one process send requests to git and gh  *)
(* through the mutation fence, a shared request budget, an operation       *)
(* deadline and the authentication cache, whose mutex is kept through the  *)
(* credential broker and the access probe.  A write is recorded on disk    *)
(* before its child is spawned.                                            *)
(*                                                                         *)
(* The provider may revoke the installation's tokens, the lease may be     *)
(* lost, children fail, hang or answer garbage, the disk refuses a write,  *)
(* and the process may be killed, which leaves its children running.       *)
(* Time passes only while somebody waits.                                  *)
(***************************************************************************)
EXTENDS Naturals, Sequences, FiniteSets

CONSTANTS Operations,      \* operations of the process that run at the same time
          Asks,            \* [Operations -> sets of requests]: what each one sends
          Settings,        \* authentication settings to consider
          Deadlines,       \* [Operations -> Nat]: when each one's deadline is
          RequestLimit,    \* GithubRequestBudget::limit
          CommandTimeout,  \* the runner's timeout for one child
          MinimumBudget,   \* MINIMUM_COMMAND_BUDGET
          ProbeAttempts,   \* GITHUB_APP_PROBE_ATTEMPTS
          Backoff,         \* GITHUB_APP_PROBE_BACKOFF
          Margin,          \* the 60 s before its expiry at which a token is no longer usable
          TokenLife,       \* what the broker grants
          Accounts,        \* logins of gh to try
          MaxRequests,     \* bound: requests of each operation
          MaxTrouble       \* bound: failures of children and of the disk, revocations, lost leases

Free == 0

ASSUME CommandBounds ==
  /\ Free \notin Operations
  /\ Deadlines \in [Operations -> Nat] /\ MaxRequests \in [Operations -> Nat]
  /\ {RequestLimit, CommandTimeout, ProbeAttempts, Backoff, TokenLife, Accounts, MaxTrouble} \subseteq Nat
  /\ MinimumBudget \in 1 .. CommandTimeout /\ Margin \in 0 .. TokenLife - 1

VARIABLES setting,   \* mode, ambient token, and what the origin remote is
          now,
          job,       \* the request an operation has in hand
          used,      \* the budget's counter, of each operation
          probes,    \* history: gh children outside the budget
          receipt,   \* the sync receipt of each operation, in memory
          saved,     \* and on disk
          cache,     \* GITHUB_AUTH_CACHE for the repository
          holder,    \* who has its mutex, or Free
          token,     \* the provider: newest generation minted, oldest still accepted
          leased,    \* the remote lease is still ours
          effect,    \* history: what the provider applied of each operation
          alive,     \* the process
          trouble

commandVars == <<setting, now, job, used, probes, receipt, saved, cache, holder, token, leased, effect,
                 alive, trouble>>

(* ------------------------------- requests -------------------------------- *)

\* A request: its program, the words that matter, its declared intent, and whether it names
\* its repository.
Writes(q) == q.intent # "read"

\* The intent the words give away.
InferredWrite(q) ==
  CASE q.program = "git" /\ "push" \in q.words /\ "--dry-run" \notin q.words -> "git"
    [] q.program = "gh" /\ (\/ q.words \cap {"edit", "merge", "comment", "rerun", "create"} # {}
                            \/ "api" \in q.words /\ q.words \cap {"PUT", "mutation"} # {}) -> "provider"
    [] OTHER -> "read"

Unmarked(q) == InferredWrite(q) \notin {"read", q.intent}

RemoteGit(q) == q.program = "git" /\ q.words \cap {"fetch", "push"} # {}

\* The single origin remote is a GitHub repository; a checkout of a local mirror has none.
OriginKnown == setting.origin # "mirror"

\* The repository is the one the request names, or the origin's.
Resolved(q) == q.named \/ OriginKnown

\* No plaintext; SSH is overlaid by HTTPS for the child.
Secure == setting.origin # "http"

\* No rewritten or separate push URLs.
Plain == setting.origin # "rewritten"

\* No authentication is inferred, or it is the default of gh.
Uninferred(q) ==
  \/ q.program # "gh" /\ ~RemoteGit(q)
  \/ RemoteGit(q) /\ setting.mode = "ambient"
  \/ q.program = "gh" /\ setting.mode = "ambient" /\ ~Resolved(q)

\* A mode without its broker, App and installation.
BrokenMode == setting.mode = "broken"

\* App mode is wrong, or has no exact repository or transport.
Misconfigured(q) ==
  BrokenMode \/ (setting.mode = "app" /\ (~Resolved(q) \/ (RemoteGit(q) /\ ~(Secure /\ Plain))))

(* --------------------------------- steps --------------------------------- *)

On(r, p) == alive /\ job[r].pc = p
Left(r) == IF Deadlines[r] > now THEN Deadlines[r] - now ELSE 0
Least(a, b) == IF a <= b THEN a ELSE b
NoRequest == [program |-> "none"]
NoAuth == [kind |-> "none", gen |-> 0, expires |-> 0]
Idle == [pc |-> "idle", ask |-> 0, q |-> NoRequest, timeout |-> 0, until |-> 0, attempt |-> 1,
         fresh |-> TRUE, auth |-> NoAuth, done |-> FALSE, failed |-> FALSE]

Step(r, p) == job' = [job EXCEPT ![r].pc = p]

\* The caller gets an error; whoever has the cache gives it back.
Refuse(r) == /\ job' = [job EXCEPT ![r] = [Idle EXCEPT !.ask = job[r].ask, !.failed = TRUE]]
             /\ holder' = IF holder = r THEN Free ELSE holder

Trouble == trouble < MaxTrouble /\ trouble' = trouble + 1
runnerRest == <<setting, alive, leased, token>>

\* The next request of an operation; one that failed makes no more.
Ask(r) ==
  /\ On(r, "idle") /\ ~job[r].failed /\ job[r].ask < MaxRequests[r] /\ receipt[r].state = "unfinished"
  /\ \E q \in Asks[r] : job' = [job EXCEPT ![r] = [Idle EXCEPT !.pc = "fence", !.q = q, !.ask = job[r].ask + 1]]
  /\ UNCHANGED <<setting, now, used, probes, receipt, saved, cache, holder, token, leased, effect, alive, trouble>>

\* FencedCommandRunner: a write without its marker is refused, and one whose lease is gone.
Fence(r) ==
  /\ On(r, "fence")
  /\ IF Unmarked(job[r].q) \/ (Writes(job[r].q) /\ ~leased)
       THEN Refuse(r) ELSE Step(r, "admit") /\ UNCHANGED holder
  /\ UNCHANGED <<now, used, probes, receipt, saved, cache, effect, trouble, runnerRest>>

\* GithubRequestBudget::reserve counts up to its limit and not beyond.
Reserves(r) == used[r] < RequestLimit
Reserve(r) == used' = [used EXCEPT ![r] = Least(@ + 1, RequestLimit)]

\* effective_timeout: a sliver of the operation's time is no time.
Exhausted(r) == Left(r) < MinimumBudget
Timeout(r) == Least(CommandTimeout, Left(r))

\* The request is counted even when the deadline then refuses it.
Admit(r) ==
  /\ On(r, "admit")
  /\ IF job[r].q.program = "gh" THEN Reserve(r) ELSE UNCHANGED used
  /\ IF (job[r].q.program = "gh" /\ ~Reserves(r)) \/ Exhausted(r)
       THEN Refuse(r)
       ELSE /\ job' = [job EXCEPT ![r].pc = "auth", ![r].timeout = Timeout(r)]
            /\ UNCHANGED holder
  /\ UNCHANGED <<now, probes, receipt, saved, cache, effect, trouble, runnerRest>>

(* ------------------------------ credentials ------------------------------ *)

Usable(c) == now + Margin < c.expires

\* A cached selection of the same mode; an installation's token as long as it is usable.
Hit == IF setting.mode = "app" THEN cache.kind = "app" /\ Usable(cache)
                               ELSE cache.kind \in {"ambient", "account", "default"}

With(r, c) == job' = [job EXCEPT ![r].pc = "record", ![r].auth = c]

\* The settings decide, or the cache, or, with its mutex, a new selection.
Authenticate(r) ==
  LET q == job[r].q IN
  /\ On(r, "auth")
  /\ \/ Misconfigured(q) /\ ~Uninferred(q) /\ Refuse(r)
     \/ Uninferred(q) /\ With(r, NoAuth) /\ UNCHANGED holder
     \/ /\ ~Misconfigured(q) /\ ~Uninferred(q) /\ holder = Free
        /\ IF Hit THEN With(r, cache) /\ UNCHANGED holder
           ELSE /\ holder' = r
                /\ job' = [job EXCEPT ![r].pc = IF setting.mode = "app" THEN "broker" ELSE "accounts",
                                      ![r].attempt = 1]
  /\ UNCHANGED <<now, used, probes, receipt, saved, cache, effect, trouble, runnerRest>>

Select(r, c) == cache' = c /\ holder' = Free /\ With(r, c)

\* A token of the environment is taken as it is; otherwise the logins of gh are tried, each
\* with two requests, and finding none is a selection too.
TryAccounts(r) ==
  /\ On(r, "accounts")
  /\ IF setting.ambient THEN Select(r, [kind |-> "ambient", gen |-> 0, expires |-> 0]) /\ UNCHANGED used
     ELSE \E cost \in 2 .. 2 * Accounts + 1, found \in BOOLEAN :
            /\ found => used[r] + cost <= RequestLimit /\ ~Exhausted(r)
            /\ used' = [used EXCEPT ![r] = Least(@ + cost, RequestLimit)]
            /\ Select(r, [kind |-> IF found THEN "account" ELSE "default", gen |-> 0, expires |-> 0])
  /\ UNCHANGED <<now, probes, receipt, saved, effect, trouble, runnerRest>>

\* GithubAppRefusal::from_runner_error: how a child of the runner can fail,
RunnerFailure == {"timeout", "spawn", "output", "utf8"}

\* how the broker's answer can be wrong: no JSON, another repository, App or installation, or
\* near its expiry,
BadAnswer == {"nonzero", "json", "identity", "expiring"}

\* and what the provider may say of the repository.
Verdict == {"not found", "forbidden", "rejected", "gateway", "other"}

\* What says nothing about the credential.
Retryable(f) == f \in {"timeout", "deadline", "budget", "gateway"}

\* wait_before_retry: another attempt, when it can help and fits.
MayRetry(r, f) == /\ Retryable(f) /\ f \notin {"deadline", "budget"}
                  /\ job[r].attempt < ProbeAttempts /\ Left(r) >= Backoff + MinimumBudget

Fail(r, f, again) ==
  IF MayRetry(r, f)
    THEN /\ job' = [job EXCEPT ![r].pc = again, ![r].until = now + Backoff, ![r].attempt = @ + 1]
         /\ UNCHANGED holder
    ELSE Refuse(r)

\* The broker and the access probe are children with what is left of the operation's time; the
\* probe is a gh request, but the runner made for a git request has no budget.
Probe(r) ==
  LET access == job[r].pc = "access"
      counted == access /\ job[r].q.program = "gh" IN
  /\ alive /\ job[r].pc \in {"broker", "access"}
  /\ IF counted THEN Reserve(r) ELSE UNCHANGED used
  /\ IF (counted /\ ~Reserves(r)) \/ Exhausted(r)
       THEN Fail(r, IF Exhausted(r) THEN "deadline" ELSE "budget", "none") /\ UNCHANGED probes
       ELSE /\ job' = [job EXCEPT ![r].pc = IF access THEN "probing" ELSE "minting", ![r].until = now + Timeout(r)]
            /\ probes' = IF access /\ ~counted THEN [probes EXCEPT ![r] = @ + 1] ELSE probes
            /\ UNCHANGED holder
  /\ UNCHANGED <<now, receipt, saved, cache, effect, trouble, runnerRest>>

\* The broker answers with this repository's credential of the expected App and installation.
Mint(r) ==
  /\ On(r, "minting")
  /\ \/ /\ token' = [token EXCEPT !.newest = @ + 1]
        /\ job' = [job EXCEPT ![r].pc = "access", ![r].attempt = 1,
                   ![r].auth = [kind |-> "app", gen |-> token.newest + 1, expires |-> now + TokenLife]]
        /\ UNCHANGED <<holder, trouble>>
     \/ \E f \in RunnerFailure \cup BadAnswer :
          (f = "timeout" => now = job[r].until) /\ Trouble /\ Fail(r, f, "mintAgain") /\ UNCHANGED token
  /\ UNCHANGED <<now, used, probes, receipt, saved, cache, effect, setting, alive, leased>>

\* The token must open the exact repository.
Access(r) ==
  /\ On(r, "probing")
  /\ \/ job[r].auth.gen >= token.oldest /\ Select(r, job[r].auth) /\ UNCHANGED trouble
     \/ \E f \in RunnerFailure \cup Verdict :
          (f = "timeout" => now = job[r].until) /\ Trouble /\ Fail(r, f, "probeAgain") /\ UNCHANGED cache
  /\ UNCHANGED <<now, used, probes, receipt, saved, effect, runnerRest>>

\* The backoff is over.
Wake(r) ==
  /\ alive /\ job[r].pc \in {"mintAgain", "probeAgain"} /\ now = job[r].until
  /\ Step(r, IF job[r].pc = "mintAgain" THEN "broker" ELSE "access")
  /\ UNCHANGED <<now, used, probes, receipt, saved, cache, holder, effect, trouble, runnerRest>>

(* -------------------------------- children ------------------------------- *)

\* before_spawn: what may write is on disk before it can run, or does not run.
Recorded(q) == Writes(q) \/ InferredWrite(q) # "read"
Attempted(w) == [w EXCEPT !.writes = Append(@, "may_have_run")]

RecordAttempt(r) ==
  /\ On(r, "record")
  /\ \/ /\ IF Recorded(job[r].q)
             THEN /\ receipt' = [receipt EXCEPT ![r] = Attempted(@)]
                  /\ saved' = [saved EXCEPT ![r] = receipt'[r]]
             ELSE UNCHANGED <<receipt, saved>>
        /\ Step(r, "spawn") /\ UNCHANGED <<holder, trouble>>
     \/ Recorded(job[r].q) /\ Trouble /\ Refuse(r) /\ UNCHANGED <<receipt, saved>>
  /\ UNCHANGED <<now, used, probes, cache, effect, runnerRest>>

\* Attempt::finish on the last attempt; the disk may refuse it, and memory has it then.
LastWrite(w, state) == [w EXCEPT !.writes[Len(w.writes)] = state]

Finished(r, state) ==
  IF Recorded(job[r].q) THEN receipt' = [receipt EXCEPT ![r] = LastWrite(@, state)] /\ saved' = [saved EXCEPT ![r] = receipt'[r]]
  ELSE UNCHANGED <<receipt, saved>>

\* The child starts, with the timeout computed before authentication; or cannot be started.
Spawn(r) ==
  /\ On(r, "spawn")
  /\ \/ /\ job' = [job EXCEPT ![r].pc = "running", ![r].until = now + job[r].timeout]
        /\ UNCHANGED <<receipt, saved, holder, trouble>>
     \/ Trouble /\ Finished(r, "not_started") /\ Refuse(r)
  /\ UNCHANGED <<now, used, probes, cache, effect, runnerRest>>

\* The provider no longer accepts the token.
Rejected(r) == job[r].auth.kind = "app" /\ job[r].auth.gen < token.oldest

\* The provider applies a write while its child runs, also after the process is gone.
Apply(r) ==
  /\ job[r].pc = "running" /\ Recorded(job[r].q) /\ ~job[r].done /\ ~Rejected(r)
  /\ effect' = [effect EXCEPT ![r] = @ + 1]
  /\ job' = [job EXCEPT ![r].done = TRUE]
  /\ UNCHANGED <<setting, now, used, probes, receipt, saved, cache, holder, token, leased, alive, trouble>>

\* The answer to a request is the caller's, successful or not.
Answer(r, ok) == job' = [job EXCEPT ![r] = [Idle EXCEPT !.ask = job[r].ask, !.failed = ~ok]]

\* A request is one call of the provider: denied, it was not applied.
Denied(r) == Rejected(r) /\ ~job[r].done

\* A rejected token is dropped from the cache and the request sent once more.
Refreshes(r) == job[r].fresh /\ Denied(r)

Forget == cache' = IF cache.kind = "app" THEN [cache EXCEPT !.kind = "empty"] ELSE cache

\* Past the fence, with a new reservation and what is left of the time.
SendAgain(r) == job' = [job EXCEPT ![r].pc = "admit", ![r].fresh = FALSE, ![r].auth = NoAuth, ![r].done = FALSE]

\* The child exits by itself: it did what it was asked, or says why not.
Exit(r) ==
  /\ On(r, "running")
  /\ \E ok \in BOOLEAN :
       /\ ok => ~Denied(r) /\ (Recorded(job[r].q) => job[r].done)
       /\ IF ok \/ Denied(r) THEN UNCHANGED trouble ELSE Trouble
       /\ Finished(r, "returned")
       /\ IF ~ok /\ Refreshes(r) THEN Forget /\ SendAgain(r)
          ELSE Answer(r, ok) /\ UNCHANGED cache
  /\ UNCHANGED <<now, used, probes, holder, effect, runnerRest>>

\* The receipt's second write fails: the caller sees a refusal of what was done.
ExitUnrecorded(r) ==
  /\ On(r, "running") /\ Recorded(job[r].q) /\ Trouble
  /\ receipt' = [receipt EXCEPT ![r] = LastWrite(@, "returned")]
  /\ Answer(r, FALSE)
  /\ UNCHANGED <<now, used, probes, saved, cache, holder, effect, runnerRest>>

\* Too much output, output that is not UTF-8, a lost pipe: the attempt stays open.
Garbled(r) ==
  /\ On(r, "running") /\ Trouble /\ Answer(r, FALSE)
  /\ UNCHANGED <<now, used, probes, receipt, saved, cache, holder, effect, runnerRest>>

\* At its deadline the child and its process group are ended and reaped; the attempt stays open.
Reap(r) ==
  /\ On(r, "running") /\ now = job[r].until /\ Trouble
  /\ Answer(r, FALSE)
  /\ UNCHANGED <<now, used, probes, receipt, saved, cache, holder, effect, runnerRest>>

(* ------------------------------ the operation ---------------------------- *)

MayHaveReturned(w) == \E i \in DOMAIN w.writes : w.writes[i] = "returned"
MayHaveWritten(w) == \E i \in DOMAIN w.writes : w.writes[i] # "not_started"

\* Scope::finish: the receipt says how the operation ended.
Ending(w, failed) == [w EXCEPT !.state = IF ~failed THEN "completed"
                                         ELSE IF MayHaveWritten(w) THEN "failed" ELSE "failed_before_provider_write"]

End(r) ==
  /\ On(r, "idle") /\ receipt[r].state = "unfinished"
  /\ receipt' = [receipt EXCEPT ![r] = Ending(@, job[r].failed)]
  /\ \/ saved' = [saved EXCEPT ![r] = receipt'[r]] /\ UNCHANGED trouble
     \/ Trouble /\ UNCHANGED saved
  /\ UNCHANGED <<now, job, used, probes, cache, holder, effect, runnerRest>>

(* ----------------------------- what happens ------------------------------ *)

Revoke == /\ alive /\ Trouble /\ token' = [token EXCEPT !.oldest = token.newest + 1]
          /\ UNCHANGED <<setting, now, job, used, probes, receipt, saved, cache, holder, leased, effect, alive>>

LoseLease == /\ alive /\ leased /\ Trouble /\ leased' = FALSE
             /\ UNCHANGED <<setting, now, job, used, probes, receipt, saved, cache, holder, token, effect, alive>>

\* Killed: memory is gone, children are not.
Kill == /\ alive /\ Trouble /\ alive' = FALSE
        /\ UNCHANGED <<setting, now, job, used, probes, receipt, saved, cache, holder, token, leased, effect>>

\* Time passes while every operation waits: for its child, for a retry, for the mutex.
Waits(r) == \/ job[r].pc \in {"minting", "probing", "mintAgain", "probeAgain", "running"} /\ now < job[r].until
            \/ job[r].pc = "auth" /\ holder # Free /\ ~Misconfigured(job[r].q) /\ ~Uninferred(job[r].q)
            \/ job[r].pc = "idle" /\ receipt[r].state # "unfinished"
Pass == /\ alive /\ \A r \in Operations : Waits(r)
        /\ \E r \in Operations : job[r].pc # "idle"
        /\ now' = now + 1
        /\ UNCHANGED <<setting, job, used, probes, receipt, saved, cache, holder, token, leased, effect, alive, trouble>>

CommandInit ==
  /\ setting \in Settings
  /\ now = 0 /\ alive = TRUE /\ leased = TRUE /\ holder = Free /\ trouble = 0
  /\ job = [r \in Operations |-> Idle]
  /\ used = [r \in Operations |-> 0] /\ probes = used /\ effect = used
  /\ receipt = [r \in Operations |-> [state |-> "unfinished", writes |-> <<>>]] /\ saved = receipt
  /\ cache = [kind |-> "empty", gen |-> 0, expires |-> 0]
  /\ token = [newest |-> 0, oldest |-> 0]

CommandStep(r) ==
  \/ Ask(r) \/ Fence(r) \/ Admit(r) \/ Authenticate(r) \/ TryAccounts(r) \/ Probe(r) \/ Mint(r) \/ Access(r)
  \/ Wake(r) \/ RecordAttempt(r) \/ Spawn(r) \/ Apply(r) \/ Exit(r) \/ ExitUnrecorded(r) \/ Garbled(r) \/ Reap(r) \/ End(r)

CommandNext == (\E r \in Operations : CommandStep(r)) \/ Revoke \/ LoseLease \/ Kill \/ Pass

CommandSpec == CommandInit /\ [][CommandNext]_commandVars

(* ------------------------------ properties ------------------------------- *)

\* Whatever fails, and wherever the process is killed, the receipt on disk never understates:
\* there is a write that may have run for every effect the provider has, and an operation that
\* says it failed before any provider write had none (sync/receipt.rs).
ReceiptHonest ==
  \A r \in Operations :
    /\ effect[r] <= Cardinality({i \in DOMAIN saved[r].writes : saved[r].writes[i] # "not_started"})
    /\ saved[r].state = "failed_before_provider_write" => effect[r] = 0

\* A runner's bounds: no write is applied twice for one request, the budget is kept by all but
\* the probes of git requests, no child runs longer than one timeout past the last deadline,
\* and one selection is made at a time (command.rs).
RunnerBounded ==
  \A r \in Operations :
    /\ effect[r] <= job[r].ask
    /\ used[r] <= RequestLimit
    /\ job[r].pc = "running" => \E s \in Operations : job[r].until <= Deadlines[s] + CommandTimeout
    /\ job[r].pc \in {"broker", "access", "minting", "probing", "mintAgain", "probeAgain", "accounts"} => holder = r

\* What the runner promises of a write: a receipt that never understates it, and one
\* application of it within the runner's bounds, whatever fails, expires or is killed.
RunnerSound == ReceiptHonest /\ RunnerBounded

=============================================================================
