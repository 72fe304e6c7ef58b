------------------------------ MODULE Recovery ------------------------------
(***************************************************************************)
(* What happens around a failed tick: the loop that records it and ticks   *)
(* again (loop_runner.rs), and the recovery ledger in which hosts outside  *)
(* Cara note a request for the failure and the attempts to answer it       *)
(* (recovery_ledger.rs).  The ledger is one file, read and replaced as a   *)
(* whole by commands that hold no lock.                                    *)
(***************************************************************************)
EXTENDS Naturals, Sequences, FiniteSets, SequencesExt

CONSTANTS Hosts,           \* commands that may run at the same time
          MaxAttempts,     \* --max-attempts
          InitialBackoff,  \* --initial-backoff-secs
          MaxBackoff,      \* MAX_BACKOFF_SECS
          Retained,        \* MAX_RETAINED_FAILURES
          Errors,          \* what ticks fail with, by what classify_disposition reads of it
          Reported,        \* the outcomes that receipts report
          MaxTicks, MaxReceipts, MaxWorld  \* bounds

VARIABLES loop,    \* `cara loop`: counters, the failures it keeps, the last error
          world,   \* the provider: the pull request and the default branch
          ledger,  \* recovery-ledger.json: entries by request
          host,    \* per command: what it has read and will write
          receipts \* bound: receipts submitted so far

ledgerVars == <<loop, world, ledger, host, receipts>>

NoRecord == [none |-> TRUE]
Outcomes == {"acknowledged", "transient_failure", "refused", "terminal_failure", "success"}

ASSUME RecoveryBounds ==
    /\ MaxAttempts \in Nat \ {0} /\ InitialBackoff \in Nat \ {0} /\ MaxBackoff \in Nat /\ MaxBackoff >= InitialBackoff
    /\ Retained \in Nat \ {0} /\ MaxTicks \in Nat /\ MaxReceipts \in Nat /\ MaxWorld \in Nat
    /\ Errors \subseteq [disposition : {"retry_tick", "external_decision", "absent"}, transientCode : BOOLEAN, plan : BOOLEAN]
    /\ Reported \subseteq Outcomes

\* Powers of two grow, as far as delays are doubled: a fact about numbers that TLC evaluates
\* in full, for the provers to whom exponentiation is unknown.
ASSUME Doubling == \A i, j \in 0..20 : i <= j => 2 ^ i \in Nat /\ 2 ^ j \in Nat /\ 1 <= 2 ^ i /\ 2 ^ i <= 2 ^ j

------------------------------------------------------------------------------
(* The loop.                                                                 *)

LoopStart == [ticks |-> 0, failed |-> 0, consecutive |-> 0, recent |-> <<>>, error |-> NoRecord, stopped |-> FALSE]

TickSucceeds ==
    /\ ~loop.stopped /\ loop.ticks < MaxTicks
    /\ loop' = [loop EXCEPT !.ticks = @ + 1, !.consecutive = 0]
    /\ UNCHANGED <<world, ledger, host, receipts>>

Keep(failures, f) == IF Len(failures) = Retained THEN Append(Tail(failures), f) ELSE Append(failures, f)

TickFails(e) ==
    /\ ~loop.stopped /\ loop.ticks < MaxTicks
    /\ loop' = [loop EXCEPT !.ticks = @ + 1, !.failed = @ + 1, !.consecutive = @ + 1,
                            !.recent = Keep(@, loop.ticks + 1), !.error = e]
    /\ UNCHANGED <<world, ledger, host, receipts>>

Stop ==
    /\ ~loop.stopped /\ loop' = [loop EXCEPT !.stopped = TRUE]
    /\ UNCHANGED <<world, ledger, host, receipts>>

------------------------------------------------------------------------------
(* A request: the failure and the exact provider generation it was seen in.  *)

ClassifyDisposition(e) ==
    IF e.disposition = "retry_tick" \/ e.transientCode THEN "retry_transient"
    ELSE IF e.disposition = "external_decision" THEN "external_decision" ELSE "operator_action"

AllowedActions(e) ==
    (IF ClassifyDisposition(e) = "retry_transient" THEN {"rediscover", "retry_sync"} ELSE {"operator_decision"})
    \cup {"owner_repair"} \cup (IF e.plan THEN {"exact_plan"} ELSE {})

Request(e, seen) ==
    [head |-> seen.head, main |-> seen.tip, disposition |-> ClassifyDisposition(e), allowed |-> AllowedActions(e)]

Idle == [pc |-> "idle", req |-> NoRecord, copy |-> NoRecord]

\* A fresh status is read before the ledger is.
ReadFreshStatus(h) ==
    /\ host[h].pc = "idle" /\ loop.error # NoRecord /\ receipts < MaxReceipts
    /\ host' = [host EXCEPT ![h].pc = "request", ![h].req = Request(loop.error, world)]
    /\ receipts' = receipts + 1 /\ UNCHANGED <<loop, world, ledger>>

\* Two observations are never equal, so a request that is already there is refused.
LoadForRequest(h) ==
    /\ host[h].pc = "request"
    /\ LET r == host[h].req IN
       host' = [host EXCEPT ![h] =
           IF r \in DOMAIN ledger THEN Idle
           ELSE [pc |-> "persist", req |-> r,
                 copy |-> [q \in DOMAIN ledger \cup {r} |->
                             IF q = r THEN [attempts |-> <<>>, escalation |-> "none", completed |-> FALSE]
                             ELSE ledger[q]]]]
    /\ UNCHANGED <<loop, world, ledger, receipts>>

------------------------------------------------------------------------------
(* An attempt.                                                               *)

\* Mutant: success is taken from the receipt.
SuccessClaimed(landed) == TRUE

\* A fresh status shows the pull request merged and the claimed commit as the tip.
SuccessVerified(landed) == world.merged # 0 /\ world.tip = landed

NextRetry(attempt) ==
    LET doubled == InitialBackoff * 2 ^ (IF attempt - 1 < 20 THEN attempt - 1 ELSE 20)
    IN IF doubled < MaxBackoff THEN doubled ELSE MaxBackoff

Escalation(r) == IF "exact_plan" \in r.allowed THEN "exact_plan_owner_request" ELSE "operator_escalation"

\* Mutant: the last attempt is not counted as exhausting the budget.
ExhaustedLate(r, attempt) == attempt > MaxAttempts

Exhausted(r, attempt) == attempt >= MaxAttempts

Recorded(entry, r, outcome, op, landed) ==
    LET attempt == Len(entry.attempts) + 1
        retryable == outcome = "transient_failure" /\ r.disposition = "retry_transient"
        exhausted == retryable /\ Exhausted(r, attempt)
    IN [attempts |-> Append(entry.attempts,
                            [attempt |-> attempt, outcome |-> outcome, op |-> op, landed |-> landed,
                             retry |-> IF retryable /\ ~exhausted THEN NextRetry(attempt) ELSE 0]),
        escalation |-> IF exhausted /\ entry.escalation = "none" THEN Escalation(r) ELSE entry.escalation,
        completed |-> outcome = "success"]

Duplicate(entry, outcome, op) ==
    op # 0 /\ \E i \in DOMAIN entry.attempts : entry.attempts[i].outcome = outcome /\ entry.attempts[i].op = op

LoadForAttempt(h, r, outcome, op, landed) ==
    /\ host[h].pc = "idle" /\ receipts < MaxReceipts /\ receipts' = receipts + 1
    /\ r \in DOMAIN ledger
    /\ LET entry == ledger[r]
           full == /\ outcome = "transient_failure" /\ r.disposition = "retry_transient"
                   /\ Len(entry.attempts) >= MaxAttempts
           valid == outcome = "success" => SuccessVerified(landed)
       IN host' = [host EXCEPT ![h] =
            IF ~valid \/ Duplicate(entry, outcome, op) \/ full THEN Idle
            ELSE [pc |-> "persist", req |-> r,
                  copy |-> [ledger EXCEPT ![r] = Recorded(entry, r, outcome, op, landed)]]]
    /\ UNCHANGED <<loop, world, ledger>>

\* A temporary file, synced and renamed over the ledger.
Persist(h) ==
    /\ host[h].pc = "persist"
    /\ ledger' = host[h].copy /\ host' = [host EXCEPT ![h] = Idle]
    /\ UNCHANGED <<loop, world, receipts>>

Dies(h) ==
    /\ host[h].pc # "idle" /\ host' = [host EXCEPT ![h] = Idle]
    /\ UNCHANGED <<loop, world, ledger, receipts>>

------------------------------------------------------------------------------
(* The provider.                                                             *)

Lands == world.merged = 0 /\ world' = [world EXCEPT !.merged = world.tip + 1, !.tip = @ + 1]
OtherLands == world' = [world EXCEPT !.tip = @ + 1]
HeadMoves == world.merged = 0 /\ world' = [world EXCEPT !.head = @ + 1]

World == /\ world.tip + world.head < MaxWorld
         /\ Lands \/ OtherLands \/ HeadMoves
         /\ UNCHANGED <<loop, ledger, host, receipts>>

------------------------------------------------------------------------------

NoRequests == [q \in {} |-> NoRecord]

LedgerInit ==
    /\ loop = LoopStart /\ world = [head |-> 1, merged |-> 0, tip |-> 1]
    /\ ledger = NoRequests /\ host = [h \in Hosts |-> Idle] /\ receipts = 0

LedgerNext ==
    \/ TickSucceeds \/ Stop \/ World \/ \E e \in Errors : TickFails(e)
    \/ \E h \in Hosts :
         \/ ReadFreshStatus(h) \/ LoadForRequest(h) \/ Persist(h) \/ Dies(h)
         \/ \E r \in DOMAIN ledger, outcome \in Reported, op \in 0..1 :
              \E landed \in IF outcome = "success" THEN 1..world.tip ELSE {0} :
                LoadForAttempt(h, r, outcome, op, landed)

LedgerSpec == LedgerInit /\ [][LedgerNext]_ledgerVars

------------------------------------------------------------------------------
(* Properties.                                                               *)

LedgerTypeOK ==
    /\ loop.failed <= loop.ticks /\ Len(loop.recent) <= Retained
    /\ \A r \in DOMAIN ledger : \A i \in DOMAIN ledger[r].attempts : ledger[r].attempts[i].outcome \in Outcomes
    /\ \A h \in Hosts : host[h].pc \in {"idle", "request", "persist"}

Retryable(r, a) == a.outcome = "transient_failure" /\ r.disposition = "retry_transient"

\* The failures that the loop keeps are the newest ones, in order, and a row of failures
\* that is still going on is counted in full (drive).
LoopSound ==
    LET n == Len(loop.recent) IN
    /\ n = (IF loop.failed < Retained THEN loop.failed ELSE Retained)
    /\ \A i \in 1..n - 1 : loop.recent[i] < loop.recent[i + 1]
    /\ \A i \in 1..n : i > n - loop.consecutive => loop.recent[i] = loop.ticks - (n - i)

\* Whatever commands overlap, overwrite each other or die, every ledger a reader can see is
\* one history: attempts are numbered in a row, delays grow and stay within the limit, an
\* escalation is there exactly when the last allowed transient attempt failed, and a
\* success was proved by a merged pull request (record_attempt, persist_ledger); and the
\* loop's own record of its failures is exact.
LedgerSound ==
    /\ LedgerTypeOK /\ LoopSound
    /\ \A r \in DOMAIN ledger :
         LET e == ledger[r]
             spent == {i \in DOMAIN e.attempts : Retryable(r, e.attempts[i])}
         IN /\ \A i \in DOMAIN e.attempts : e.attempts[i].attempt = i
            /\ \A i \in spent : i <= MaxAttempts
            /\ (e.escalation # "none") <=> MaxAttempts \in spent
            /\ \A i, j \in spent \ {MaxAttempts} :
                 /\ e.attempts[i].retry \in InitialBackoff..MaxBackoff
                 /\ i < j => e.attempts[i].retry <= e.attempts[j].retry
            /\ \A i \in DOMAIN e.attempts : e.attempts[i].outcome = "success" => world.merged # 0
=============================================================================
