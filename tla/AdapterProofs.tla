---------------------------- MODULE AdapterProofs ----------------------------
(***************************************************************************)
(* Proofs about the adapters to the world outside: the command runner and  *)
(* the GitHub mutations it runs, the journal and its telemetry.            *)
(*                                                                         *)
(* Command, for any number of operations, any requests, settings,          *)
(* deadlines and limits.  RunnerSound is not inductive.  An effect is      *)
(* counted when the provider applies a write, so the invariant looks       *)
(* ahead: while a request that may write is in hand and not applied, one   *)
(* more effect is already provided for, in the number of requests          *)
(* (Counted) and in the receipt (Honest), whose copies in memory and on    *)
(* disk agree on which attempts may have run.  No child starts late        *)
(* because time passes only while every operation waits: one that waits    *)
(* for the authentication cache waits for an operation that has it, and    *)
(* that one's own wait ends by its deadline (Timed, CacheHeld).            *)
(*                                                                         *)
(* Mutations, for any plan and any number of changes and failures.         *)
(*                                                                         *)
(* Journal and Telemetry, for any writers, batches, number of archives and *)
(* file size: the journal implements JournalView, and a hook runs only for *)
(* an event whose line is written.  For any flushes of a journal that      *)
(* does, the branch has each record once and a push keeps what is          *)
(* published.  A reader sees the concatenation of the files, so the first  *)
(* part says what each file operation of a rotation does to it; a rename   *)
(* in the middle of a rotation leaves it as it is because the file it      *)
(* renames to is empty, which is the heart of that invariant.              *)
(***************************************************************************)
EXTENDS Command, Mutations, Journal, Telemetry, SequenceTheorems, FiniteSetTheorems, NaturalsInduction,
        WellFoundedInduction, TLAPS

WriteState == {"may_have_run", "not_started", "returned"}
ReceiptType == [state : {"unfinished", "completed", "failed", "failed_before_provider_write"},
                writes : Seq(WriteState)]
Request == {NoRequest} \cup UNION {Asks[r] : r \in Operations}
Auth == [kind : {"none", "empty", "ambient", "account", "default", "app"}, gen : Nat, expires : Nat]

\* Where a wait ends by the operation's deadline, and who has the cache.
WaitPc == {"minting", "probing", "mintAgain", "probeAgain"}
HoldPc == WaitPc \cup {"broker", "access", "accounts"}
\* Admitted, and the child not yet started.
HandPc == HoldPc \cup {"auth", "record", "spawn"}
Pc == HandPc \cup {"idle", "fence", "admit", "running"}
Job == [pc : Pc, ask : Nat, q : Request, timeout : Nat, until : Nat, attempt : Nat, fresh : BOOLEAN,
        auth : Auth, done : BOOLEAN, failed : BOOLEAN]

\* Every variable has its type.
CommandTypeOK ==
  /\ now \in Nat /\ job \in [Operations -> Job]
  /\ used \in [Operations -> 0 .. RequestLimit] /\ effect \in [Operations -> Nat]
  /\ receipt \in [Operations -> ReceiptType] /\ saved \in [Operations -> ReceiptType]
  /\ cache \in Auth /\ holder \in Operations \cup {Free}
  /\ token \in [newest : Nat, oldest : Nat]

\* The attempts of a receipt that may have had an effect.
Booked(w) == {i \in DOMAIN w.writes : w.writes[i] # "not_started"}

\* A request has one effect at most, and a request in hand has one to come.
Counted(j, e) == e <= j.ask /\ (j.pc # "idle" /\ ~j.done => e < j.ask)

\* The receipt in memory (w) and the one on disk (d) of an operation with e effects.
Honest(j, e, w, d) ==
  /\ DOMAIN w.writes = DOMAIN d.writes /\ Booked(w) = Booked(d)
  /\ e <= Cardinality(Booked(w))
  /\ j.pc \in {"spawn", "running"} /\ Recorded(j.q) =>
       Len(w.writes) \in Booked(w) /\ (~j.done => e < Cardinality(Booked(w)))
  /\ j.done => j.pc = "running"
  /\ w.state # "unfinished" => j.pc = "idle"
  /\ d.state # "unfinished" => w.state # "unfinished"
  /\ d.state = "failed_before_provider_write" => e = 0

\* Waits end by the operation's deadline; what is in hand is before somebody's.
Timed(r, j, n) ==
  /\ j.timeout <= CommandTimeout
  /\ j.pc \in WaitPc => j.until <= Deadlines[r]
  /\ j.pc \in HandPc => \E s \in Operations : n <= Deadlines[s]
  /\ j.pc = "running" => \E s \in Operations : j.until <= Deadlines[s] + CommandTimeout

CacheHeld == \A r \in Operations : job[r].pc \in HoldPc <=> holder = r

CommandInv ==
  /\ CommandTypeOK
  /\ CacheHeld
  /\ \A r \in Operations : /\ Counted(job[r], effect[r])
                           /\ Honest(job[r], effect[r], receipt[r], saved[r])
                           /\ Timed(r, job[r], now)

-----------------------------------------------------------------------------
(* Receipts.                                                               *)

LEMMA BookedFinite ==
  ASSUME NEW w \in ReceiptType
  PROVE  /\ IsFiniteSet(Booked(w)) /\ Cardinality(Booked(w)) \in Nat
         /\ DOMAIN w.writes = 1 .. Len(w.writes) /\ Len(w.writes) \in Nat
<1>1. w.writes \in Seq(WriteState)
  BY DEF ReceiptType
<1>2. DOMAIN w.writes = 1 .. Len(w.writes) /\ Len(w.writes) \in Nat
  BY <1>1, LenProperties
<1>3. IsFiniteSet(1 .. Len(w.writes))
  BY <1>2, FS_Interval
<1>4. IsFiniteSet(Booked(w))
  BY <1>2, <1>3, FS_Subset DEF Booked
<1> QED
  BY <1>2, <1>4, FS_CardinalityType

\* A new attempt is one that may have run.
LEMMA AttemptedBooks ==
  ASSUME NEW w \in ReceiptType
  PROVE  /\ Attempted(w) \in ReceiptType /\ Attempted(w).state = w.state
         /\ Len(Attempted(w).writes) \in Booked(Attempted(w))
         /\ Cardinality(Booked(Attempted(w))) = Cardinality(Booked(w)) + 1
<1> DEFINE n == Len(w.writes) + 1
           v == Attempted(w)
<1>1. w.writes \in Seq(WriteState) /\ Len(w.writes) \in Nat /\ DOMAIN w.writes = 1 .. Len(w.writes)
  BY BookedFinite DEF ReceiptType
<1>2. v.writes = Append(w.writes, "may_have_run") /\ v.state = w.state
  BY DEF Attempted, ReceiptType
<1>3. v \in ReceiptType
  BY SMTT(30), <1>1, <1>2 DEF Attempted, ReceiptType, WriteState
<1>4. DOMAIN v.writes = 1 .. n /\ Len(v.writes) = n /\ v.writes[n] = "may_have_run"
      /\ \A i \in 1 .. Len(w.writes) : v.writes[i] = w.writes[i]
  BY <1>1, <1>2, "may_have_run" \in WriteState, AppendProperties DEF WriteState
<1>5. Booked(v) = Booked(w) \cup {n} /\ n \notin Booked(w)
  BY <1>1, <1>4 DEF Booked
<1>6. Cardinality(Booked(v)) = Cardinality(Booked(w)) + 1
  BY <1>5, BookedFinite, FS_AddElement
<1> QED
  BY <1>2, <1>3, <1>4, <1>5, <1>6

\* The end of the last attempt, when it may have run until then.
LEMMA LastWriteBooks ==
  ASSUME NEW w \in ReceiptType, Len(w.writes) \in Booked(w), NEW state \in WriteState
  PROVE  /\ LastWrite(w, state) \in ReceiptType /\ LastWrite(w, state).state = w.state
         /\ DOMAIN LastWrite(w, state).writes = DOMAIN w.writes
         /\ state # "not_started" => Booked(LastWrite(w, state)) = Booked(w)
         /\ state = "not_started" =>
              Cardinality(Booked(LastWrite(w, state))) = Cardinality(Booked(w)) - 1
<1> DEFINE n == Len(w.writes)
           v == LastWrite(w, state)
<1>1. w.writes \in Seq(WriteState) /\ n \in Nat /\ DOMAIN w.writes = 1 .. n
  BY BookedFinite DEF ReceiptType
<1>2. n \in 1 .. n
  BY <1>1 DEF Booked
<1>3. v.writes = [w.writes EXCEPT ![n] = state] /\ v.state = w.state
  BY DEF LastWrite, ReceiptType
<1>4. v.writes \in Seq(WriteState) /\ DOMAIN v.writes = 1 .. n
  BY <1>1, <1>2, <1>3, ExceptSeq
<1>5. v \in ReceiptType
  BY <1>4 DEF LastWrite, ReceiptType
<1>6. v.writes[n] = state /\ \A i \in 1 .. n : i # n => v.writes[i] = w.writes[i]
  BY <1>1, <1>2, <1>3
<1>7. state # "not_started" => Booked(v) = Booked(w)
  BY <1>1, <1>4, <1>6 DEF Booked
<1>8. ASSUME state = "not_started"
      PROVE  Cardinality(Booked(v)) = Cardinality(Booked(w)) - 1
  <2>1. Booked(v) = Booked(w) \ {n}
    BY <1>1, <1>4, <1>6, <1>8 DEF Booked
  <2> QED
    BY ZenonT(40), <2>1, BookedFinite, FS_RemoveElement
<1> QED
  BY <1>1, <1>3, <1>4, <1>5, <1>7, <1>8

-----------------------------------------------------------------------------
(* Steps.                                                                  *)

LEMMA IdleJob == Idle \in Job /\ Idle.pc = "idle" /\ ~Idle.done /\ Idle.timeout = 0
BY CommandBounds DEF Idle, NoAuth, Job, Pc, HandPc, HoldPc, WaitPc, Request, Auth

LEMMA AskedJob ==
  ASSUME NEW q \in Request, NEW k \in Nat
  PROVE  LET j == [Idle EXCEPT !.pc = "fence", !.q = q, !.ask = k]
         IN  j \in Job /\ j.pc = "fence" /\ ~j.done /\ j.timeout = 0 /\ j.ask = k /\ j.q = q
<1>1. "fence" \in Pc /\ NoAuth \in Auth
  BY DEF Pc, NoAuth, Auth
<1> QED
  BY <1>1 DEF Idle, Job

LEMMA CommandInitInv == CommandInit => CommandInv
<1> SUFFICES ASSUME CommandInit PROVE CommandInv
  OBVIOUS
<1> DEFINE w0 == [state |-> "unfinished", writes |-> <<>>]
<1>1. w0 \in ReceiptType
  BY DEF ReceiptType
<1>2. Booked(w0) = {} /\ Cardinality(Booked(w0)) = 0
  BY FS_EmptySet DEF Booked
<1>3. CommandTypeOK
  BY <1>1, IdleJob, CommandBounds DEF CommandInit, CommandTypeOK, Auth
<1>4. CacheHeld
  BY IdleJob, CommandBounds DEF CommandInit, CacheHeld, HoldPc, WaitPc
<1>5. ASSUME NEW r \in Operations
      PROVE  Counted(job[r], effect[r]) /\ Honest(job[r], effect[r], receipt[r], saved[r])
             /\ Timed(r, job[r], now)
  <2>1. job[r] = Idle /\ effect[r] = 0 /\ receipt[r] = w0 /\ saved[r] = w0 /\ now = 0
    BY DEF CommandInit
  <2>2. Counted(job[r], effect[r])
    BY <2>1, IdleJob DEF Counted, Job, Idle
  <2>3. Honest(job[r], effect[r], receipt[r], saved[r])
    BY <2>1, <1>2, IdleJob DEF Honest
  <2>4. Timed(r, job[r], now)
    BY <2>1, IdleJob, CommandBounds DEF Timed, HandPc, HoldPc, WaitPc
  <2> QED
    BY <2>2, <2>3, <2>4
<1> QED
  BY <1>3, <1>4, <1>5 DEF CommandInv

\* A step of operation r that gives it the job j.
LEMMA OperationStep ==
  ASSUME CommandInv, NEW r \in Operations, NEW j \in Job,
         job' = [job EXCEPT ![r] = j], now' = now,
         used' \in [Operations -> 0 .. RequestLimit],
         effect' \in [Operations -> Nat],
         receipt' \in [Operations -> ReceiptType], saved' \in [Operations -> ReceiptType],
         \A s \in Operations : s # r => /\ effect'[s] = effect[s]
                                        /\ receipt'[s] = receipt[s] /\ saved'[s] = saved[s],
         cache' \in Auth, token' \in [newest : Nat, oldest : Nat],
         holder' = holder \/ (holder' = Free /\ holder = r) \/ (holder' = r /\ holder = Free),
         j.pc \in HoldPc <=> holder' = r,
         Counted(j, effect'[r]), Honest(j, effect'[r], receipt'[r], saved'[r]), Timed(r, j, now)
  PROVE  CommandInv'
<1>1. job \in [Operations -> Job] /\ holder \in Operations \cup {Free}
  BY DEF CommandInv, CommandTypeOK
<1>2. job'[r] = j /\ \A s \in Operations : s # r => job'[s] = job[s]
  BY <1>1
<1>3. CommandTypeOK'
  BY <1>1 DEF CommandInv, CommandTypeOK
<1>4. CacheHeld'
  BY <1>1, <1>2, CommandBounds DEF CommandInv, CacheHeld
<1>5. ASSUME NEW s \in Operations
      PROVE  Counted(job'[s], effect'[s]) /\ Honest(job'[s], effect'[s], receipt'[s], saved'[s])
             /\ Timed(s, job'[s], now')
  <2>1. CASE s = r
    BY <2>1, <1>2
  <2>2. CASE s # r
    BY <2>2, <1>2 DEF CommandInv
  <2> QED
    BY <2>1, <2>2
<1> QED
  BY <1>3, <1>4, <1>5 DEF CommandInv

\* A step that leaves effects and receipts alone and does not come near the child.
LEMMA QuietStep ==
  ASSUME CommandInv, NEW r \in Operations, NEW j \in Job,
         job' = [job EXCEPT ![r] = j], now' = now,
         used' \in [Operations -> 0 .. RequestLimit],
         UNCHANGED <<effect, receipt, saved>>,
         cache' \in Auth, token' \in [newest : Nat, oldest : Nat],
         holder' = holder \/ (holder' = Free /\ holder = r) \/ (holder' = r /\ holder = Free),
         j.pc \in HoldPc <=> holder' = r,
         job[r].pc # "idle", j.pc \notin {"spawn", "running"},
         j.ask = job[r].ask, ~j.done, j.pc # "idle" => ~job[r].done,
         Timed(r, j, now)
  PROVE  CommandInv'
<1>1. job[r] \in Job
  BY DEF CommandInv, CommandTypeOK
<1>2. Counted(j, effect'[r])
  BY <1>1 DEF CommandInv, Counted, Job
<1>3. Honest(j, effect'[r], receipt'[r], saved'[r])
  BY <1>1 DEF CommandInv, Honest, Job
<1>4. effect' \in [Operations -> Nat] /\ receipt' \in [Operations -> ReceiptType]
      /\ saved' \in [Operations -> ReceiptType]
  BY DEF CommandInv, CommandTypeOK
<1> QED
  BY <1>2, <1>3, <1>4, OperationStep

\* The caller's error, before anything was recorded for the request or after its end.
LEMMA RefuseStep ==
  ASSUME CommandInv, NEW r \in Operations, Refuse(r), now' = now,
         used' \in [Operations -> 0 .. RequestLimit],
         UNCHANGED <<effect, receipt, saved>>,
         cache' \in Auth, token' \in [newest : Nat, oldest : Nat], job[r].pc # "idle"
  PROVE  CommandInv'
<1> DEFINE j == [Idle EXCEPT !.ask = job[r].ask, !.failed = TRUE]
<1>1. job[r] \in Job /\ job \in [Operations -> Job] /\ holder \in Operations \cup {Free}
  BY DEF CommandInv, CommandTypeOK
<1>2. j \in Job /\ j.pc = "idle" /\ ~j.done /\ j.timeout = 0 /\ j.ask = job[r].ask
  BY <1>1, IdleJob DEF Job, Idle
<1>3. job' = [job EXCEPT ![r] = j]
  BY <1>1 DEF Refuse
<1>4. Timed(r, j, now)
  BY <1>2, CommandBounds DEF Timed, HandPc, HoldPc, WaitPc
<1>5. j.pc \notin HoldPc /\ holder' # r
  BY <1>1, <1>2, CommandBounds DEF HoldPc, WaitPc, Refuse
<1>6. holder' = holder \/ (holder' = Free /\ holder = r)
  BY DEF Refuse
<1> QED
  BY <1>2, <1>3, <1>4, <1>5, <1>6, QuietStep

\* What the invariant says of operation r, in the form the steps use it.
LEMMA OperationFacts ==
  ASSUME CommandInv, NEW r \in Operations
  PROVE  /\ job \in [Operations -> Job] /\ job[r] \in Job
         /\ job[r].pc \in Pc /\ job[r].ask \in Nat /\ job[r].timeout \in Nat /\ job[r].until \in Nat
         /\ job[r].attempt \in Nat /\ job[r].done \in BOOLEAN /\ job[r].auth \in Auth
         /\ now \in Nat /\ used \in [Operations -> 0 .. RequestLimit] /\ used[r] \in 0 .. RequestLimit
         /\ effect[r] \in Nat /\ receipt[r] \in ReceiptType /\ saved[r] \in ReceiptType
         /\ cache \in Auth /\ token \in [newest : Nat, oldest : Nat]
         /\ holder \in Operations \cup {Free} /\ (job[r].pc \in HoldPc <=> holder = r)
         /\ Counted(job[r], effect[r]) /\ Honest(job[r], effect[r], receipt[r], saved[r])
         /\ Timed(r, job[r], now)
         /\ (job[r].pc # "running" => ~job[r].done)
         /\ Deadlines[r] \in Nat
BY CommandBounds DEF CommandInv, CommandTypeOK, CacheHeld, Job, Honest

LEMMA AskInv == ASSUME CommandInv, NEW r \in Operations, Ask(r) PROVE CommandInv'
<1>0. PICK q \in Asks[r] :
        job' = [job EXCEPT ![r] = [Idle EXCEPT !.pc = "fence", !.q = q, !.ask = job[r].ask + 1]]
  BY DEF Ask
<1> DEFINE j == [Idle EXCEPT !.pc = "fence", !.q = q, !.ask = job[r].ask + 1]
<1>1. job[r].pc = "idle" /\ job[r].ask \in Nat /\ effect[r] \in Nat
  BY OperationFacts DEF Ask, On
<1>2. j \in Job /\ j.pc = "fence" /\ ~j.done /\ j.timeout = 0 /\ j.ask = job[r].ask + 1 /\ j.q = q
  <2>1. q \in Request /\ job[r].ask + 1 \in Nat
    BY <1>1 DEF Request
  <2> QED
    BY <2>1, AskedJob
<1>3. Counted(j, effect[r])
  BY <1>1, <1>2, OperationFacts DEF Counted
<1>4. receipt[r].state = "unfinished"
  BY DEF Ask
<1>5. Honest(j, effect[r], receipt[r], saved[r])
  BY <1>2, <1>4, OperationFacts DEF Honest
<1>6. Timed(r, j, now)
  BY <1>2, CommandBounds DEF Timed, HandPc, HoldPc, WaitPc
<1>7. j.pc \notin HoldPc /\ holder # r
  BY <1>1, <1>2, OperationFacts DEF HoldPc, WaitPc
<1>8. UNCHANGED <<now, used, effect, receipt, saved, cache, token, holder>>
  BY DEF Ask
<1>9. CommandTypeOK
  BY DEF CommandInv
<1> QED
  BY <1>0, <1>2, <1>3, <1>5, <1>6, <1>7, <1>8, <1>9, OperationStep DEF CommandTypeOK

LEMMA FenceInv == ASSUME CommandInv, NEW r \in Operations, Fence(r) PROVE CommandInv'
<1>1. job[r].pc = "fence" /\ UNCHANGED <<now, used, effect, receipt, saved, cache, token>>
  BY DEF Fence, On, runnerRest
<1>2. CASE Refuse(r)
  BY <1>1, <1>2, RefuseStep, OperationFacts
<1>3. CASE Step(r, "admit") /\ UNCHANGED holder
  <2> DEFINE j == [job[r] EXCEPT !.pc = "admit"]
  <2>1. j \in Job /\ j.pc = "admit" /\ ~j.done /\ j.ask = job[r].ask /\ j.timeout = job[r].timeout
    BY <1>1, OperationFacts DEF Job, Pc
  <2>2. job' = [job EXCEPT ![r] = j]
    BY <1>3, OperationFacts DEF Step
  <2>3. Timed(r, j, now)
    BY <2>1, OperationFacts DEF Timed, HandPc, HoldPc, WaitPc
  <2>4. j.pc \notin HoldPc /\ holder # r
    BY <1>1, <2>1, OperationFacts DEF HoldPc, WaitPc
  <2> QED
    BY <1>1, <1>3, <2>1, <2>2, <2>3, <2>4, QuietStep, OperationFacts
<1> QED
  BY <1>2, <1>3 DEF Fence

\* The time that is left, and the timeout computed from it.
LEMMA TimeLeft ==
  ASSUME CommandInv, NEW r \in Operations, ~Exhausted(r)
  PROVE  /\ now <= Deadlines[r] /\ Timeout(r) \in Nat /\ Timeout(r) <= CommandTimeout
         /\ now + Timeout(r) <= Deadlines[r]
<1>1. now \in Nat /\ Deadlines[r] \in Nat
  BY OperationFacts
<1>2. MinimumBudget \in Nat /\ MinimumBudget >= 1 /\ CommandTimeout \in Nat
  BY CommandBounds
<1>3. Left(r) = Deadlines[r] - now /\ Deadlines[r] > now
  BY <1>1, <1>2 DEF Exhausted, Left
<1> QED
  BY <1>1, <1>2, <1>3 DEF Timeout, Least

LEMMA Reserved ==
  ASSUME CommandInv, NEW r \in Operations, Reserve(r)
  PROVE  used' \in [Operations -> 0 .. RequestLimit]
<1>1. used[r] \in 0 .. RequestLimit /\ RequestLimit \in Nat
  BY OperationFacts, CommandBounds
<1>2. Least(used[r] + 1, RequestLimit) \in 0 .. RequestLimit
  BY <1>1 DEF Least
<1> QED
  BY <1>2, OperationFacts DEF Reserve

LEMMA AdmitInv == ASSUME CommandInv, NEW r \in Operations, Admit(r) PROVE CommandInv'
<1>1. job[r].pc = "admit" /\ UNCHANGED <<now, effect, receipt, saved, cache, token>>
  BY DEF Admit, On, runnerRest
<1>2. used' \in [Operations -> 0 .. RequestLimit]
  BY Reserved, OperationFacts DEF Admit
<1>3. CASE Refuse(r)
  BY <1>1, <1>2, <1>3, RefuseStep, OperationFacts
<1>4. CASE ~Exhausted(r) /\ job' = [job EXCEPT ![r].pc = "auth", ![r].timeout = Timeout(r)] /\ UNCHANGED holder
  <2> DEFINE j == [job[r] EXCEPT !.pc = "auth", !.timeout = Timeout(r)]
  <2>1. Timeout(r) \in Nat /\ Timeout(r) <= CommandTimeout /\ now <= Deadlines[r]
    BY <1>4, TimeLeft
  <2>2. j \in Job /\ j.pc = "auth" /\ ~j.done /\ j.ask = job[r].ask /\ j.timeout = Timeout(r)
    BY <1>1, <2>1, OperationFacts DEF Job, Pc, HandPc
  <2>3. job' = [job EXCEPT ![r] = j]
    BY <1>4, OperationFacts
  <2>4. Timed(r, j, now)
    BY <2>1, <2>2, OperationFacts DEF Timed, HandPc, HoldPc, WaitPc
  <2>5. j.pc \notin HoldPc /\ holder # r
    BY <1>1, <2>2, OperationFacts DEF HoldPc, WaitPc
  <2> QED
    BY <1>1, <1>2, <1>4, <2>2, <2>3, <2>4, <2>5, QuietStep, OperationFacts
<1> QED
  BY <1>3, <1>4 DEF Admit

\* Going on to record the request, with an authentication in hand.
LEMMA WithStep ==
  ASSUME CommandInv, NEW r \in Operations, NEW c \in Auth, With(r, c), job[r].pc \in HandPc,
         now' = now, used' \in [Operations -> 0 .. RequestLimit],
         UNCHANGED <<effect, receipt, saved, token>>, cache' \in Auth,
         job[r].pc \in HoldPc => holder' = Free, job[r].pc \notin HoldPc => holder' = holder
  PROVE  CommandInv'
<1> DEFINE j == [job[r] EXCEPT !.pc = "record", !.auth = c]
<1>1. job[r].pc \notin {"idle", "running"} /\ ~job[r].done
  BY OperationFacts DEF HandPc, HoldPc, WaitPc
<1>2. j \in Job /\ j.pc = "record" /\ ~j.done /\ j.ask = job[r].ask /\ j.timeout = job[r].timeout
  BY ZenonT(40), <1>1, OperationFacts DEF Job, Pc, HandPc
<1>3. job' = [job EXCEPT ![r] = j]
  BY OperationFacts DEF With
<1>4. Timed(r, j, now)
  BY <1>2, OperationFacts DEF Timed, HandPc, HoldPc, WaitPc
<1>5. j.pc \notin HoldPc /\ holder' # r
  BY <1>2, OperationFacts, CommandBounds DEF HoldPc, WaitPc
<1> QED
  BY <1>1, <1>2, <1>3, <1>4, <1>5, QuietStep, OperationFacts

LEMMA AuthenticateInv == ASSUME CommandInv, NEW r \in Operations, Authenticate(r) PROVE CommandInv'
<1>1. job[r].pc = "auth" /\ UNCHANGED <<now, used, effect, receipt, saved, cache, token>>
  BY DEF Authenticate, On, runnerRest
<1>2. job[r].pc \in HandPc /\ job[r].pc \notin HoldPc
  BY <1>1 DEF HandPc, HoldPc, WaitPc
<1>3. CASE Refuse(r)
  BY <1>1, <1>3, RefuseStep, OperationFacts
<1>4. CASE With(r, NoAuth) /\ UNCHANGED holder
  BY <1>1, <1>2, <1>4, WithStep, OperationFacts DEF NoAuth, Auth
<1>5. CASE With(r, cache) /\ UNCHANGED holder
  BY <1>1, <1>2, <1>5, WithStep, OperationFacts
<1>6. CASE /\ holder = Free /\ holder' = r
           /\ job' = [job EXCEPT ![r].pc = IF setting.mode = "app" THEN "broker" ELSE "accounts",
                                 ![r].attempt = 1]
  <2> DEFINE p == IF setting.mode = "app" THEN "broker" ELSE "accounts"
             j == [job[r] EXCEPT !.pc = p, !.attempt = 1]
  <2>1. p \in {"broker", "accounts"}
    OBVIOUS
  <2> HIDE DEF p
  <2>2. j \in Job /\ j.pc = p /\ ~j.done /\ j.ask = job[r].ask /\ j.timeout = job[r].timeout
    BY ZenonT(40), <1>1, <2>1, OperationFacts DEF Job, Pc, HandPc, HoldPc
  <2>3. job' = [job EXCEPT ![r] = j]
    BY <1>6, OperationFacts DEF p
  <2>4. Timed(r, j, now)
    BY <1>2, <2>1, <2>2, OperationFacts DEF Timed, HandPc, HoldPc, WaitPc
  <2>5. j.pc \in HoldPc
    BY <2>1, <2>2 DEF HoldPc
  <2> QED
    BY <1>1, <1>6, <2>1, <2>2, <2>3, <2>4, <2>5, QuietStep, OperationFacts
<1> QED
  BY <1>3, <1>4, <1>5, <1>6 DEF Authenticate

LEMMA TryAccountsInv == ASSUME CommandInv, NEW r \in Operations, TryAccounts(r) PROVE CommandInv'
<1>1. job[r].pc = "accounts" /\ UNCHANGED <<now, effect, receipt, saved, token>>
  BY DEF TryAccounts, On, runnerRest
<1>2. job[r].pc \in HandPc /\ job[r].pc \in HoldPc
  BY <1>1 DEF HandPc, HoldPc
<1>3. ASSUME NEW c \in Auth, Select(r, c), used' \in [Operations -> 0 .. RequestLimit]
      PROVE  CommandInv'
  BY <1>1, <1>2, <1>3, WithStep, OperationFacts DEF Select
<1>4. CASE Select(r, [kind |-> "ambient", gen |-> 0, expires |-> 0]) /\ UNCHANGED used
  BY <1>3, <1>4, OperationFacts DEF Auth
<1>5. ASSUME NEW cost \in 2 .. 2 * Accounts + 1, NEW found \in BOOLEAN,
             used' = [used EXCEPT ![r] = Least(@ + cost, RequestLimit)],
             Select(r, [kind |-> IF found THEN "account" ELSE "default", gen |-> 0, expires |-> 0])
      PROVE  CommandInv'
  <2>1. Least(used[r] + cost, RequestLimit) \in 0 .. RequestLimit
    <3>1. cost \in Nat /\ RequestLimit \in Nat /\ used[r] \in 0 .. RequestLimit
      BY CommandBounds, OperationFacts
    <3> QED
      BY <3>1 DEF Least
  <2>2. used' \in [Operations -> 0 .. RequestLimit]
    BY <1>5, <2>1, OperationFacts
  <2>3. [kind |-> IF found THEN "account" ELSE "default", gen |-> 0, expires |-> 0] \in Auth
    BY DEF Auth
  <2> QED
    BY <1>3, <1>5, <2>2, <2>3
<1> QED
  BY <1>4, <1>5 DEF TryAccounts

\* A failed child of the authentication: it is tried again later, or the request is refused.
LEMMA FailStep ==
  ASSUME CommandInv, NEW r \in Operations, NEW f, NEW again \in {"mintAgain", "probeAgain"},
         Fail(r, f, again), job[r].pc \in {"minting", "probing"},
         UNCHANGED <<now, used, effect, receipt, saved, cache, token>>
  PROVE  CommandInv'
<1>1. job[r].pc # "idle" /\ job[r].pc \in HandPc /\ job[r].pc \in HoldPc
  BY DEF HandPc, HoldPc, WaitPc
<1>2. CASE Refuse(r)
  BY <1>1, <1>2, RefuseStep, OperationFacts
<1>3. CASE /\ MayRetry(r, f) /\ UNCHANGED holder
           /\ job' = [job EXCEPT ![r].pc = again, ![r].until = now + Backoff, ![r].attempt = @ + 1]
  <2> DEFINE j == [job[r] EXCEPT !.pc = again, !.until = now + Backoff, !.attempt = @ + 1]
  <2>0. now + Backoff \in Nat /\ job[r].attempt + 1 \in Nat
    BY CommandBounds, OperationFacts
  <2>1. j \in Job /\ j.pc = again /\ ~j.done /\ j.ask = job[r].ask /\ j.timeout = job[r].timeout
        /\ j.until = now + Backoff
    BY ZenonT(40), <2>0, OperationFacts DEF Job, Pc, HandPc, HoldPc, WaitPc
  <2>2. job' = [job EXCEPT ![r] = j]
    BY <1>3, OperationFacts
  <2>3. now + Backoff <= Deadlines[r]
    <3>1. MinimumBudget \in Nat /\ Backoff \in Nat /\ MinimumBudget >= 1
      BY CommandBounds
    <3> QED
      BY <1>3, <3>1, OperationFacts DEF MayRetry, Left
  <2>4. Timed(r, j, now)
    BY <1>1, <2>1, <2>3, OperationFacts DEF Timed, HandPc, HoldPc, WaitPc
  <2>5. j.pc \in HoldPc /\ holder' = r
    BY <1>1, <1>3, <2>1, OperationFacts DEF HoldPc, WaitPc
  <2>6. j.pc \notin {"idle", "spawn", "running"} /\ ~job[r].done
    BY <2>1, OperationFacts
  <2> QED
    BY <1>1, <1>3, <2>1, <2>2, <2>4, <2>5, <2>6, QuietStep, OperationFacts
<1> QED
  BY <1>2, <1>3 DEF Fail

LEMMA ProbeInv == ASSUME CommandInv, NEW r \in Operations, Probe(r) PROVE CommandInv'
<1>1. job[r].pc \in {"broker", "access"} /\ UNCHANGED <<now, effect, receipt, saved, cache, token>>
  BY DEF Probe, runnerRest
<1>2. used' \in [Operations -> 0 .. RequestLimit]
  BY Reserved, OperationFacts DEF Probe
<1>3. job[r].pc # "idle" /\ job[r].pc \in HandPc /\ job[r].pc \in HoldPc
  BY <1>1 DEF HandPc, HoldPc
<1>4. CASE Fail(r, IF Exhausted(r) THEN "deadline" ELSE "budget", "none")
  <2>1. Refuse(r)
    BY <1>4 DEF Fail, MayRetry
  <2> QED
    BY <1>1, <1>2, <1>3, <2>1, RefuseStep, OperationFacts
<1>5. ASSUME NEW p \in {"probing", "minting"}, ~Exhausted(r), UNCHANGED holder,
             job' = [job EXCEPT ![r].pc = p, ![r].until = now + Timeout(r)]
      PROVE  CommandInv'
  <2> DEFINE j == [job[r] EXCEPT !.pc = p, !.until = now + Timeout(r)]
  <2>0. now + Timeout(r) \in Nat /\ now + Timeout(r) <= Deadlines[r]
    BY <1>5, TimeLeft, OperationFacts
  <2>1. j \in Job /\ j.pc = p /\ ~j.done /\ j.ask = job[r].ask /\ j.timeout = job[r].timeout
        /\ j.until = now + Timeout(r)
    BY ZenonT(40), <1>1, <2>0, OperationFacts DEF Job, Pc, HandPc, HoldPc, WaitPc
  <2>2. job' = [job EXCEPT ![r] = j]
    BY <1>5, OperationFacts
  <2>3. Timed(r, j, now)
    BY <1>3, <2>0, <2>1, OperationFacts DEF Timed, HandPc, HoldPc, WaitPc
  <2>4. j.pc \in HoldPc /\ holder' = r
    BY <1>3, <1>5, <2>1, OperationFacts DEF HoldPc, WaitPc
  <2>5. j.pc \notin {"idle", "spawn", "running"} /\ ~job[r].done
    BY <1>1, <2>1, OperationFacts
  <2> QED
    BY <1>1, <1>2, <1>3, <1>5, <2>1, <2>2, <2>3, <2>4, <2>5, QuietStep, OperationFacts
<1> QED
  BY <1>4, <1>5 DEF Probe

LEMMA MintInv == ASSUME CommandInv, NEW r \in Operations, Mint(r) PROVE CommandInv'
<1>1. job[r].pc = "minting" /\ UNCHANGED <<now, used, effect, receipt, saved, cache>>
  BY DEF Mint, On
<1>2. ASSUME NEW f, Fail(r, f, "mintAgain"), UNCHANGED token PROVE CommandInv'
  BY <1>1, <1>2, FailStep
<1>3. CASE /\ token' = [token EXCEPT !.newest = @ + 1] /\ UNCHANGED holder
           /\ job' = [job EXCEPT ![r].pc = "access", ![r].attempt = 1,
                   ![r].auth = [kind |-> "app", gen |-> token.newest + 1, expires |-> now + TokenLife]]
  <2> DEFINE c == [kind |-> "app", gen |-> token.newest + 1, expires |-> now + TokenLife]
             j == [job[r] EXCEPT !.pc = "access", !.attempt = 1, !.auth = c]
  <2>1. token.newest + 1 \in Nat /\ now + TokenLife \in Nat /\ token' \in [newest : Nat, oldest : Nat]
    BY <1>3, OperationFacts, CommandBounds
  <2>2. c \in Auth
    BY <2>1 DEF Auth
  <2> HIDE DEF c
  <2>3. j \in Job /\ j.pc = "access" /\ ~j.done /\ j.ask = job[r].ask /\ j.timeout = job[r].timeout
    BY ZenonT(40), <1>1, <2>2, OperationFacts DEF Job, Pc, HandPc, HoldPc
  <2>4. job' = [job EXCEPT ![r] = j]
    BY <1>3, OperationFacts DEF c
  <2>5. Timed(r, j, now)
    BY <1>1, <2>3, OperationFacts DEF Timed, HandPc, HoldPc, WaitPc
  <2>6. j.pc \in HoldPc /\ holder' = r
    BY <1>1, <1>3, <2>3, OperationFacts DEF HoldPc, WaitPc
  <2> QED
    BY <1>1, <1>3, <2>1, <2>3, <2>4, <2>5, <2>6, QuietStep, OperationFacts
<1> QED
  BY <1>2, <1>3 DEF Mint

LEMMA AccessInv == ASSUME CommandInv, NEW r \in Operations, Access(r) PROVE CommandInv'
<1>1. job[r].pc = "probing" /\ UNCHANGED <<now, used, effect, receipt, saved, token>>
  BY DEF Access, On, runnerRest
<1>2. ASSUME NEW f, Fail(r, f, "probeAgain"), UNCHANGED cache PROVE CommandInv'
  BY <1>1, <1>2, FailStep
<1>3. CASE Select(r, job[r].auth)
  <2>1. job[r].pc \in HandPc /\ job[r].pc \in HoldPc
    BY <1>1 DEF HandPc, HoldPc, WaitPc
  <2> QED
    BY <1>1, <1>3, <2>1, WithStep, OperationFacts DEF Select
<1> QED
  BY <1>2, <1>3 DEF Access

LEMMA WakeInv == ASSUME CommandInv, NEW r \in Operations, Wake(r) PROVE CommandInv'
<1> DEFINE p == IF job[r].pc = "mintAgain" THEN "broker" ELSE "access"
           j == [job[r] EXCEPT !.pc = p]
<1>1. /\ job[r].pc \in {"mintAgain", "probeAgain"} /\ Step(r, p)
      /\ UNCHANGED <<now, used, effect, receipt, saved, cache, token, holder>>
  BY DEF Wake, runnerRest
<1>2. p \in {"broker", "access"}
  OBVIOUS
<1> HIDE DEF p
<1>3. j \in Job /\ j.pc = p /\ ~j.done /\ j.ask = job[r].ask /\ j.timeout = job[r].timeout
  BY <1>1, <1>2, OperationFacts DEF Job, Pc, HandPc, HoldPc
<1>4. job' = [job EXCEPT ![r] = j]
  BY <1>1, OperationFacts DEF Step
<1>5. Timed(r, j, now)
  BY <1>1, <1>2, <1>3, OperationFacts DEF Timed, HandPc, HoldPc, WaitPc
<1>6. j.pc \in HoldPc /\ holder' = r
  BY <1>1, <1>2, <1>3, OperationFacts DEF HoldPc, WaitPc
<1>7. j.pc \notin {"idle", "spawn", "running"} /\ ~job[r].done
  BY <1>1, <1>2, <1>3, OperationFacts
<1> QED
  BY <1>1, <1>3, <1>4, <1>5, <1>6, <1>7, QuietStep, OperationFacts

\* While a request is in hand, both copies of the receipt are unfinished.
LEMMA InHand ==
  ASSUME CommandInv, NEW r \in Operations, job[r].pc # "idle"
  PROVE  receipt[r].state = "unfinished" /\ saved[r].state = "unfinished"
BY OperationFacts DEF Honest

LEMMA RecordAttemptInv == ASSUME CommandInv, NEW r \in Operations, RecordAttempt(r) PROVE CommandInv'
<1>1. job[r].pc = "record" /\ UNCHANGED <<now, used, effect, cache, token>>
  BY DEF RecordAttempt, On, runnerRest
<1>2. CASE Refuse(r) /\ UNCHANGED <<receipt, saved>>
  BY <1>1, <1>2, RefuseStep, OperationFacts
<1>3. CASE /\ IF Recorded(job[r].q)
                THEN /\ receipt' = [receipt EXCEPT ![r] = Attempted(@)]
                     /\ saved' = [saved EXCEPT ![r] = receipt'[r]]
                ELSE UNCHANGED <<receipt, saved>>
           /\ Step(r, "spawn") /\ UNCHANGED holder
  <2> DEFINE j == [job[r] EXCEPT !.pc = "spawn"]
             w == receipt[r]
  <2>0. receipt \in [Operations -> ReceiptType] /\ saved \in [Operations -> ReceiptType]
        /\ effect \in [Operations -> Nat]
    BY DEF CommandInv, CommandTypeOK
  <2>1. j \in Job /\ j.pc = "spawn" /\ ~j.done /\ j.ask = job[r].ask /\ j.timeout = job[r].timeout
        /\ j.q = job[r].q
    BY <1>1, OperationFacts DEF Job, Pc, HandPc
  <2>2. job' = [job EXCEPT ![r] = j]
    BY <1>3, OperationFacts DEF Step
  <2>3. Timed(r, j, now)
    BY <1>1, <2>1, OperationFacts DEF Timed, HandPc, HoldPc, WaitPc
  <2>4. Counted(j, effect[r])
    BY <1>1, <2>1, OperationFacts DEF Counted
  <2>5. j.pc \notin HoldPc /\ holder # r
    BY <1>1, <2>1, OperationFacts DEF HoldPc, WaitPc
  <2>6. w.state = "unfinished" /\ saved[r].state = "unfinished"
    BY <1>1, InHand
  <2>7. CASE Recorded(job[r].q)
    <3>1. Attempted(w) \in ReceiptType /\ Attempted(w).state = "unfinished"
          /\ Len(Attempted(w).writes) \in Booked(Attempted(w))
          /\ Cardinality(Booked(Attempted(w))) = Cardinality(Booked(w)) + 1
          /\ Cardinality(Booked(w)) \in Nat
      BY <2>6, AttemptedBooks, BookedFinite, OperationFacts
    <3>2. receipt'[r] = Attempted(w) /\ saved'[r] = Attempted(w)
          /\ receipt' \in [Operations -> ReceiptType] /\ saved' \in [Operations -> ReceiptType]
          /\ \A s \in Operations : s # r => receipt'[s] = receipt[s] /\ saved'[s] = saved[s]
      BY <1>3, <2>0, <2>7, <3>1
    <3>3. effect[r] \in Nat /\ effect[r] <= Cardinality(Booked(w))
      BY OperationFacts DEF Honest
    <3>4. Honest(j, effect[r], receipt'[r], saved'[r])
      BY <2>1, <3>1, <3>2, <3>3 DEF Honest
    <3> QED
      BY <1>1, <1>3, <2>0, <2>1, <2>2, <2>3, <2>4, <2>5, <3>2, <3>4, OperationStep, OperationFacts
  <2>8. CASE ~Recorded(job[r].q)
    <3>1. UNCHANGED <<receipt, saved>>
      BY <1>3, <2>8
    <3>2. Honest(j, effect[r], receipt[r], saved[r])
      BY <2>1, <2>6, <2>8, OperationFacts DEF Honest
    <3> QED
      BY <1>1, <1>3, <2>0, <2>1, <2>2, <2>3, <2>4, <2>5, <3>1, <3>2, OperationStep, OperationFacts
  <2> QED
    BY <2>7, <2>8
<1> QED
  BY <1>2, <1>3 DEF RecordAttempt

\* The end of an attempt is in both copies, and they still provide for every effect.
LEMMA FinishedStep ==
  ASSUME CommandInv, NEW r \in Operations, job[r].pc \in {"spawn", "running"}, NEW state \in WriteState,
         Finished(r, state), state = "not_started" => ~job[r].done
  PROVE  /\ receipt' \in [Operations -> ReceiptType] /\ saved' \in [Operations -> ReceiptType]
         /\ \A s \in Operations : s # r => receipt'[s] = receipt[s] /\ saved'[s] = saved[s]
         /\ receipt'[r].state = "unfinished" /\ saved'[r].state = "unfinished"
         /\ DOMAIN receipt'[r].writes = DOMAIN saved'[r].writes
         /\ Booked(receipt'[r]) = Booked(saved'[r])
         /\ effect[r] <= Cardinality(Booked(receipt'[r]))
<1> DEFINE w == receipt[r]
<1>0. receipt \in [Operations -> ReceiptType] /\ saved \in [Operations -> ReceiptType]
  BY DEF CommandInv, CommandTypeOK
<1>1. w.state = "unfinished" /\ saved[r].state = "unfinished" /\ effect[r] \in Nat
      /\ Cardinality(Booked(w)) \in Nat /\ effect[r] <= Cardinality(Booked(w))
  BY InHand, OperationFacts, BookedFinite DEF Honest
<1>2. CASE Recorded(job[r].q)
  <2>1. Len(w.writes) \in Booked(w) /\ (~job[r].done => effect[r] < Cardinality(Booked(w)))
    BY <1>2, OperationFacts DEF Honest
  <2>2. /\ LastWrite(w, state) \in ReceiptType /\ LastWrite(w, state).state = "unfinished"
        /\ state # "not_started" => Booked(LastWrite(w, state)) = Booked(w)
        /\ state = "not_started" =>
             Cardinality(Booked(LastWrite(w, state))) = Cardinality(Booked(w)) - 1
    BY <1>1, <2>1, LastWriteBooks, OperationFacts
  <2>3. receipt' = [receipt EXCEPT ![r] = LastWrite(w, state)] /\ saved' = [saved EXCEPT ![r] = receipt'[r]]
    BY <1>2 DEF Finished
  <2>4. receipt'[r] = LastWrite(w, state) /\ saved'[r] = LastWrite(w, state)
        /\ receipt' \in [Operations -> ReceiptType] /\ saved' \in [Operations -> ReceiptType]
        /\ \A s \in Operations : s # r => receipt'[s] = receipt[s] /\ saved'[s] = saved[s]
    BY <1>0, <2>2, <2>3
  <2>5. effect[r] <= Cardinality(Booked(LastWrite(w, state)))
    BY <1>1, <2>1, <2>2
  <2> QED
    BY <2>2, <2>4, <2>5
<1>3. CASE ~Recorded(job[r].q)
  BY <1>0, <1>1, <1>3, OperationFacts DEF Finished, Honest
<1> QED
  BY <1>2, <1>3

\* The caller has the answer, or the error, of a request whose attempt is closed.
LEMMA CloseStep ==
  ASSUME CommandInv, NEW r \in Operations, job[r].pc \in {"spawn", "running"}, NEW failed \in BOOLEAN,
         job' = [job EXCEPT ![r] = [Idle EXCEPT !.ask = job[r].ask, !.failed = failed]],
         UNCHANGED <<now, used, effect, token>>, cache' \in Auth, holder' = holder,
         receipt' \in [Operations -> ReceiptType], saved' \in [Operations -> ReceiptType],
         \A s \in Operations : s # r => receipt'[s] = receipt[s] /\ saved'[s] = saved[s],
         receipt'[r].state = "unfinished", saved'[r].state = "unfinished",
         DOMAIN receipt'[r].writes = DOMAIN saved'[r].writes,
         Booked(receipt'[r]) = Booked(saved'[r]),
         effect[r] <= Cardinality(Booked(receipt'[r]))
  PROVE  CommandInv'
<1> DEFINE j == [Idle EXCEPT !.ask = job[r].ask, !.failed = failed]
<1>1. j \in Job /\ j.pc = "idle" /\ ~j.done /\ j.timeout = 0 /\ j.ask = job[r].ask
  BY IdleJob, OperationFacts DEF Job, Idle
<1>2. Timed(r, j, now)
  BY <1>1, CommandBounds DEF Timed, HandPc, HoldPc, WaitPc
<1>3. Counted(j, effect[r])
  BY <1>1, OperationFacts DEF Counted
<1>4. Honest(j, effect[r], receipt'[r], saved'[r])
  BY <1>1 DEF Honest
<1>5. j.pc \notin HoldPc /\ holder # r
  BY <1>1, OperationFacts DEF HoldPc, WaitPc
<1>6. effect \in [Operations -> Nat]
  BY DEF CommandInv, CommandTypeOK
<1> QED
  BY <1>1, <1>2, <1>3, <1>4, <1>5, <1>6, OperationStep, OperationFacts

LEMMA SpawnInv == ASSUME CommandInv, NEW r \in Operations, Spawn(r) PROVE CommandInv'
<1>1. job[r].pc = "spawn" /\ UNCHANGED <<now, used, effect, cache, token>>
  BY DEF Spawn, On, runnerRest
<1>2. CASE Finished(r, "not_started") /\ Refuse(r)
  <2>1. holder' = holder
    BY <1>1, <1>2, OperationFacts DEF Refuse, HoldPc, WaitPc
  <2>2. job' = [job EXCEPT ![r] = [Idle EXCEPT !.ask = job[r].ask, !.failed = TRUE]]
    BY <1>2 DEF Refuse
  <2>3. "not_started" \in WriteState /\ ~job[r].done /\ TRUE \in BOOLEAN
    BY <1>1, OperationFacts DEF WriteState
  <2> QED
    BY <1>1, <1>2, <2>1, <2>2, <2>3, FinishedStep, CloseStep, OperationFacts
<1>3. CASE /\ job' = [job EXCEPT ![r].pc = "running", ![r].until = now + job[r].timeout]
           /\ UNCHANGED <<receipt, saved, holder>>
  <2> DEFINE j == [job[r] EXCEPT !.pc = "running", !.until = now + job[r].timeout]
  <2>0. effect \in [Operations -> Nat] /\ receipt \in [Operations -> ReceiptType]
        /\ saved \in [Operations -> ReceiptType] /\ now + job[r].timeout \in Nat
    BY OperationFacts DEF CommandInv, CommandTypeOK
  <2>1. j \in Job /\ j.pc = "running" /\ ~j.done /\ j.ask = job[r].ask /\ j.timeout = job[r].timeout
        /\ j.q = job[r].q /\ j.until = now + job[r].timeout
    BY <1>1, <2>0, OperationFacts DEF Job, Pc
  <2>2. job' = [job EXCEPT ![r] = j]
    BY <1>3, OperationFacts
  <2>3. Timed(r, j, now)
    <3>1. PICK s \in Operations : now <= Deadlines[s]
      BY <1>1, OperationFacts DEF Timed, HandPc
    <3>2. job[r].timeout <= CommandTimeout /\ CommandTimeout \in Nat /\ Deadlines[s] \in Nat
      BY OperationFacts, CommandBounds DEF Timed
    <3>3. j.until <= Deadlines[s] + CommandTimeout
      BY <2>1, <3>1, <3>2, OperationFacts
    <3> QED
      BY <2>1, <3>2, <3>3 DEF Timed, HandPc, HoldPc, WaitPc
  <2>4. Counted(j, effect[r])
    BY <1>1, <2>1, OperationFacts DEF Counted
  <2>5. Honest(j, effect[r], receipt[r], saved[r])
    BY <1>1, <2>1, OperationFacts DEF Honest
  <2>6. j.pc \notin HoldPc /\ holder # r
    BY <1>1, <2>1, OperationFacts DEF HoldPc, WaitPc
  <2> QED
    BY <1>1, <1>3, <2>0, <2>1, <2>2, <2>3, <2>4, <2>5, <2>6, OperationStep, OperationFacts
<1> QED
  BY <1>2, <1>3 DEF Spawn

LEMMA ApplyInv == ASSUME CommandInv, NEW r \in Operations, Apply(r) PROVE CommandInv'
<1> DEFINE j == [job[r] EXCEPT !.done = TRUE]
           e == effect[r] + 1
<1>1. /\ job[r].pc = "running" /\ Recorded(job[r].q) /\ ~job[r].done
      /\ UNCHANGED <<now, used, receipt, saved, cache, holder, token>>
  BY DEF Apply
<1>2. effect \in [Operations -> Nat] /\ receipt \in [Operations -> ReceiptType]
      /\ saved \in [Operations -> ReceiptType]
  BY DEF CommandInv, CommandTypeOK
<1>3. effect' \in [Operations -> Nat] /\ effect'[r] = e
      /\ \A s \in Operations : s # r => effect'[s] = effect[s]
  BY <1>2 DEF Apply
<1>4. j \in Job /\ j.pc = "running" /\ j.done /\ j.ask = job[r].ask /\ j.timeout = job[r].timeout
      /\ j.q = job[r].q /\ j.until = job[r].until
  BY <1>1, OperationFacts DEF Job
<1>5. job' = [job EXCEPT ![r] = j]
  BY OperationFacts DEF Apply
<1>6. Timed(r, j, now)
  BY <1>1, <1>4, OperationFacts DEF Timed, HandPc, HoldPc, WaitPc
<1>7. Counted(j, e)
  BY <1>1, <1>4, OperationFacts DEF Counted
<1>8. Honest(j, e, receipt[r], saved[r])
  <2>1. receipt[r].state = "unfinished" /\ saved[r].state = "unfinished"
        /\ Cardinality(Booked(receipt[r])) \in Nat
    BY <1>1, InHand, BookedFinite, OperationFacts
  <2> QED
    BY <1>1, <1>4, <2>1, OperationFacts DEF Honest
<1>9. j.pc \notin HoldPc /\ holder # r
  BY <1>1, <1>4, OperationFacts DEF HoldPc, WaitPc
<1> QED
  BY <1>1, <1>2, <1>3, <1>4, <1>5, <1>6, <1>7, <1>8, <1>9, OperationStep, OperationFacts

LEMMA ExitInv == ASSUME CommandInv, NEW r \in Operations, Exit(r) PROVE CommandInv'
<1>1. job[r].pc = "running" /\ UNCHANGED <<now, used, effect, holder, token>>
  BY DEF Exit, On, runnerRest
<1>2. PICK ok \in BOOLEAN :
        /\ Finished(r, "returned")
        /\ IF ~ok /\ Refreshes(r) THEN Forget /\ SendAgain(r) ELSE Answer(r, ok) /\ UNCHANGED cache
  BY DEF Exit
<1>3. /\ receipt' \in [Operations -> ReceiptType] /\ saved' \in [Operations -> ReceiptType]
      /\ \A s \in Operations : s # r => receipt'[s] = receipt[s] /\ saved'[s] = saved[s]
      /\ receipt'[r].state = "unfinished" /\ saved'[r].state = "unfinished"
      /\ DOMAIN receipt'[r].writes = DOMAIN saved'[r].writes
      /\ Booked(receipt'[r]) = Booked(saved'[r])
      /\ effect[r] <= Cardinality(Booked(receipt'[r]))
  BY <1>1, <1>2, FinishedStep DEF WriteState
<1>4. CASE Answer(r, ok) /\ UNCHANGED cache
  <2>1. job' = [job EXCEPT ![r] = [Idle EXCEPT !.ask = job[r].ask, !.failed = ~ok]] /\ (~ok) \in BOOLEAN
    BY <1>4 DEF Answer
  <2> QED
    BY <1>1, <1>3, <1>4, <2>1, CloseStep, OperationFacts
<1>5. CASE Refreshes(r) /\ Forget /\ SendAgain(r)
  <2> DEFINE j == [job[r] EXCEPT !.pc = "admit", !.fresh = FALSE, !.auth = NoAuth, !.done = FALSE]
  <2>1. ~job[r].done
    BY <1>5 DEF Refreshes, Denied
  <2>2. j \in Job /\ j.pc = "admit" /\ ~j.done /\ j.ask = job[r].ask /\ j.timeout = job[r].timeout
    <3>1. NoAuth \in Auth
      BY DEF NoAuth, Auth
    <3> QED
      BY <3>1, OperationFacts DEF Job, Pc
  <2>3. job' = [job EXCEPT ![r] = j]
    BY <1>5, OperationFacts DEF SendAgain
  <2>4. cache' \in Auth
    BY <1>5, OperationFacts DEF Forget, Auth
  <2>5. Timed(r, j, now)
    BY <2>2, OperationFacts DEF Timed, HandPc, HoldPc, WaitPc
  <2>6. Counted(j, effect[r])
    BY <1>1, <2>1, <2>2, OperationFacts DEF Counted
  <2>7. Honest(j, effect[r], receipt'[r], saved'[r])
    BY <1>3, <2>2 DEF Honest
  <2>8. j.pc \notin HoldPc /\ holder # r
    BY <1>1, <2>2, OperationFacts DEF HoldPc, WaitPc
  <2>9. effect \in [Operations -> Nat]
    BY DEF CommandInv, CommandTypeOK
  <2> QED
    BY <1>1, <1>3, <2>2, <2>3, <2>4, <2>5, <2>6, <2>7, <2>8, <2>9, OperationStep, OperationFacts
<1> QED
  BY <1>2, <1>4, <1>5

LEMMA ExitUnrecordedInv == ASSUME CommandInv, NEW r \in Operations, ExitUnrecorded(r) PROVE CommandInv'
<1> DEFINE w == LastWrite(receipt[r], "returned")
<1>1. job[r].pc = "running" /\ Recorded(job[r].q) /\ UNCHANGED <<now, used, effect, saved, cache, holder, token>>
  BY DEF ExitUnrecorded, On, runnerRest
<1>2. w \in ReceiptType /\ w.state = receipt[r].state /\ DOMAIN w.writes = DOMAIN receipt[r].writes
      /\ Booked(w) = Booked(receipt[r])
  BY <1>1, LastWriteBooks, OperationFacts DEF Honest, WriteState
<1>3. receipt \in [Operations -> ReceiptType] /\ receipt' = [receipt EXCEPT ![r] = w]
      /\ saved \in [Operations -> ReceiptType]
  BY DEF ExitUnrecorded, CommandInv, CommandTypeOK
<1>4. receipt' \in [Operations -> ReceiptType] /\ receipt'[r] = w
      /\ \A s \in Operations : s # r => receipt'[s] = receipt[s]
  BY <1>2, <1>3
<1>5. job' = [job EXCEPT ![r] = [Idle EXCEPT !.ask = job[r].ask, !.failed = ~FALSE]] /\ (~FALSE) \in BOOLEAN
  BY DEF ExitUnrecorded, Answer
<1>6. receipt[r].state = "unfinished" /\ saved[r].state = "unfinished"
  BY <1>1, InHand
<1>7. DOMAIN w.writes = DOMAIN saved[r].writes /\ Booked(w) = Booked(saved[r])
      /\ effect[r] <= Cardinality(Booked(w))
  BY <1>2, OperationFacts DEF Honest
<1> QED
  BY <1>1, <1>2, <1>3, <1>4, <1>5, <1>6, <1>7, CloseStep, OperationFacts

LEMMA OpenStep ==
  ASSUME CommandInv, NEW r \in Operations, job[r].pc = "running", Answer(r, FALSE),
         UNCHANGED <<now, used, effect, receipt, saved, cache, holder, token>>
  PROVE  CommandInv'
<1>1. job' = [job EXCEPT ![r] = [Idle EXCEPT !.ask = job[r].ask, !.failed = ~FALSE]] /\ (~FALSE) \in BOOLEAN
  BY DEF Answer
<1>2. receipt[r].state = "unfinished" /\ saved[r].state = "unfinished"
  BY InHand
<1>3. receipt \in [Operations -> ReceiptType] /\ saved \in [Operations -> ReceiptType]
  BY DEF CommandInv, CommandTypeOK
<1>4. DOMAIN receipt[r].writes = DOMAIN saved[r].writes /\ Booked(receipt[r]) = Booked(saved[r])
      /\ effect[r] <= Cardinality(Booked(receipt[r]))
  BY OperationFacts DEF Honest
<1> QED
  BY <1>1, <1>2, <1>3, <1>4, CloseStep, OperationFacts

LEMMA EndInv == ASSUME CommandInv, NEW r \in Operations, End(r) PROVE CommandInv'
<1> DEFINE w == Ending(receipt[r], job[r].failed)
<1>1. job[r].pc = "idle" /\ UNCHANGED <<now, job, used, effect, cache, holder, token>>
  BY DEF End, On, runnerRest
<1>2. receipt \in [Operations -> ReceiptType] /\ saved \in [Operations -> ReceiptType]
      /\ effect \in [Operations -> Nat] /\ receipt' = [receipt EXCEPT ![r] = w]
  BY DEF End, CommandInv, CommandTypeOK
<1>3. w \in ReceiptType /\ w.writes = receipt[r].writes /\ w.state # "unfinished"
  BY OperationFacts DEF Ending, ReceiptType
<1>4. Booked(w) = Booked(receipt[r])
  BY <1>3 DEF Booked
<1>5. w.state = "failed_before_provider_write" => effect[r] = 0
  <2> SUFFICES ASSUME w.state = "failed_before_provider_write" PROVE effect[r] = 0
    OBVIOUS
  <2>1. ~MayHaveWritten(receipt[r])
    BY OperationFacts DEF Ending, ReceiptType
  <2>2. Booked(receipt[r]) = {}
    BY <2>1 DEF MayHaveWritten, Booked
  <2>3. Cardinality(Booked(receipt[r])) = 0
    BY <2>2, FS_EmptySet
  <2> QED
    BY <2>3, OperationFacts DEF Honest
<1>6. receipt' \in [Operations -> ReceiptType] /\ receipt'[r] = w
      /\ \A s \in Operations : s # r => receipt'[s] = receipt[s]
  BY <1>2, <1>3
<1>7. /\ saved' \in [Operations -> ReceiptType]
      /\ \A s \in Operations : s # r => saved'[s] = saved[s]
      /\ saved'[r] \in {w, saved[r]}
  BY <1>2, <1>3, <1>6 DEF End
<1>8. Honest(job[r], effect[r], w, saved'[r])
  BY <1>1, <1>3, <1>4, <1>5, <1>7, OperationFacts DEF Honest
<1>9. job' = [job EXCEPT ![r] = job[r]]
  BY <1>1, OperationFacts
<1> QED
  BY <1>1, <1>2, <1>6, <1>7, <1>8, <1>9, OperationStep, OperationFacts

\* Time passes while everybody waits: whoever is in hand waits itself, or for the holder of
\* the cache, and either wait ends by a deadline.
LEMMA PassInv == ASSUME CommandInv, Pass PROVE CommandInv'
<1>1. now' = now + 1 /\ \A r \in Operations : Waits(r)
  BY DEF Pass
<1>2. UNCHANGED <<job, used, effect, receipt, saved, cache, holder, token>>
  BY DEF Pass
<1>3. CommandTypeOK'
  BY <1>1, <1>2 DEF CommandInv, CommandTypeOK
<1>4. CacheHeld'
  BY <1>2 DEF CommandInv, CacheHeld
<1>5. ASSUME NEW r \in Operations PROVE Timed(r, job[r], now + 1)
  <2>1. now \in Nat /\ Deadlines[r] \in Nat /\ Timed(r, job[r], now) /\ Waits(r)
    BY <1>1, OperationFacts
  <2>2. ASSUME NEW s \in Operations, job[s].pc \in HoldPc PROVE now + 1 <= Deadlines[s]
    <3>1. job[s].pc \in WaitPc /\ now < job[s].until
      BY <1>1, <2>2 DEF Waits, HoldPc, WaitPc
    <3> QED
      BY <3>1, OperationFacts DEF Timed
  <2>3. CASE job[r].pc \in HoldPc
    BY <2>1, <2>2, <2>3 DEF Timed
  <2>4. CASE job[r].pc = "auth"
    <3>1. holder \in Operations
      BY <2>1, <2>4, OperationFacts DEF Waits
    <3>2. job[holder].pc \in HoldPc
      BY <3>1, OperationFacts
    <3> QED
      BY <2>1, <2>2, <3>1, <3>2 DEF Timed
  <2>5. CASE job[r].pc \notin HoldPc /\ job[r].pc # "auth"
    BY <2>1, <2>5 DEF Timed, Waits, HandPc, HoldPc
  <2> QED
    BY <2>3, <2>4, <2>5
<1> QED
  BY <1>1, <1>2, <1>3, <1>4, <1>5 DEF CommandInv

LEMMA CommandNextInv == CommandInv /\ [CommandNext]_commandVars => CommandInv'
<1> SUFFICES ASSUME CommandInv, [CommandNext]_commandVars PROVE CommandInv'
  OBVIOUS
<1>1. ASSUME NEW r \in Operations, CommandStep(r) PROVE CommandInv'
  <2>1. ASSUME Garbled(r) \/ Reap(r) PROVE CommandInv'
    BY <2>1, OpenStep DEF Garbled, Reap, On, runnerRest
  <2> QED
    BY <1>1, <2>1, AskInv, FenceInv, AdmitInv, AuthenticateInv, TryAccountsInv, ProbeInv, MintInv, AccessInv,
       WakeInv, RecordAttemptInv, SpawnInv, ApplyInv, ExitInv, ExitUnrecordedInv, EndInv DEF CommandStep
<1>2. ASSUME UNCHANGED <<now, job, used, effect, receipt, saved, cache, holder>>,
             token' \in [newest : Nat, oldest : Nat]
      PROVE  CommandInv'
  BY <1>2 DEF CommandInv, CommandTypeOK, CacheHeld
<1>3. token \in [newest : Nat, oldest : Nat]
  BY DEF CommandInv, CommandTypeOK
<1>4. CASE Revoke
  <2>1. token' \in [newest : Nat, oldest : Nat]
    BY <1>3, <1>4 DEF Revoke
  <2> QED
    BY <1>2, <1>4, <2>1 DEF Revoke
<1>5. CASE LoseLease \/ Kill \/ UNCHANGED commandVars
  BY <1>2, <1>3, <1>5 DEF LoseLease, Kill, commandVars
<1> QED
  BY <1>1, <1>4, <1>5, PassInv DEF CommandNext

\* The invariant holds in every state of the runner.
THEOREM CommandInvariant == CommandSpec => []CommandInv
BY CommandInitInv, CommandNextInv, PTL DEF CommandSpec

\* What the runner promises of a write, for any operations, requests and limits: whatever
\* fails, expires or is killed, the receipt on disk never understates what the provider
\* applied, a request is applied at most once, the budget is kept, no child starts after
\* every deadline, and one selection of credentials is made at a time (command.rs,
\* sync/receipt.rs).
THEOREM RunnerIsSound == CommandSpec => []RunnerSound
<1>1. CommandInv => RunnerSound
  <2> SUFFICES ASSUME CommandInv, NEW r \in Operations
               PROVE  /\ effect[r] <= Cardinality({i \in DOMAIN saved[r].writes : saved[r].writes[i] # "not_started"})
                      /\ saved[r].state = "failed_before_provider_write" => effect[r] = 0
                      /\ effect[r] <= job[r].ask
                      /\ used[r] <= RequestLimit
                      /\ job[r].pc = "running" =>
                           \E s \in Operations : job[r].until <= Deadlines[s] + CommandTimeout
                      /\ job[r].pc \in {"broker", "access", "minting", "probing", "mintAgain", "probeAgain", "accounts"}
                           => holder = r
    BY DEF RunnerSound, ReceiptHonest, RunnerBounded
  <2>1. effect[r] <= Cardinality(Booked(saved[r]))
    BY OperationFacts DEF Honest
  <2>2. saved[r].state = "failed_before_provider_write" => effect[r] = 0
    BY OperationFacts DEF Honest
  <2>3. effect[r] <= job[r].ask /\ used[r] <= RequestLimit
    BY OperationFacts, CommandBounds DEF Counted
  <2>4. job[r].pc = "running" => \E s \in Operations : job[r].until <= Deadlines[s] + CommandTimeout
    BY OperationFacts DEF Timed
  <2>5. job[r].pc \in {"broker", "access", "minting", "probing", "mintAgain", "probeAgain", "accounts"} => holder = r
    BY OperationFacts DEF HoldPc, WaitPc
  <2> QED
    BY <2>1, <2>2, <2>3, <2>4, <2>5 DEF Booked
<1> QED
  BY <1>1, CommandInvariant, PTL

-----------------------------------------------------------------------------
(* The mutation adapter.  Whoever else acts, nobody but a write of the       *)
(* adapter adds the force label or a comment, and a write that arrives late  *)
(* is marked as stray; so between the reads of an operation and its write    *)
(* what was read still holds, except for what the marks tell.                *)

CommandNames == {"verify", "write", "refetch", "permission", "comments", "ids", "run", "suite"}
SubjectShape == [state : {"open", "merged"}, head : Nat, base : Nat, labels : SUBSET {"caravan", "force", "parked", "skip"},
                 auto : {"off", "squash"}, checks : {"red", "green", "running"}, comments : Seq(Comments),
                 defined : BOOLEAN, admin : BOOLEAN]
RunShape == [head : Nat, conclusion : {"failure", "success", "running"}, attempt : Nat]
CallRecord == [kind : Kinds \cup {"none"}, left : Seq(CommandNames), expected : SubjectShape, before : SubjectShape,
               run : RunShape, fields : Seq({"auto", "label"}), result : {"none", "error", "receipt"}]
\* Only an operation on comments reads them.
CallShape == {c \in CallRecord : c.kind \notin Comments => c.left \in Seq(CommandNames \ {"comments"})}
MergeMarks == {<<>>} \cup ((Kinds \cup {"none"}) \X Nat \X Nat)
MarkShape == [disarmed : BOOLEAN, stray : BOOLEAN, merged : MergeMarks]

MutationTypes ==
  /\ subject \in SubjectShape /\ workflow \in RunShape /\ call \in CallShape /\ late \subseteq CallShape
  /\ todo \in Seq(Kinds) /\ marks \in MarkShape

\* What is left of an operation is the end of its commands.
CallAgrees ==
  /\ call.kind \in Transactions => call.left \in {<<"verify", "ids", "write", "refetch">>, <<"ids", "write", "refetch">>,
                                                  <<"write", "refetch">>, <<"refetch">>, <<>>}
  /\ call.kind \in Comments => call.left \in {<<"verify", "comments", "write", "refetch">>, <<"comments", "write", "refetch">>,
                                              <<"write", "refetch">>, <<"refetch">>, <<>>}
  /\ call.left # <<>> => call.result = "none" /\ call.kind \in Kinds

\* Until the transaction writes, the label is as it was; once it is verified, so is auto-merge.
Unwritten == Len(call.left) >= 2
ForceAgrees ==
  call.kind = "arm" /\ ~marks.stray /\ "force" \notin call.before.labels =>
    /\ Unwritten => "force" \notin subject.labels
    /\ Len(call.left) \in {2, 3} =>
         /\ call.fields = IF call.before.auto = "squash" THEN <<"label">> ELSE <<"auto", "label">>
         /\ call.before.auto = "squash" /\ ~marks.disarmed /\ subject.state = "open" => subject.auto = "squash"

\* A comment is written where it was not found.
CommentsAgree ==
  ~marks.stray =>
    /\ \A i, j \in DOMAIN subject.comments : subject.comments[i] = "marked" /\ subject.comments[j] = "marked" => i = j
    /\ call.kind = "marked" /\ Len(call.left) = 2 => \A i \in DOMAIN subject.comments : subject.comments[i] # "marked"
    /\ call.kind \in {"audit_on", "audit_off"} /\ (Len(call.left) = 1 \/ call.result = "receipt") =>
         LatestAudit(subject.comments) = call.kind

MutationInv == MutationTypes /\ CallAgrees /\ ForceHeld /\ ForceAgrees /\ CommentsAgree /\ MergesReviewedHead

\* The ends of a list of commands.
LEMMA CommandLists ==
  /\ \A a, b, c, d \in CommandNames :
       /\ <<a, b, c, d>> \in Seq(CommandNames) /\ Len(<<a, b, c, d>>) = 4 /\ Head(<<a, b, c, d>>) = a /\ Tail(<<a, b, c, d>>) = <<b, c, d>>
       /\ <<a, b, c>> \in Seq(CommandNames) /\ Len(<<a, b, c>>) = 3 /\ Head(<<a, b, c>>) = a /\ Tail(<<a, b, c>>) = <<b, c>>
       /\ <<a, b>> \in Seq(CommandNames) /\ Len(<<a, b>>) = 2 /\ Head(<<a, b>>) = a /\ Tail(<<a, b>>) = <<b>>
       /\ <<a>> \in Seq(CommandNames) /\ Len(<<a>>) = 1 /\ Head(<<a>>) = a /\ Tail(<<a>>) = <<>>
  /\ <<>> \in Seq(CommandNames) /\ Len(<<>>) = 0
  OBVIOUS

\* A call keeps its shape when what is left of it gets shorter.
LEMMA ShapeIs ==
  ASSUME NEW c \in CallShape, NEW d \in CallRecord, d.kind = c.kind, d.left \in {c.left, <<>>} \/ (c.left # <<>> /\ d.left = Tail(c.left))
  PROVE  d \in CallShape
<1>1. c.kind \notin Comments => c.left \in Seq(CommandNames \ {"comments"})
  BY DEF CallShape
<1>2. ASSUME d.kind \notin Comments
      PROVE  d.left \in Seq(CommandNames \ {"comments"})
  <2>1. c.left \in Seq(CommandNames \ {"comments"})
    BY <1>1, <1>2
  <2> DEFINE S == CommandNames \ {"comments"}
             l == c.left
  <2>2. l \in Seq(S)
    BY <2>1
  <2> HIDE DEF S, l
  <2>3. <<>> \in Seq(S) /\ (l # <<>> => Tail(l) \in Seq(S))
    BY <2>2
  <2> QED
    BY <2>2, <2>3 DEF S, l
<1> QED
  BY <1>2 DEF CallShape

\* A call moves on, is refused, or is answered.
LEMMA AdvanceIs ==
  ASSUME NEW c \in CallShape, c.left # <<>>
  PROVE  LET d == Advance(c) IN
         /\ d \in CallShape /\ d.left = Tail(c.left) /\ d.kind = c.kind /\ d.before = c.before /\ d.fields = c.fields
         /\ d.result = c.result /\ d.expected = c.expected
<1>1. c \in CallRecord /\ c.left \in Seq(CommandNames)
  BY DEF CallShape, CallRecord
<1>2. Tail(c.left) \in Seq(CommandNames)
  BY <1>1
<1> DEFINE l == Tail(c.left)
<1> HIDE DEF l
<1>3. Advance(c) = [c EXCEPT !.left = l] /\ l \in Seq(CommandNames)
  BY <1>2 DEF Advance, l
<1>4. LET d == Advance(c) IN
      /\ d \in CallRecord /\ d.left = l /\ d.kind = c.kind /\ d.before = c.before /\ d.fields = c.fields
      /\ d.result = c.result /\ d.expected = c.expected
  BY <1>1, <1>3 DEF CallRecord
<1>5. Advance(c) \in CallShape
  BY <1>4, ShapeIs DEF l
<1> QED
  BY <1>4, <1>5 DEF l

\* A refused call has nothing left.
LEMMA RefusedIs ==
  ASSUME NEW c \in CallShape
  PROVE  LET d == CallRefused(c) IN
         /\ d \in CallShape /\ d.left = <<>> /\ d.kind = c.kind /\ d.before = c.before /\ d.fields = c.fields /\ d.result = "error"
<1>1. LET d == CallRefused(c) IN
         /\ d \in CallRecord /\ d.left = <<>> /\ d.kind = c.kind /\ d.before = c.before /\ d.fields = c.fields /\ d.result = "error"
  BY CommandLists DEF CallRefused, CallShape, CallRecord
<1>2. CallRefused(c) \in CallShape
  BY <1>1, ShapeIs
<1> QED
  BY <1>1, <1>2

\* So has an answered one.
LEMMA ReceiptIs ==
  ASSUME NEW c \in CallShape
  PROVE  LET d == Receipt(c) IN
         /\ d \in CallShape /\ d.left = <<>> /\ d.kind = c.kind /\ d.before = c.before /\ d.fields = c.fields /\ d.result = "receipt"
<1>1. LET d == Receipt(c) IN
         /\ d \in CallRecord /\ d.left = <<>> /\ d.kind = c.kind /\ d.before = c.before /\ d.fields = c.fields /\ d.result = "receipt"
  BY CommandLists DEF Receipt, CallShape, CallRecord
<1>2. Receipt(c) \in CallShape
  BY <1>1, ShapeIs
<1> QED
  BY <1>1, <1>2

\* What a call keeps of what it read.
LEMMA CallUpdates ==
  ASSUME NEW c \in CallShape
  PROVE  /\ \A b \in SubjectShape : LET d == [c EXCEPT !.before = b] IN
              /\ d \in CallShape /\ d.left = c.left /\ d.kind = c.kind /\ d.before = b /\ d.fields = c.fields /\ d.result = c.result
         /\ \A r \in RunShape : LET d == [c EXCEPT !.run = r] IN
              /\ d \in CallShape /\ d.left = c.left /\ d.kind = c.kind /\ d.before = c.before /\ d.fields = c.fields
              /\ d.result = c.result
         /\ \A f \in Seq({"auto", "label"}) : LET d == [c EXCEPT !.fields = f] IN
              /\ d \in CallShape /\ d.left = c.left /\ d.kind = c.kind /\ d.before = c.before /\ d.fields = f /\ d.result = c.result
  BY DEF CallShape, CallRecord

\* A subject changes in one place.
LEMMA SubjectUpdates ==
  ASSUME NEW s \in SubjectShape
  PROVE  /\ \A x \in {"open", "merged"} : LET t == [s EXCEPT !.state = x] IN
              t \in SubjectShape /\ t.state = x /\ t.comments = s.comments /\ t.labels = s.labels /\ t.auto = s.auto /\ t.head = s.head
         /\ \A x \in Nat : LET t == [s EXCEPT !.head = x] IN
              t \in SubjectShape /\ t.state = s.state /\ t.comments = s.comments /\ t.labels = s.labels /\ t.auto = s.auto
         /\ \A x \in Nat : LET t == [s EXCEPT !.base = x] IN
              t \in SubjectShape /\ t.state = s.state /\ t.comments = s.comments /\ t.labels = s.labels /\ t.auto = s.auto
         /\ \A x \in SUBSET {"caravan", "force", "parked", "skip"} : LET t == [s EXCEPT !.labels = x] IN
              t \in SubjectShape /\ t.state = s.state /\ t.comments = s.comments /\ t.labels = x /\ t.auto = s.auto
         /\ \A x \in {"off", "squash"} : LET t == [s EXCEPT !.auto = x] IN
              t \in SubjectShape /\ t.state = s.state /\ t.comments = s.comments /\ t.labels = s.labels /\ t.auto = x
         /\ \A x \in {"red", "green", "running"} : LET t == [s EXCEPT !.checks = x] IN
              t \in SubjectShape /\ t.state = s.state /\ t.comments = s.comments /\ t.labels = s.labels /\ t.auto = s.auto
         /\ \A x \in Seq(Comments) : LET t == [s EXCEPT !.comments = x] IN
              t \in SubjectShape /\ t.state = s.state /\ t.comments = x /\ t.labels = s.labels /\ t.auto = s.auto
  BY DEF SubjectShape

\* A merge turns auto-merge off and leaves the comments.
LEMMA MergedIs ==
  ASSUME NEW s \in SubjectShape
  PROVE  Merged(s) \in SubjectShape /\ Merged(s).comments = s.comments /\ Merged(s).labels = s.labels
<1>1. \A x \in {"open", "merged"}, y \in {"off", "squash"} : LET t == [s EXCEPT !.state = x, !.auto = y] IN
        t \in SubjectShape /\ t.comments = s.comments /\ t.labels = s.labels
  BY DEF SubjectShape
<1>2. "merged" \in {"open", "merged"} /\ "off" \in {"off", "squash"}
  OBVIOUS
<1> QED
  BY <1>1, <1>2, Zenon DEF Merged

\* A field of a transaction.
LEMMA FieldIs ==
  ASSUME NEW s \in SubjectShape, NEW k, NEW f
  PROVE  LET t == TransactionField(s, k, f) IN
         /\ t \in SubjectShape /\ t.state = s.state /\ t.comments = s.comments
         /\ f = "auto" => t.labels = s.labels /\ (s.state = "open" => t.auto = "squash")
         /\ f # "auto" => t.auto = s.auto
<1>1. CASE f = "auto"
  <2> DEFINE x == IF s.state = "open" THEN "squash" ELSE s.auto
  <2>1. x \in {"off", "squash"} /\ (s.state = "open" => x = "squash")
    BY DEF SubjectShape
  <2>2. TransactionField(s, k, f) = [s EXCEPT !.auto = x]
    BY <1>1 DEF TransactionField
  <2> HIDE DEF x
  <2>3. LET t == [s EXCEPT !.auto = x] IN
          t \in SubjectShape /\ t.state = s.state /\ t.comments = s.comments /\ t.labels = s.labels /\ t.auto = x
    BY <2>1 DEF SubjectShape
  <2> QED
    BY <1>1, <2>1, <2>2, <2>3, Zenon
<1>2. CASE f # "auto"
  <2> DEFINE x == IF Wanted(k) THEN s.labels \cup {"force"} ELSE s.labels \ {"force"}
  <2>1. x \in SUBSET {"caravan", "force", "parked", "skip"}
    BY DEF SubjectShape
  <2>2. TransactionField(s, k, f) = [s EXCEPT !.labels = x]
    BY <1>2 DEF TransactionField
  <2> HIDE DEF x
  <2>3. LET t == [s EXCEPT !.labels = x] IN
          t \in SubjectShape /\ t.state = s.state /\ t.comments = s.comments /\ t.auto = s.auto
    BY <2>1 DEF SubjectShape
  <2> QED
    BY <1>2, <2>2, <2>3, Zenon
<1> QED
  BY <1>1, <1>2

\* Whatever is applied of a transaction.
LEMMA PrefixIs ==
  ASSUME NEW s \in SubjectShape, NEW w \in CallShape, NEW t \in TransactionPrefix(s, w)
  PROVE  t \in SubjectShape /\ t.state = s.state /\ t.comments = s.comments
<1> DEFINE one == TransactionField(s, w.kind, w.fields[1])
           two == TransactionField(one, w.kind, w.fields[2])
<1>1. one \in SubjectShape /\ one.state = s.state /\ one.comments = s.comments
  BY FieldIs
<1> HIDE DEF one
<1>2. two \in SubjectShape /\ two.state = one.state /\ two.comments = one.comments
  BY <1>1, FieldIs
<1> HIDE DEF two
<1>3. t \in {s, one, two}
  BY DEF TransactionPrefix, one, two
<1> QED
  BY <1>1, <1>2, <1>3

\* All of a transaction is its longest prefix.
LEMMA WholeIsPrefix ==
  ASSUME NEW s, NEW w
  PROVE  TransactionWhole(s, w) \in TransactionPrefix(s, w)
  BY DEF TransactionWhole, TransactionPrefix

\* No part of arming leaves the label without auto-merge.
LEMMA ArmedInOrder ==
  ASSUME NEW s \in SubjectShape, NEW w \in CallShape, NEW t \in TransactionPrefix(s, w), "force" \notin s.labels,
         w.fields = <<"auto", "label">> \/ (w.fields = <<"label">> /\ (s.state = "open" => s.auto = "squash"))
  PROVE  t.state = "open" /\ "force" \in t.labels => t.auto = "squash"
<1> DEFINE one == TransactionField(s, w.kind, w.fields[1])
           two == TransactionField(one, w.kind, w.fields[2])
<1>1. CASE w.fields = <<"auto", "label">>
  <2>1. w.fields[1] = "auto" /\ w.fields[2] = "label"
    BY <1>1
  <2>2. one \in SubjectShape /\ one.state = s.state /\ one.labels = s.labels /\ (s.state = "open" => one.auto = "squash")
    BY <2>1, FieldIs
  <2> HIDE DEF one
  <2>3. two.state = one.state /\ two.auto = one.auto
    BY <2>1, <2>2, FieldIs
  <2> HIDE DEF two
  <2>4. t \in {s, one, two}
    BY DEF TransactionPrefix, one, two
  <2> QED
    BY <2>2, <2>3, <2>4
<1>2. CASE w.fields = <<"label">> /\ (s.state = "open" => s.auto = "squash")
  <2>1. w.fields[1] = "label" /\ Len(w.fields) = 1
    BY <1>2
  <2>2. one.state = s.state /\ one.auto = s.auto
    BY <2>1, FieldIs
  <2> HIDE DEF one
  <2>3. t \in {s, one}
    BY <2>1 DEF TransactionPrefix, one
  <2> QED
    BY <1>2, <2>2, <2>3
<1> QED
  BY <1>1, <1>2

\* What GitHub does with a write.
LEMMA OutcomeIs ==
  ASSUME NEW s \in SubjectShape, NEW w \in CallShape, NEW t \in Outcomes(s, w)
  PROVE  /\ t \in SubjectShape
         /\ w.kind \in Transactions => t \in TransactionPrefix(s, w)
         /\ t.comments = IF w.kind \in Comments THEN Append(s.comments, w.kind) ELSE s.comments
         /\ w.kind = "squash_merge" /\ t # s => s.head = w.expected.head
<1>1. s.labels \in SUBSET {"caravan", "force", "parked", "skip"} /\ s.auto \in {"off", "squash"} /\ s.comments \in Seq(Comments)
      /\ w.expected.labels \in SUBSET {"caravan", "force", "parked", "skip"}
  BY DEF SubjectShape, CallShape, CallRecord
<1>2. CASE w.kind \in {"set_base", "add_label", "remove_label"}
  <2>1. t = EditPullRequest(s, w.kind)
    BY <1>2 DEF Outcomes, Comments, Transactions
  <2>2. t \in SubjectShape /\ t.comments = s.comments
    <3>1. s.labels \cup {"caravan"} \in SUBSET {"caravan", "force", "parked", "skip"}
          /\ s.labels \ {"caravan"} \in SUBSET {"caravan", "force", "parked", "skip"} /\ 1 \in Nat
      BY <1>1
    <3>2. CASE w.kind = "set_base"
      <4>1. t = [s EXCEPT !.base = 1]
        BY <2>1, <3>2 DEF EditPullRequest
      <4> QED
        BY <3>1, <4>1 DEF SubjectShape
    <3>3. CASE w.kind = "add_label"
      <4> DEFINE x == s.labels \cup {"caravan"}
      <4>1. t = [s EXCEPT !.labels = x] /\ x \in SUBSET {"caravan", "force", "parked", "skip"}
        BY <2>1, <3>1, <3>3 DEF EditPullRequest
      <4> HIDE DEF x
      <4> QED
        BY <4>1, SubjectUpdates, Zenon
    <3>4. CASE w.kind = "remove_label"
      <4> DEFINE x == s.labels \ {"caravan"}
      <4>1. t = [s EXCEPT !.labels = x] /\ x \in SUBSET {"caravan", "force", "parked", "skip"}
        BY <2>1, <3>1, <3>4 DEF EditPullRequest
      <4> HIDE DEF x
      <4> QED
        BY <4>1, SubjectUpdates, Zenon
    <3> QED
      BY <1>2, <3>2, <3>3, <3>4
  <2> QED
    BY <1>2, <2>2 DEF Transactions, Comments
<1>3. CASE w.kind = "replace_labels"
  <2>1. t = ReplaceLabels(s, w)
    BY <1>3 DEF Outcomes, Comments, Transactions
  <2>2. (w.expected.labels \ {"caravan"}) \cup {"parked"} \in SUBSET {"caravan", "force", "parked", "skip"}
    BY <1>1
  <2>3. t \in SubjectShape /\ t.comments = s.comments
    <3> DEFINE x == (w.expected.labels \ {"caravan"}) \cup {"parked"}
    <3>1. t = [s EXCEPT !.labels = x] /\ x \in SUBSET {"caravan", "force", "parked", "skip"}
      BY <2>1, <2>2 DEF ReplaceLabels
    <3> HIDE DEF x
    <3> QED
      BY <3>1, SubjectUpdates, Zenon
  <2> QED
    BY <1>3, <2>3 DEF Transactions, Comments
<1>4. CASE w.kind \in {"enable_auto", "disable_auto"}
  <2>1. t \in AutoMerge(s, w.kind)
    BY <1>4 DEF Outcomes, Comments, Transactions
  <2>2. t \in {s, [s EXCEPT !.auto = "off"], Merged(s), [s EXCEPT !.auto = "squash"]}
    BY <2>1 DEF AutoMerge
  <2>3. t \in SubjectShape /\ t.comments = s.comments
    <3>1. \A x \in {"off", "squash"} : [s EXCEPT !.auto = x] \in SubjectShape /\ [s EXCEPT !.auto = x].comments = s.comments
      BY SubjectUpdates, Zenon
    <3>2. "off" \in {"off", "squash"} /\ "squash" \in {"off", "squash"}
      OBVIOUS
    <3> QED
      BY <2>2, <3>1, <3>2, MergedIs, Zenon
  <2> QED
    BY <1>4, <2>3 DEF Transactions, Comments
<1>5. CASE w.kind = "squash_merge"
  <2>1. t = SquashMerge(s, w)
    BY <1>5 DEF Outcomes, Comments, Transactions
  <2>2. t = s \/ (t = Merged(s) /\ MatchesHead(s, w))
    BY <2>1 DEF SquashMerge
  <2>3. t \in SubjectShape /\ t.comments = s.comments /\ (t # s => s.head = w.expected.head)
    BY <2>2, MergedIs DEF MatchesHead
  <2> QED
    BY <1>5, <2>3 DEF Transactions, Comments
<1>6. CASE w.kind = "admin_merge"
  <2>1. t = AdminSquashMerge(s)
    BY <1>6 DEF Outcomes, Comments, Transactions
  <2>2. t \in SubjectShape /\ t.comments = s.comments
    BY <2>1, MergedIs DEF AdminSquashMerge
  <2> QED
    BY <1>6, <2>2 DEF Transactions, Comments
<1>7. CASE w.kind \in Comments
  <2>1. t = CommentPullRequest(s, w.kind)
    BY <1>7 DEF Outcomes, Comments, Transactions
  <2>2. Append(s.comments, w.kind) \in Seq(Comments)
    BY <1>1, <1>7
  <2> DEFINE cs == Append(s.comments, w.kind)
  <2> HIDE DEF cs
  <2>3. t = [s EXCEPT !.comments = cs] /\ cs \in Seq(Comments)
    BY <2>1, <2>2 DEF CommentPullRequest, cs
  <2>4. t \in SubjectShape /\ t.comments = cs
    BY <2>3, SubjectUpdates, Zenon
  <2> QED
    BY <1>7, <2>4 DEF Transactions, Comments, cs
<1>8. CASE w.kind \in Transactions
  <2>1. t = TransactionWhole(s, w)
    BY <1>8 DEF Outcomes, Comments, Transactions
  <2>2. t \in TransactionPrefix(s, w)
    BY <2>1, WholeIsPrefix
  <2>3. t \in SubjectShape /\ t.comments = s.comments
    BY <2>2, PrefixIs
  <2> QED
    BY <1>8, <2>2, <2>3 DEF Transactions, Comments
<1>9. CASE /\ w.kind \notin {"set_base", "add_label", "remove_label", "replace_labels", "enable_auto", "disable_auto",
                             "squash_merge", "admin_merge"}
           /\ w.kind \notin Comments /\ w.kind \notin Transactions
  <2>1. t = [s EXCEPT !.checks = "running"]
    BY <1>9 DEF Outcomes, Comments, Transactions
  <2>2. t \in SubjectShape /\ t.comments = s.comments
    <3>1. "running" \in {"red", "green", "running"}
      OBVIOUS
    <3> QED
      BY <2>1, <3>1, SubjectUpdates, Zenon
  <2> QED
    BY <1>9, <2>2
<1> QED
  BY <1>2, <1>3, <1>4, <1>5, <1>6, <1>7, <1>8, <1>9

\* The audit just written is the latest.
LEMMA AppendedAudit ==
  ASSUME NEW cs \in Seq(Comments), NEW k \in {"audit_on", "audit_off"}
  PROVE  LatestAudit(Append(cs, k)) = k
<1> DEFINE ds == Append(cs, k)
           n == Len(cs) + 1
<1>1. k \in Comments
  BY DEF Comments
<1>2. ds \in Seq(Comments) /\ Len(ds) = n /\ ds[n] = k /\ n \in Nat /\ n >= 1 /\ DOMAIN ds = 1..n
  BY <1>1
<1> HIDE DEF ds, n
<1>3. n \in Audits(ds) /\ \A j \in Audits(ds) : j \in 1..n
  BY <1>2 DEF Audits
<1>4. \A i \in Audits(ds) : (\A j \in Audits(ds) : j <= i) <=> i = n
  BY <1>2, <1>3
<1>5. (CHOOSE i \in Audits(ds) : \A j \in Audits(ds) : j <= i) = n
  BY <1>3, <1>4, Zenon
<1>6. LatestAudit(ds) = ds[CHOOSE i \in Audits(ds) : \A j \in Audits(ds) : j <= i]
  BY <1>3, Zenon DEF LatestAudit
<1> QED
  BY <1>2, <1>5, <1>6 DEF ds

\* A mark where there was none is the only one; another comment adds none.
LEMMA AppendedMark ==
  ASSUME NEW cs \in Seq(Comments), NEW k \in Comments,
         \A i, j \in DOMAIN cs : cs[i] = "marked" /\ cs[j] = "marked" => i = j,
         k = "marked" => \A i \in DOMAIN cs : cs[i] # "marked",
         NEW ds, ds = Append(cs, k)
  PROVE  \A i, j \in DOMAIN ds : ds[i] = "marked" /\ ds[j] = "marked" => i = j
<1>1. DOMAIN cs = 1..Len(cs) /\ DOMAIN ds = 1..(Len(cs) + 1) /\ Len(cs) \in Nat /\ ds[Len(cs) + 1] = k
      /\ \A i \in 1..Len(cs) : ds[i] = cs[i]
  OBVIOUS
<1> QED
  BY <1>1

\* What is left of a transaction, by its next command.
LEMMA TransactionEnds ==
  ASSUME NEW l \in {<<"verify", "ids", "write", "refetch">>, <<"ids", "write", "refetch">>, <<"write", "refetch">>, <<"refetch">>}
  PROVE  /\ Head(l) \in {"verify", "ids", "write", "refetch"}
         /\ Head(l) = "verify" => Len(l) = 4 /\ Len(Tail(l)) = 3 /\ Tail(l) = <<"ids", "write", "refetch">>
         /\ Head(l) = "ids" => Len(l) = 3 /\ Len(Tail(l)) = 2 /\ Tail(l) = <<"write", "refetch">> /\ Tail(Tail(l)) = <<"refetch">>
         /\ Head(l) = "write" => Len(l) = 2 /\ Tail(l) = <<"refetch">>
         /\ Head(l) = "refetch" => Len(l) = 1
<1>1. CASE l = <<"verify", "ids", "write", "refetch">>
  BY <1>1
<1>2. CASE l = <<"ids", "write", "refetch">>
  BY <1>2
<1>3. CASE l = <<"write", "refetch">>
  BY <1>3
<1>4. CASE l = <<"refetch">>
  BY <1>4
<1> QED
  BY <1>1, <1>2, <1>3, <1>4

\* What is left of a comment, by its next command.
LEMMA CommentEnds ==
  ASSUME NEW l \in {<<"verify", "comments", "write", "refetch">>, <<"comments", "write", "refetch">>, <<"write", "refetch">>, <<"refetch">>}
  PROVE  /\ Head(l) \in {"verify", "comments", "write", "refetch"}
         /\ Head(l) = "verify" => Len(l) = 4 /\ Len(Tail(l)) = 3 /\ Tail(l) = <<"comments", "write", "refetch">>
         /\ Head(l) = "comments" => Len(l) = 3 /\ Len(Tail(l)) = 2 /\ Tail(l) = <<"write", "refetch">> /\ Tail(Tail(l)) = <<"refetch">>
         /\ Head(l) = "write" => Len(l) = 2 /\ Tail(l) = <<"refetch">>
         /\ Head(l) = "refetch" => Len(l) = 1
<1>1. CASE l = <<"verify", "comments", "write", "refetch">>
  BY <1>1
<1>2. CASE l = <<"comments", "write", "refetch">>
  BY <1>2
<1>3. CASE l = <<"write", "refetch">>
  BY <1>3
<1>4. CASE l = <<"refetch">>
  BY <1>4
<1> QED
  BY <1>1, <1>2, <1>3, <1>4

\* Where a transaction or a comment stands when its write is next, and at its other commands.
LEMMA Places ==
  ASSUME CallAgrees, call.left # <<>>
  PROVE  /\ call.kind \in Transactions \cup Comments =>
              /\ Due("verify") => Len(call.left) = 4 /\ Len(Tail(call.left)) = 3
              /\ Due("ids") \/ Due("comments") => Len(call.left) = 3 /\ Len(Tail(call.left)) = 2 /\ Tail(call.left) = <<"write", "refetch">>
                                                /\ Tail(Tail(call.left)) = <<"refetch">>
              /\ Due("write") => Len(call.left) = 2 /\ Tail(call.left) = <<"refetch">>
              /\ Due("refetch") => Len(call.left) = 1
              /\ ~Due("permission") /\ ~Due("run") /\ ~Due("suite")
         /\ call.kind \in Transactions => ~Due("comments")
         /\ call.kind \in Comments => ~Due("ids")
         /\ call.kind \in Transactions /\ Due("verify") => Tail(call.left) = <<"ids", "write", "refetch">>
         /\ call.kind \in Comments /\ Due("verify") => Tail(call.left) = <<"comments", "write", "refetch">>
<1>1. CASE call.kind \in Transactions
  <2>1. call.kind \notin Comments
    BY <1>1 DEF Transactions, Comments
  <2>2. call.left \in {<<"verify", "ids", "write", "refetch">>, <<"ids", "write", "refetch">>, <<"write", "refetch">>, <<"refetch">>}
    BY <1>1 DEF CallAgrees
  <2> QED
    BY <1>1, <2>1, <2>2, TransactionEnds DEF Due, CallIdle
<1>2. CASE call.kind \in Comments
  <2>1. call.kind \notin Transactions
    BY <1>2 DEF Transactions, Comments
  <2>2. call.left \in {<<"verify", "comments", "write", "refetch">>, <<"comments", "write", "refetch">>, <<"write", "refetch">>, <<"refetch">>}
    BY <1>2 DEF CallAgrees
  <2> QED
    BY <1>2, <2>1, <2>2, CommentEnds DEF Due, CallIdle
<1> QED
  BY <1>1, <1>2

\* What the others do changes neither comments nor force, and whoever disarms is marked.
LEMMA OthersKeep ==
  ASSUME MutationInv, UNCHANGED call, subject'.comments = subject.comments,
         "force" \in subject'.labels <=> "force" \in subject.labels, subject'.state = subject.state,
         marks'.stray = marks.stray, marks'.merged = marks.merged,
         marks'.disarmed \/ (marks'.disarmed = marks.disarmed /\ subject'.auto = subject.auto)
  PROVE  (CallAgrees /\ ForceHeld /\ ForceAgrees /\ CommentsAgree /\ MergesReviewedHead)'
<1>1. CallAgrees'
  BY DEF MutationInv, CallAgrees
<1>2. ForceHeld'
  BY DEF MutationInv, ForceHeld
<1>3. ForceAgrees'
  BY DEF MutationInv, ForceAgrees, Unwritten
<1>4. CommentsAgree'
  BY DEF MutationInv, CommentsAgree
<1>5. MergesReviewedHead'
  BY DEF MutationInv, MergesReviewedHead
<1> QED
  BY <1>1, <1>2, <1>3, <1>4, <1>5

\* A call that ends refused keeps what was true; the write that may have been applied is not undone.
LEMMA RefusedKeeps ==
  ASSUME MutationInv, UNCHANGED subject, call' = CallRefused(call), marks'.stray = marks.stray, marks'.merged = marks.merged,
         marks'.disarmed = marks.disarmed \/ Unwritten
  PROVE  call' \in CallShape /\ (CallAgrees /\ ForceHeld /\ ForceAgrees /\ CommentsAgree /\ MergesReviewedHead)'
<1>1. call \in CallShape
  BY DEF MutationInv, MutationTypes
<1>2. call' \in CallShape /\ call'.left = <<>> /\ call'.kind = call.kind /\ call'.before = call.before /\ call'.result = "error"
  BY <1>1, RefusedIs
<1>3. CallAgrees'
  BY <1>2 DEF CallAgrees
<1>4. ForceHeld'
  BY <1>2 DEF MutationInv, ForceHeld, ForceAgrees
<1>5. ForceAgrees'
  BY <1>2 DEF ForceAgrees, Unwritten
<1>6. CommentsAgree'
  BY <1>2 DEF MutationInv, CommentsAgree
<1>7. MergesReviewedHead'
  BY DEF MutationInv, MergesReviewedHead
<1> QED
  BY <1>2, <1>3, <1>4, <1>5, <1>6, <1>7

\* A readback is one command.
LEMMA ReadbackIsOne ==
  ASSUME NEW l \in {<<>>, <<"refetch">>}
  PROVE  ~(Len(l) >= 2) /\ Len(l) \notin {2, 3} /\ Len(l) # 2
<1>1. CASE l = <<>>
  BY <1>1
<1>2. CASE l = <<"refetch">>
  BY <1>2
<1> QED
  BY <1>1, <1>2

\* What the write of an operation leaves behind, all of it or a prefix.
LEMMA EffectOfWrite ==
  ASSUME MutationInv, Due("write"),
         subject' \in Outcomes(subject, call) \/ (call.kind \in Transactions /\ subject' \in TransactionPrefix(subject, call))
  PROVE  /\ subject' \in SubjectShape
         /\ /\ call.kind = "arm" /\ "force" \notin call.before.labels /\ ~marks.stray /\ ~marks.disarmed
            /\ subject'.state = "open" /\ "force" \in subject'.labels
            => subject'.auto = "squash"
         /\ ~marks.stray => \A i, j \in DOMAIN subject'.comments : subject'.comments[i] = "marked" /\ subject'.comments[j] = "marked" => i = j
         /\ ~marks.stray /\ call.kind \in {"audit_on", "audit_off"} => LatestAudit(subject'.comments) = call.kind
         /\ subject'.state # subject.state /\ call.kind = "squash_merge" => subject.head = call.expected.head
<1>1. subject \in SubjectShape /\ call \in CallShape /\ CallAgrees /\ ForceAgrees /\ CommentsAgree
  BY DEF MutationInv, MutationTypes
<1>2. subject.comments \in Seq(Comments) /\ call.left # <<>>
  BY <1>1 DEF SubjectShape, Due, CallIdle
<1>3. /\ subject' \in SubjectShape
      /\ call.kind \in Transactions => subject' \in TransactionPrefix(subject, call)
      /\ subject'.comments = IF call.kind \in Comments THEN Append(subject.comments, call.kind) ELSE subject.comments
      /\ call.kind = "squash_merge" /\ subject' # subject => subject.head = call.expected.head
  <2>1. CASE subject' \in Outcomes(subject, call)
    BY <1>1, <2>1, OutcomeIs
  <2>2. CASE call.kind \in Transactions /\ subject' \in TransactionPrefix(subject, call)
    <3>1. call.kind \notin Comments /\ call.kind # "squash_merge"
      BY <2>2 DEF Transactions, Comments
    <3> QED
      BY <1>1, <2>2, <3>1, PrefixIs
  <2> QED
    BY <2>1, <2>2
<1>4. ASSUME call.kind = "arm", "force" \notin call.before.labels, ~marks.stray, ~marks.disarmed
      PROVE  subject'.state = "open" /\ "force" \in subject'.labels => subject'.auto = "squash"
  <2>1. call.kind \in Transactions
    BY <1>4 DEF Transactions
  <2>2. Len(call.left) = 2
    BY <1>1, <1>2, <2>1, Places
  <2>3. /\ "force" \notin subject.labels
        /\ call.fields = IF call.before.auto = "squash" THEN <<"label">> ELSE <<"auto", "label">>
        /\ call.before.auto = "squash" /\ subject.state = "open" => subject.auto = "squash"
    BY <1>1, <1>4, <2>2 DEF ForceAgrees, Unwritten
  <2>4. call.fields = <<"auto", "label">> \/ (call.fields = <<"label">> /\ (subject.state = "open" => subject.auto = "squash"))
    BY <2>3
  <2> QED
    BY <1>1, <1>3, <2>1, <2>3, <2>4, ArmedInOrder
<1>5. ASSUME ~marks.stray
      PROVE  /\ \A i, j \in DOMAIN subject'.comments : subject'.comments[i] = "marked" /\ subject'.comments[j] = "marked" => i = j
             /\ call.kind \in {"audit_on", "audit_off"} => LatestAudit(subject'.comments) = call.kind
  <2>1. \A i, j \in DOMAIN subject.comments : subject.comments[i] = "marked" /\ subject.comments[j] = "marked" => i = j
    BY <1>1, <1>5 DEF CommentsAgree
  <2>2. CASE call.kind \notin Comments
    BY <1>3, <2>1, <2>2 DEF Comments
  <2>3. CASE call.kind \in Comments
    <3>1. Len(call.left) = 2
      BY <1>1, <1>2, <2>3, Places
    <3>2. call.kind = "marked" => \A i \in DOMAIN subject.comments : subject.comments[i] # "marked"
      BY <1>1, <1>5, <3>1 DEF CommentsAgree
    <3>3. subject'.comments = Append(subject.comments, call.kind)
      BY <1>3, <2>3
    <3>4. \A i, j \in DOMAIN subject'.comments : subject'.comments[i] = "marked" /\ subject'.comments[j] = "marked" => i = j
      BY <1>2, <2>1, <2>3, <3>2, <3>3, AppendedMark
    <3> QED
      BY <1>2, <3>3, <3>4, AppendedAudit
  <2> QED
    BY <2>2, <2>3
<1> QED
  BY <1>3, <1>4, <1>5

\* After its write an operation has at most its readback left.
LEMMA WrittenKeeps ==
  ASSUME MutationInv, Due("write"), call' = Advance(call) \/ call' = CallRefused(call),
         subject' \in Outcomes(subject, call) \/ (call.kind \in Transactions /\ subject' \in TransactionPrefix(subject, call)),
         marks'.stray = marks.stray, marks'.disarmed = marks.disarmed,
         \/ marks'.merged = marks.merged
         \/ subject'.state # subject.state /\ marks'.merged = <<call.kind, subject.head, call.expected.head>>
  PROVE  subject' \in SubjectShape /\ call' \in CallShape /\ (CallAgrees /\ ForceHeld /\ ForceAgrees /\ CommentsAgree /\ MergesReviewedHead)'
<1>1. call \in CallShape /\ CallAgrees /\ call.left # <<>>
  BY DEF MutationInv, MutationTypes, Due, CallIdle
<1>2. /\ call' \in CallShape /\ call'.left \in {<<>>, Tail(call.left)} /\ call'.kind = call.kind /\ call'.before = call.before
      /\ call'.result \in {call.result, "error"}
  <2>1. CASE call' = Advance(call)
    BY <1>1, <2>1, AdvanceIs
  <2>2. CASE call' = CallRefused(call)
    BY <1>1, <2>2, RefusedIs
  <2> QED
    BY <2>1, <2>2
<1>3. call.result = "none" /\ call.kind \in Kinds
  BY <1>1 DEF CallAgrees
<1>4. call.kind \in Transactions \cup Comments => call'.left \in {<<>>, <<"refetch">>}
  BY <1>1, <1>2, Places
<1>5. CallAgrees'
  <2>1. (call'.kind \in Transactions \/ call'.kind \in Comments) => call'.left \in {<<>>, <<"refetch">>}
    BY <1>2, <1>4
  <2>2. call'.left # <<>> => call'.result = "none" /\ call'.kind \in Kinds
    <3>1. CASE call' = Advance(call)
      BY <1>1, <1>2, <1>3, <3>1, AdvanceIs
    <3>2. CASE call' = CallRefused(call)
      BY <1>1, <3>2, RefusedIs
    <3> QED
      BY <3>1, <3>2
  <2> QED
    BY <2>1, <2>2 DEF CallAgrees
<1>6. ForceHeld'
  BY <1>2, EffectOfWrite DEF ForceHeld
<1>7. ForceAgrees'
  <2>1. call'.kind = "arm" => call'.left \in {<<>>, <<"refetch">>}
    BY <1>2, <1>4 DEF Transactions
  <2>2. call'.kind = "arm" => ~(Len(call'.left) >= 2) /\ Len(call'.left) \notin {2, 3}
    BY <2>1, ReadbackIsOne
  <2> QED
    BY <2>2 DEF ForceAgrees, Unwritten
<1>8. CommentsAgree'
  <2>1. call'.kind = "marked" => call'.left \in {<<>>, <<"refetch">>}
    BY <1>2, <1>4 DEF Comments
  <2>2. call'.kind = "marked" => Len(call'.left) # 2
    BY <2>1, ReadbackIsOne
  <2> QED
    BY <1>2, <2>2, EffectOfWrite DEF CommentsAgree
<1>9. MergesReviewedHead'
  <2>1. CASE marks'.merged = marks.merged
    BY <2>1 DEF MutationInv, MergesReviewedHead
  <2>2. CASE subject'.state # subject.state /\ marks'.merged = <<call.kind, subject.head, call.expected.head>>
    BY <2>2, EffectOfWrite DEF MergesReviewedHead
  <2> QED
    BY <2>1, <2>2
<1> QED
  BY <1>2, <1>5, <1>6, <1>7, <1>8, <1>9, EffectOfWrite

\* Who disarms is marked.
LEMMA DisarmedMark ==
  ASSUME NEW m \in MarkShape
  PROVE  \A b \in BOOLEAN : LET n == [m EXCEPT !.disarmed = b] IN
           n \in MarkShape /\ n.disarmed = b /\ n.stray = m.stray /\ n.merged = m.merged
  BY DEF MarkShape

\* What is merged is marked.
LEMMA MergedMark ==
  ASSUME NEW m \in MarkShape, NEW x \in MergeMarks
  PROVE  LET n == [m EXCEPT !.merged = x] IN
           n \in MarkShape /\ n.disarmed = m.disarmed /\ n.stray = m.stray /\ n.merged = x
  BY DEF MarkShape

\* The mark of a merge names what was merged.
LEMMA LandedIs ==
  ASSUME NEW s \in SubjectShape, NEW t \in SubjectShape, NEW w \in CallShape, NEW m \in MarkShape, NEW x,
         x = IF s.state = "open" /\ t.state = "merged" THEN <<w.kind, s.head, w.expected.head>> ELSE m.merged
  PROVE  /\ x \in MergeMarks
         /\ x = m.merged \/ (t.state # s.state /\ x = <<w.kind, s.head, w.expected.head>>)
<1>1. s.head \in Nat /\ w.kind \in Kinds \cup {"none"} /\ w.expected.head \in Nat
  BY DEF SubjectShape, CallShape, CallRecord
<1>2. <<w.kind, s.head, w.expected.head>> \in (Kinds \cup {"none"}) \X Nat \X Nat
  BY <1>1
<1>3. m.merged \in MergeMarks
  BY DEF MarkShape
<1>4. CASE s.state = "open" /\ t.state = "merged"
  BY <1>2, <1>4 DEF MergeMarks
<1>5. CASE ~(s.state = "open" /\ t.state = "merged")
  BY <1>3, <1>5
<1> QED
  BY <1>4, <1>5

\* A started run.
LEMMA RunIs ==
  ASSUME workflow \in RunShape, NEW w, workflow' = IF Restarts(w.kind) THEN [workflow EXCEPT !.conclusion = "running", !.attempt = @ + 1] ELSE workflow
  PROVE  workflow' \in RunShape
<1>1. workflow.attempt + 1 \in Nat
  BY DEF RunShape
<1> DEFINE n == workflow.attempt + 1
<1>2. workflow' = workflow \/ workflow' = [workflow EXCEPT !.conclusion = "running", !.attempt = n]
  OBVIOUS
<1>3. n \in Nat
  BY <1>1
<1> HIDE DEF n
<1>4. \A c \in {"failure", "success", "running"} : [workflow EXCEPT !.conclusion = c, !.attempt = n] \in RunShape
  BY <1>3 DEF RunShape
<1>5. "running" \in {"failure", "success", "running"}
  OBVIOUS
<1> QED
  BY <1>2, <1>4, <1>5, Zenon

\* The commands of an operation.
LEMMA CommandsAre ==
  ASSUME NEW k \in Kinds
  PROVE  /\ Commands(k) \in Seq(CommandNames)
         /\ k \notin Comments => Commands(k) \in Seq(CommandNames \ {"comments"})
         /\ k \in Transactions => Commands(k) = <<"verify", "ids", "write", "refetch">>
         /\ k \in Comments => Commands(k) = <<"verify", "comments", "write", "refetch">>
<1>1. k \in Transactions => Commands(k) = <<"verify", "ids", "write", "refetch">>
  BY DEF Commands, Edits, Comments, Reruns, Transactions
<1>2. k \in Comments => Commands(k) = <<"verify", "comments", "write", "refetch">>
  BY DEF Commands, Edits, Comments, Reruns, Transactions
<1>3. k \in Edits => Commands(k) = <<"verify", "write", "refetch">>
  BY DEF Commands, Edits, Comments, Reruns, Transactions
<1>4. k \in Reruns => Commands(k) = <<"run", "verify", "write", "refetch">>
  BY DEF Commands, Edits, Comments, Reruns, Transactions
<1>5. k = "admin_merge" => Commands(k) = <<"permission", "verify", "write", "refetch">>
  BY DEF Commands, Edits, Comments, Reruns, Transactions
<1>6. k = "rerequest" => Commands(k) = <<"verify", "suite", "write", "refetch">>
  BY DEF Commands, Edits, Comments, Reruns, Transactions
<1>7. k = "restart" => Commands(k) = <<"verify", "suite", "run", "write", "refetch">>
  BY DEF Commands, Edits, Comments, Reruns, Transactions
<1>8. /\ <<"verify", "ids", "write", "refetch">> \in Seq(CommandNames) /\ <<"verify", "comments", "write", "refetch">> \in Seq(CommandNames)
      /\ <<"verify", "write", "refetch">> \in Seq(CommandNames) /\ <<"run", "verify", "write", "refetch">> \in Seq(CommandNames)
      /\ <<"permission", "verify", "write", "refetch">> \in Seq(CommandNames)
      /\ <<"verify", "suite", "write", "refetch">> \in Seq(CommandNames)
      /\ <<"verify", "suite", "run", "write", "refetch">> \in Seq(CommandNames)
  BY DEF CommandNames
<1>9. \/ k \in Transactions \/ k \in Comments \/ k \in Edits \/ k \in Reruns
      \/ k = "admin_merge" \/ k = "rerequest" \/ k = "restart"
  BY DEF Kinds
<1>10. /\ <<"verify", "ids", "write", "refetch">> \in Seq(CommandNames \ {"comments"})
       /\ <<"verify", "write", "refetch">> \in Seq(CommandNames \ {"comments"})
       /\ <<"run", "verify", "write", "refetch">> \in Seq(CommandNames \ {"comments"})
       /\ <<"permission", "verify", "write", "refetch">> \in Seq(CommandNames \ {"comments"})
       /\ <<"verify", "suite", "write", "refetch">> \in Seq(CommandNames \ {"comments"})
       /\ <<"verify", "suite", "run", "write", "refetch">> \in Seq(CommandNames \ {"comments"})
  BY DEF CommandNames
<1> QED
  BY <1>1, <1>2, <1>3, <1>4, <1>5, <1>6, <1>7, <1>8, <1>9, <1>10, Zenon

\* A call begins with all its commands and with the pull request as it is.
LEMMA BeginCallKeeps ==
  ASSUME MutationInv, BeginCall
  PROVE  MutationInv'
<1>1. /\ subject \in SubjectShape /\ workflow \in RunShape /\ todo \in Seq(Kinds) /\ todo # <<>>
      /\ UNCHANGED <<subject, marks>>
  BY DEF MutationInv, MutationTypes, BeginCall
<1>2. Head(todo) \in Kinds /\ Tail(todo) \in Seq(Kinds)
  BY <1>1
<1> DEFINE k == Head(todo)
           l == Commands(k)
<1>3. k \in Kinds
  BY <1>2
<1>4. call' = [kind |-> k, left |-> l, expected |-> subject, before |-> subject, run |-> workflow, fields |-> <<>>, result |-> "none"]
  BY DEF BeginCall
<1> HIDE DEF k
<1>5. /\ l \in Seq(CommandNames)
      /\ k \notin Comments => l \in Seq(CommandNames \ {"comments"})
      /\ k \in Transactions => l = <<"verify", "ids", "write", "refetch">>
      /\ k \in Comments => l = <<"verify", "comments", "write", "refetch">>
  BY <1>3, CommandsAre
<1> HIDE DEF l
<1>6. /\ call' \in CallShape /\ call'.kind = k /\ call'.left = l /\ call'.before = subject /\ call'.result = "none"
  <2>1. <<>> \in Seq({"auto", "label"}) /\ k \in Kinds \cup {"none"}
    BY <1>3
  <2> QED
    BY <1>1, <1>4, <1>5, <2>1 DEF CallShape, CallRecord
<1>7. MutationTypes'
  BY <1>1, <1>2, <1>6 DEF MutationInv, MutationTypes, BeginCall
<1>8. k \in Transactions \cup Comments => Len(l) = 4
  BY <1>5
<1>9. CallAgrees'
  <2>1. /\ call'.kind \in Transactions => call'.left = <<"verify", "ids", "write", "refetch">>
        /\ call'.kind \in Comments => call'.left = <<"verify", "comments", "write", "refetch">>
        /\ call'.kind \in Kinds /\ call'.result = "none"
    BY <1>3, <1>5, <1>6
  <2> QED
    BY <2>1 DEF CallAgrees
<1>10. ForceHeld'
  BY <1>1, <1>6 DEF ForceHeld
<1>11. ForceAgrees'
  <2>1. call'.kind = "arm" => Len(call'.left) = 4
    BY <1>6, <1>8 DEF Transactions
  <2>2. call'.kind = "arm" => Len(call'.left) \notin {2, 3}
    BY <2>1
  <2> QED
    BY <1>1, <1>6, <2>2 DEF ForceAgrees, Unwritten
<1>12. CommentsAgree'
  <2>1. call'.kind \in {"marked", "audit_on", "audit_off"} => Len(call'.left) = 4
    BY <1>6, <1>8 DEF Comments
  <2>2. /\ call'.kind = "marked" => Len(call'.left) # 2
        /\ call'.kind \in {"audit_on", "audit_off"} => Len(call'.left) # 1
    BY <2>1
  <2> QED
    BY <1>1, <1>6, <2>2 DEF MutationInv, CommentsAgree
<1>13. MergesReviewedHead'
  BY <1>1 DEF MutationInv, MergesReviewedHead
<1> QED
  BY <1>7, <1>9, <1>10, <1>11, <1>12, <1>13 DEF MutationInv

\* An operation that is neither a transaction nor a comment reads on.
LEMMA PlainReadKeeps ==
  ASSUME MutationInv, UNCHANGED subject, marks'.stray = marks.stray, marks'.merged = marks.merged,
         call.left # <<>>, call.kind \notin Transactions, call.kind \notin Comments,
         call'.kind = call.kind, call'.result = call.result
  PROVE  (CallAgrees /\ ForceHeld /\ ForceAgrees /\ CommentsAgree /\ MergesReviewedHead)'
<1>1. call.result = "none" /\ call.kind \in Kinds
  BY DEF MutationInv, CallAgrees
<1>2. call'.kind # "arm" /\ call'.kind # "marked" /\ call'.kind \notin {"audit_on", "audit_off"}
  BY DEF Transactions, Comments
<1>3. CallAgrees'
  BY <1>1 DEF CallAgrees
<1>4. ForceHeld' /\ ForceAgrees'
  BY <1>2 DEF ForceHeld, ForceAgrees
<1>5. CommentsAgree'
  BY <1>2 DEF MutationInv, CommentsAgree
<1>6. MergesReviewedHead'
  BY DEF MutationInv, MergesReviewedHead
<1> QED
  BY <1>3, <1>4, <1>5, <1>6

\* What a read that moves a call leaves alone.
LEMMA ReadTypes ==
  ASSUME MutationInv, NEW c \in CallShape, Reads(c), marks' \in MarkShape
  PROVE  MutationTypes'
  BY DEF MutationInv, MutationTypes, Reads

\* The reads of the other operations.
LEMMA PlainReadsKeep ==
  ASSUME MutationInv, ReadPermission \/ ReadRun \/ ReadSuite
  PROVE  MutationInv'
<1>1. /\ call \in CallShape /\ CallAgrees /\ workflow \in RunShape /\ marks \in MarkShape
      /\ call.left # <<>> /\ UNCHANGED <<subject, marks, workflow>>
      /\ Due("permission") \/ Due("run") \/ Due("suite")
  BY DEF MutationInv, MutationTypes, ReadPermission, ReadRun, ReadSuite, Due, CallIdle, Reads
<1>2. call.kind \notin Transactions /\ call.kind \notin Comments
  BY <1>1, Places
<1> DEFINE d == Advance(call)
<1>3. d \in CallShape /\ d.kind = call.kind /\ d.result = call.result
  BY <1>1, AdvanceIs
<1>4. \/ Reads(CallRefused(call))
      \/ \E c \in CallShape : Reads(c) /\ c.kind = call.kind /\ c.result = call.result
  <2> DEFINE e == [d EXCEPT !.run = workflow]
  <2>1. Reads(CallRefused(call)) \/ Reads(d) \/ Reads(e)
    <3>1. CASE ReadPermission
      BY <3>1 DEF ReadPermission
    <3>2. CASE ReadRun
      BY <3>2 DEF ReadRun
    <3>3. CASE ReadSuite
      BY <3>3 DEF ReadSuite
    <3> QED
      BY <1>1, <3>1, <3>2, <3>3
  <2>2. e \in CallShape /\ e.kind = call.kind /\ e.result = call.result
    <3> HIDE DEF d
    <3> QED
      BY <1>1, <1>3, CallUpdates
  <2> HIDE DEF d, e
  <2> QED
    BY <1>3, <2>1, <2>2
<1>5. CASE Reads(CallRefused(call))
  <2>1. call' = CallRefused(call)
    BY <1>5 DEF Reads
  <2>2. call' \in CallShape /\ (CallAgrees /\ ForceHeld /\ ForceAgrees /\ CommentsAgree /\ MergesReviewedHead)'
    BY <1>1, <2>1, RefusedKeeps
  <2>3. MutationTypes'
    BY <1>1, <1>5, <2>1, <2>2, ReadTypes
  <2> QED
    BY <2>2, <2>3 DEF MutationInv
<1>6. CASE \E c \in CallShape : Reads(c) /\ c.kind = call.kind /\ c.result = call.result
  <2>1. PICK c \in CallShape : Reads(c) /\ c.kind = call.kind /\ c.result = call.result
    BY <1>6
  <2>2. call' = c
    BY <2>1 DEF Reads
  <2>3. MutationTypes'
    BY <1>1, <2>1, ReadTypes
  <2>4. (CallAgrees /\ ForceHeld /\ ForceAgrees /\ CommentsAgree /\ MergesReviewedHead)'
    BY <1>1, <1>2, <2>1, <2>2, PlainReadKeeps
  <2> QED
    BY <2>3, <2>4 DEF MutationInv
<1> QED
  BY <1>4, <1>5, <1>6

\* A failed read.
LEMMA ReadBreaksKeeps ==
  ASSUME MutationInv, ReadBreaks
  PROVE  MutationInv'
<1>1. call' = CallRefused(call) /\ UNCHANGED <<subject, workflow, late, todo, marks>>
  BY DEF ReadBreaks
<1>2. call' \in CallShape /\ (CallAgrees /\ ForceHeld /\ ForceAgrees /\ CommentsAgree /\ MergesReviewedHead)'
  BY <1>1, RefusedKeeps
<1>3. MutationTypes'
  BY <1>1, <1>2 DEF MutationInv, MutationTypes
<1> QED
  BY <1>2, <1>3 DEF MutationInv

\* The ids of a transaction: what was verified still holds.
LEMMA ReadIdsKeeps ==
  ASSUME MutationInv, ReadIds
  PROVE  MutationInv'
<1>1. /\ call \in CallShape /\ CallAgrees /\ marks \in MarkShape /\ call.left # <<>> /\ UNCHANGED <<subject, marks>> /\ Due("ids")
  BY DEF MutationInv, MutationTypes, ReadIds, Due, CallIdle, Reads
<1>2. Reads(CallRefused(call)) \/ Reads(Advance(call))
  BY DEF ReadIds
<1>3. CASE Reads(CallRefused(call))
  <2>1. call' = CallRefused(call)
    BY <1>3 DEF Reads
  <2>2. call' \in CallShape /\ (CallAgrees /\ ForceHeld /\ ForceAgrees /\ CommentsAgree /\ MergesReviewedHead)'
    BY <1>1, <2>1, RefusedKeeps
  <2>3. MutationTypes'
    BY <1>1, <1>3, <2>1, <2>2, ReadTypes
  <2> QED
    BY <2>2, <2>3 DEF MutationInv
<1>4. CASE Reads(Advance(call))
  <2>1. /\ call' \in CallShape /\ call'.left = Tail(call.left) /\ call'.kind = call.kind /\ call'.before = call.before
        /\ call'.fields = call.fields /\ call'.result = call.result
    BY <1>1, <1>4, AdvanceIs DEF Reads
  <2>2. MutationTypes'
    <3>1. Advance(call) \in CallShape
      BY <1>1, AdvanceIs
    <3> QED
      BY <1>1, <1>4, <3>1, ReadTypes
  <2>3. CASE call.kind \in Transactions
    <3>1. /\ Len(call.left) = 3 /\ call'.left = <<"write", "refetch">> /\ call.kind \notin Comments
          /\ call.result = "none" /\ call.kind \in Kinds
      BY <1>1, <2>1, <2>3, Places DEF Transactions, Comments, CallAgrees
    <3>2. CallAgrees'
      BY <2>1, <3>1 DEF CallAgrees
    <3>3. ForceHeld'
      BY <1>1, <2>1 DEF MutationInv, ForceHeld
    <3>4. ForceAgrees'
      <4>1. Unwritten /\ Len(call.left) \in {2, 3}
        BY <3>1 DEF Unwritten
      <4>2. call.kind = "arm" /\ ~marks.stray /\ "force" \notin call.before.labels =>
              /\ "force" \notin subject.labels
              /\ call.fields = IF call.before.auto = "squash" THEN <<"label">> ELSE <<"auto", "label">>
              /\ call.before.auto = "squash" /\ ~marks.disarmed /\ subject.state = "open" => subject.auto = "squash"
        BY <4>1 DEF MutationInv, ForceAgrees
      <4> QED
        BY <1>1, <2>1, <4>2 DEF ForceAgrees
    <3>5. CommentsAgree'
      <4>1. call'.kind # "marked" /\ call'.kind \notin {"audit_on", "audit_off"}
        BY <2>1, <3>1 DEF Comments
      <4> QED
        BY <1>1, <4>1 DEF MutationInv, CommentsAgree
    <3>6. MergesReviewedHead'
      BY <1>1 DEF MutationInv, MergesReviewedHead
    <3> QED
      BY <2>2, <3>2, <3>3, <3>4, <3>5, <3>6 DEF MutationInv
  <2>4. CASE call.kind \notin Transactions
    <3>1. call.kind \notin Comments
      BY <1>1, Places
    <3>2. (CallAgrees /\ ForceHeld /\ ForceAgrees /\ CommentsAgree /\ MergesReviewedHead)'
      BY <1>1, <2>1, <2>4, <3>1, PlainReadKeeps
    <3> QED
      BY <2>2, <3>2 DEF MutationInv
  <2> QED
    BY <2>3, <2>4
<1> QED
  BY <1>2, <1>3, <1>4

\* The comments are read: what is not found is written next, what is found is not written again.
LEMMA ReadCommentsKeeps ==
  ASSUME MutationInv, ReadComments
  PROVE  MutationInv'
<1>1. /\ call \in CallShape /\ CallAgrees /\ marks \in MarkShape /\ call.left # <<>> /\ UNCHANGED <<subject, marks>> /\ Due("comments")
  BY DEF MutationInv, MutationTypes, ReadComments, Due, CallIdle, Reads
<1> DEFINE d == Advance(call)
           e == Advance(d)
<1>2. /\ d \in CallShape /\ d.left = Tail(call.left) /\ d.kind = call.kind /\ d.before = call.before /\ d.result = call.result
  BY <1>1, AdvanceIs
<1>3. (AlreadyVisible(call.kind) /\ Reads(e)) \/ (~AlreadyVisible(call.kind) /\ Reads(d))
  BY DEF ReadComments
<1> HIDE DEF d
<1>4. CASE call.kind \in Comments
  <2>1. /\ Len(call.left) = 3 /\ d.left = <<"write", "refetch">> /\ Tail(d.left) = <<"refetch">>
        /\ call.result = "none" /\ call.kind \in Kinds /\ call.kind \notin Transactions
    BY <1>1, <1>2, <1>4, Places DEF Transactions, Comments, CallAgrees
  <2>2. d.left # <<>> /\ Len(d.left) = 2
    BY <2>1
  <2>3. /\ e \in CallShape /\ e.left = <<"refetch">> /\ e.kind = call.kind /\ e.before = call.before /\ e.result = "none"
    BY <1>2, <2>1, <2>2, AdvanceIs
  <2> HIDE DEF e
  <2>4. MutationTypes'
    BY <1>1, <1>2, <1>3, <2>3, ReadTypes
  <2>5. /\ call'.kind = call.kind /\ call'.before = call.before /\ call'.result = "none"
        /\ call'.left \in {<<"write", "refetch">>, <<"refetch">>}
    BY <1>2, <1>3, <2>1, <2>3 DEF Reads
  <2>6. CallAgrees'
    BY <2>1, <2>5, <1>4 DEF CallAgrees
  <2>7. ForceHeld' /\ ForceAgrees'
    <3>1. call'.kind # "arm"
      BY <2>1, <2>5 DEF Transactions
    <3> QED
      BY <3>1 DEF ForceHeld, ForceAgrees
  <2>8. CommentsAgree'
    <3>1. CASE AlreadyVisible(call.kind) /\ Reads(e)
      <4>1. call' = e /\ Len(<<"refetch">>) = 1
        BY <3>1 DEF Reads
      <4>2. Len(call'.left) # 2
        BY <2>3, <4>1
      <4>3. call.kind \in {"audit_on", "audit_off"} => LatestAudit(subject.comments) = call.kind
        BY <3>1 DEF AlreadyVisible
      <4> QED
        BY <1>1, <2>5, <4>2, <4>3 DEF MutationInv, CommentsAgree
    <3>2. CASE ~AlreadyVisible(call.kind) /\ Reads(d)
      <4>1. call' = d
        BY <3>2 DEF Reads
      <4>2. Len(call'.left) # 1
        BY <2>2, <4>1
      <4>3. call.kind = "marked" => \A i \in DOMAIN subject.comments : subject.comments[i] # "marked"
        BY <3>2 DEF AlreadyVisible
      <4> QED
        BY <1>1, <2>5, <4>2, <4>3 DEF MutationInv, CommentsAgree
    <3> QED
      BY <1>3, <3>1, <3>2
  <2>9. MergesReviewedHead'
    BY <1>1 DEF MutationInv, MergesReviewedHead
  <2> QED
    BY <2>4, <2>6, <2>7, <2>8, <2>9 DEF MutationInv
<1>5. CASE call.kind \notin Comments
  <2>1. call.left \in Seq(CommandNames \ {"comments"}) /\ call.left # <<>> /\ Head(call.left) = "comments"
    BY <1>1, <1>5 DEF CallShape, Due
  <2> DEFINE S == CommandNames \ {"comments"}
  <2>2. "comments" \notin S
    OBVIOUS
  <2> HIDE DEF S
  <2>3. Head(call.left) \in S
    BY <2>1 DEF S
  <2> QED
    BY <2>1, <2>2, <2>3
<1> QED
  BY <1>4, <1>5

\* The readback ends a call.
LEMMA RefetchKeeps ==
  ASSUME MutationInv, Refetch
  PROVE  MutationInv'
<1>1. /\ call \in CallShape /\ CallAgrees /\ marks \in MarkShape /\ call.left # <<>> /\ UNCHANGED <<subject, marks>> /\ Due("refetch")
  BY DEF MutationInv, MutationTypes, Refetch, Due, CallIdle, Reads
<1>2. Reads(CallRefused(call)) \/ Reads(Receipt(call))
  BY DEF Refetch
<1>3. CASE Reads(CallRefused(call))
  <2>1. call' = CallRefused(call)
    BY <1>3 DEF Reads
  <2>2. call' \in CallShape /\ (CallAgrees /\ ForceHeld /\ ForceAgrees /\ CommentsAgree /\ MergesReviewedHead)'
    BY <1>1, <2>1, RefusedKeeps
  <2>3. MutationTypes'
    BY <1>1, <1>3, <2>1, <2>2, ReadTypes
  <2> QED
    BY <2>2, <2>3 DEF MutationInv
<1>4. CASE Reads(Receipt(call))
  <2>1. call' = Receipt(call)
    BY <1>4 DEF Reads
  <2>2. /\ call' \in CallShape /\ call'.left = <<>> /\ call'.kind = call.kind /\ call'.before = call.before
    BY <1>1, <2>1, ReceiptIs
  <2>3. MutationTypes'
    BY <1>1, <1>4, <2>1, <2>2, ReadTypes
  <2>4. CallAgrees'
    BY <2>2 DEF CallAgrees
  <2>5. ForceHeld'
    BY <1>1, <2>2 DEF MutationInv, ForceHeld
  <2>6. ForceAgrees'
    BY <2>2 DEF ForceAgrees, Unwritten
  <2>7. CommentsAgree'
    <3>1. call.kind \in {"audit_on", "audit_off"} => Len(call.left) = 1
      BY <1>1, Places DEF Comments
    <3>2. ~marks.stray /\ call.kind \in {"audit_on", "audit_off"} => LatestAudit(subject.comments) = call.kind
      BY <3>1 DEF MutationInv, CommentsAgree
    <3> QED
      BY <1>1, <2>2, <3>2 DEF MutationInv, CommentsAgree
  <2>8. MergesReviewedHead'
    BY <1>1 DEF MutationInv, MergesReviewedHead
  <2> QED
    BY <2>3, <2>4, <2>5, <2>6, <2>7, <2>8 DEF MutationInv
<1> QED
  BY <1>2, <1>3, <1>4

\* Two fields, one after the other.
LEMMA TwoFields ==
  ASSUME NEW T, NEW a \in T, NEW b \in T
  PROVE  <<a>> \o <<b>> = <<a, b>> /\ <<>> \o <<b>> = <<b>>
<1> DEFINE s == <<a>> \o <<b>>
           t == <<a, b>>
<1>1. s \in Seq(T) /\ t \in Seq(T) /\ Len(s) = 2 /\ Len(t) = 2 /\ \A i \in 1..2 : s[i] = t[i]
  OBVIOUS
<1> HIDE DEF s, t
<1>2. s = t
  BY <1>1, SeqEqual
<1>3. <<>> \o <<b>> = <<b>>
  OBVIOUS
<1> QED
  BY <1>2, <1>3 DEF s, t

\* What a transaction to arm has to do, when the label is not there.
LEMMA ArmFields ==
  ASSUME "force" \notin subject.labels
  PROVE  ForceTransaction("arm") = IF subject.auto = "squash" THEN <<"label">> ELSE <<"auto", "label">>
<1>1. LabelChange("arm") /\ (AutoChange("arm") <=> subject.auto # "squash")
  BY DEF LabelChange, AutoChange, Wanted
<1>2. <<>> \o <<"label">> = <<"label">> /\ <<"auto">> \o <<"label">> = <<"auto", "label">>
  <2>1. "auto" \in {"auto", "label"} /\ "label" \in {"auto", "label"}
    OBVIOUS
  <2> QED
    BY <2>1, TwoFields, Zenon
<1>3. CASE subject.auto = "squash"
  BY <1>1, <1>2, <1>3, Zenon DEF ForceTransaction
<1>4. CASE subject.auto # "squash"
  BY <1>1, <1>2, <1>4, Zenon DEF ForceTransaction
<1> QED
  BY <1>3, <1>4

\* The fields of a transaction are fields.
LEMMA TransactionFields ==
  ASSUME NEW k
  PROVE  ForceTransaction(k) \in Seq({"auto", "label"})
<1> DEFINE a == IF AutoChange(k) THEN <<"auto">> ELSE <<>>
           b == IF LabelChange(k) THEN <<"label">> ELSE <<>>
<1>1. a \in Seq({"auto", "label"}) /\ b \in Seq({"auto", "label"})
  <2>1. <<"auto">> \in Seq({"auto", "label"}) /\ <<"label">> \in Seq({"auto", "label"}) /\ <<>> \in Seq({"auto", "label"})
    OBVIOUS
  <2> QED
    BY <2>1, Zenon
<1> HIDE DEF a, b
<1>2. a \o b \in Seq({"auto", "label"})
  BY <1>1
<1> QED
  BY <1>2 DEF ForceTransaction, a, b

\* Verification starts from the pull request as it is.
LEMMA VerifyKeeps ==
  ASSUME MutationInv, Verify
  PROVE  MutationInv'
<1>1. /\ subject \in SubjectShape /\ call \in CallShape /\ CallAgrees /\ marks \in MarkShape /\ call.left # <<>> /\ Due("verify")
      /\ marks' = [marks EXCEPT !.disarmed = FALSE]
  BY DEF MutationInv, MutationTypes, Verify, Due, CallIdle
<1>2. marks' \in MarkShape /\ marks'.stray = marks.stray /\ marks'.merged = marks.merged
  <2>1. FALSE \in BOOLEAN
    OBVIOUS
  <2> QED
    BY <1>1, <2>1, DisarmedMark, Zenon
<1> DEFINE d == Advance(call)
           v == [d EXCEPT !.before = subject]
           f == ForceTransaction(call.kind)
           u == [v EXCEPT !.fields = f]
<1>3. /\ d \in CallShape /\ d.left = Tail(call.left) /\ d.kind = call.kind /\ d.result = call.result
  BY <1>1, AdvanceIs
<1>4. \/ Reads(CallRefused(call))
      \/ call.kind \in Transactions /\ Reads(Receipt(v))
      \/ call.kind \in Transactions /\ Reads(u)
      \/ call.kind \notin Transactions /\ Reads(v)
  BY DEF Verify
<1>5. UNCHANGED subject
  BY DEF Verify, Reads
<1> HIDE DEF d
<1>6. v \in CallShape /\ v.left = Tail(call.left) /\ v.kind = call.kind /\ v.result = call.result /\ v.before = subject
  BY <1>1, <1>3, CallUpdates
<1> HIDE DEF v
<1>7. f \in Seq({"auto", "label"})
  BY TransactionFields
<1> HIDE DEF f
<1>8. /\ u \in CallShape /\ u.left = Tail(call.left) /\ u.kind = call.kind /\ u.result = call.result /\ u.before = subject
      /\ u.fields = f
  BY <1>6, <1>7, CallUpdates
<1> HIDE DEF u
<1>9. call.result = "none" /\ call.kind \in Kinds
  BY <1>1 DEF CallAgrees
<1>10. MergesReviewedHead'
  BY <1>2 DEF MutationInv, MergesReviewedHead
<1>11. CASE Reads(CallRefused(call))
  <2>1. call' = CallRefused(call)
    BY <1>11 DEF Reads
  <2>2. call.kind \in Transactions => Unwritten
    BY <1>1, Places DEF Unwritten
  <2>3. call' \in CallShape /\ call'.left = <<>> /\ call'.kind = call.kind /\ call'.before = call.before /\ call'.result = "error"
    BY <1>1, <2>1, RefusedIs
  <2>4. MutationTypes'
    BY <1>2, <1>11, <2>1, <2>3, ReadTypes
  <2>5. CallAgrees'
    BY <2>3 DEF CallAgrees
  <2>6. ForceHeld'
    <3>1. call.kind = "arm" => Unwritten
      BY <2>2 DEF Transactions
    <3>2. call.kind = "arm" /\ ~marks.stray /\ "force" \notin call.before.labels => "force" \notin subject.labels
      BY <3>1 DEF MutationInv, ForceAgrees
    <3> QED
      BY <1>2, <1>5, <2>3, <3>2 DEF ForceHeld
  <2>7. ForceAgrees'
    BY <2>3 DEF ForceAgrees, Unwritten
  <2>8. CommentsAgree'
    BY <1>2, <1>5, <2>3 DEF MutationInv, CommentsAgree
  <2> QED
    BY <1>10, <2>4, <2>5, <2>6, <2>7, <2>8 DEF MutationInv
<1>12. CASE call.kind \in Transactions /\ Reads(Receipt(v))
  <2>1. call' = Receipt(v)
    BY <1>12 DEF Reads
  <2>2. call' \in CallShape /\ call'.left = <<>> /\ call'.kind = call.kind /\ call'.before = subject
    BY <1>6, <2>1, ReceiptIs
  <2>3. MutationTypes'
    BY <1>2, <1>12, <2>1, <2>2, ReadTypes
  <2>4. CallAgrees'
    BY <2>2 DEF CallAgrees
  <2>5. ForceHeld'
    BY <1>5, <2>2 DEF ForceHeld
  <2>6. ForceAgrees'
    BY <2>2 DEF ForceAgrees, Unwritten
  <2>7. CommentsAgree'
    <3>1. call'.kind # "marked" /\ call'.kind \notin {"audit_on", "audit_off"}
      BY <1>12, <2>2 DEF Transactions
    <3> QED
      BY <1>2, <1>5, <3>1 DEF MutationInv, CommentsAgree
  <2> QED
    BY <1>10, <2>3, <2>4, <2>5, <2>6, <2>7 DEF MutationInv
<1>13. CASE call.kind \in Transactions /\ Reads(u)
  <2>1. call' = u
    BY <1>13 DEF Reads
  <2>2. /\ call' \in CallShape /\ call'.kind = call.kind /\ call'.before = subject /\ call'.fields = f /\ call'.result = "none"
        /\ call'.left = <<"ids", "write", "refetch">>
    BY <1>1, <1>8, <1>9, <1>13, <2>1, Places
  <2>3. MutationTypes'
    BY <1>2, <1>8, <1>13, ReadTypes
  <2>4. call'.kind \notin Comments
    BY <1>13, <2>2 DEF Transactions, Comments
  <2>5. CallAgrees'
    BY <1>9, <2>2, <2>4 DEF CallAgrees
  <2>6. ForceHeld'
    BY <1>5, <2>2 DEF ForceHeld
  <2>7. ForceAgrees'
    <3>1. call.kind = "arm" /\ "force" \notin subject.labels => f = IF subject.auto = "squash" THEN <<"label">> ELSE <<"auto", "label">>
      BY ArmFields DEF f
    <3> QED
      BY <1>5, <2>2, <3>1 DEF ForceAgrees
  <2>8. CommentsAgree'
    <3>1. call'.kind # "marked" /\ call'.kind \notin {"audit_on", "audit_off"}
      BY <2>4 DEF Comments
    <3> QED
      BY <1>2, <1>5, <3>1 DEF MutationInv, CommentsAgree
  <2> QED
    BY <1>10, <2>3, <2>5, <2>6, <2>7, <2>8 DEF MutationInv
<1>14. CASE call.kind \notin Transactions /\ Reads(v)
  <2>1. call' = v
    BY <1>14 DEF Reads
  <2>2. MutationTypes'
    BY <1>2, <1>6, <1>14, ReadTypes
  <2>3. CASE call.kind \notin Comments
    <3>1. (CallAgrees /\ ForceHeld /\ ForceAgrees /\ CommentsAgree /\ MergesReviewedHead)'
      BY <1>1, <1>2, <1>5, <1>6, <1>14, <2>1, <2>3, PlainReadKeeps
    <3> QED
      BY <2>2, <3>1 DEF MutationInv
  <2>4. CASE call.kind \in Comments
    <3>1. /\ call'.kind = call.kind /\ call'.result = "none" /\ call'.left = <<"comments", "write", "refetch">>
      BY <1>1, <1>6, <1>9, <2>1, <2>4, Places
    <3>2. Len(call'.left) # 1 /\ Len(call'.left) # 2
      BY <3>1
    <3>3. CallAgrees'
      BY <1>9, <1>14, <3>1 DEF CallAgrees
    <3>4. ForceHeld' /\ ForceAgrees'
      <4>1. call'.kind # "arm"
        BY <1>14, <3>1 DEF Transactions
      <4> QED
        BY <4>1 DEF ForceHeld, ForceAgrees
    <3>5. CommentsAgree'
      BY <1>2, <1>5, <3>1, <3>2 DEF MutationInv, CommentsAgree
    <3> QED
      BY <1>10, <2>2, <3>3, <3>4, <3>5 DEF MutationInv
  <2> QED
    BY <2>3, <2>4
<1> QED
  BY <1>4, <1>11, <1>12, <1>13, <1>14

\* The write answers.
LEMMA WriteKeeps ==
  ASSUME MutationInv, MutatePullRequest
  PROVE  MutationInv'
<1>1. /\ subject \in SubjectShape /\ call \in CallShape /\ marks \in MarkShape /\ workflow \in RunShape
      /\ Due("write") /\ call' = Advance(call) /\ Applied(call) /\ UNCHANGED <<late, todo>>
  BY DEF MutationInv, MutationTypes, MutatePullRequest
<1>2. subject' \in Outcomes(subject, call) /\ Landed(subject, call) /\ workflow' \in RunShape
  BY <1>1, RunIs DEF Applied
<1>3. subject' \in SubjectShape
  BY <1>1, <1>2, EffectOfWrite
<1> DEFINE x == IF subject.state = "open" /\ subject'.state = "merged" THEN <<call.kind, subject.head, call.expected.head>> ELSE marks.merged
<1>4. marks' = [marks EXCEPT !.merged = x]
  BY <1>2 DEF Landed
<1>5. /\ x \in MergeMarks
      /\ x = marks.merged \/ (subject'.state # subject.state /\ x = <<call.kind, subject.head, call.expected.head>>)
  BY <1>1, <1>3, LandedIs
<1> HIDE DEF x
<1>6. marks' \in MarkShape /\ marks'.disarmed = marks.disarmed /\ marks'.stray = marks.stray /\ marks'.merged = x
  BY <1>1, <1>4, <1>5, MergedMark, Zenon
<1>7. call' \in CallShape /\ (CallAgrees /\ ForceHeld /\ ForceAgrees /\ CommentsAgree /\ MergesReviewedHead)'
  BY <1>1, <1>2, <1>5, <1>6, WrittenKeeps
<1>8. MutationTypes'
  BY <1>1, <1>2, <1>3, <1>6, <1>7 DEF MutationInv, MutationTypes
<1> QED
  BY <1>7, <1>8 DEF MutationInv

\* The write fails, applied or not.
LEMMA WriteFailsKeeps ==
  ASSUME MutationInv, WriteFails
  PROVE  MutationInv'
<1>1. /\ subject \in SubjectShape /\ call \in CallShape /\ marks \in MarkShape /\ workflow \in RunShape /\ late \subseteq CallShape
      /\ todo \in Seq(Kinds) /\ Due("write") /\ UNCHANGED todo
  BY DEF MutationInv, MutationTypes, WriteFails
<1>2. CASE UNCHANGED <<subject, workflow, marks>> /\ late' \in {late, late \cup {call}} /\ call' = CallRefused(call)
  <2>1. call' \in CallShape /\ (CallAgrees /\ ForceHeld /\ ForceAgrees /\ CommentsAgree /\ MergesReviewedHead)'
    BY <1>2, RefusedKeeps
  <2>2. late' \subseteq CallShape
    BY <1>1, <1>2
  <2>3. MutationTypes'
    BY <1>1, <1>2, <2>1, <2>2 DEF MutationTypes
  <2> QED
    BY <2>1, <2>3 DEF MutationInv
<1>3. CASE Applied(call) /\ UNCHANGED late /\ call' = CallRefused(call)
  <2>1. subject' \in Outcomes(subject, call) /\ Landed(subject, call) /\ workflow' \in RunShape
    BY <1>1, <1>3, RunIs DEF Applied
  <2>2. subject' \in SubjectShape
    BY <1>1, <2>1, EffectOfWrite
  <2> DEFINE x == IF subject.state = "open" /\ subject'.state = "merged" THEN <<call.kind, subject.head, call.expected.head>> ELSE marks.merged
  <2>3. marks' = [marks EXCEPT !.merged = x]
    BY <2>1 DEF Landed
  <2>4. /\ x \in MergeMarks
        /\ x = marks.merged \/ (subject'.state # subject.state /\ x = <<call.kind, subject.head, call.expected.head>>)
    BY <1>1, <2>2, LandedIs
  <2> HIDE DEF x
  <2>5. marks' \in MarkShape /\ marks'.disarmed = marks.disarmed /\ marks'.stray = marks.stray /\ marks'.merged = x
    BY <1>1, <2>3, <2>4, MergedMark, Zenon
  <2>6. call' \in CallShape /\ (CallAgrees /\ ForceHeld /\ ForceAgrees /\ CommentsAgree /\ MergesReviewedHead)'
    BY <1>1, <1>3, <2>1, <2>4, <2>5, WrittenKeeps
  <2>7. MutationTypes'
    BY <1>1, <1>3, <2>1, <2>2, <2>5, <2>6 DEF MutationTypes
  <2> QED
    BY <2>6, <2>7 DEF MutationInv
<1>4. CASE /\ call.kind \in Transactions /\ subject' \in TransactionPrefix(subject, call)
           /\ UNCHANGED <<workflow, marks, late>> /\ call' = Advance(call)
  <2>1. /\ subject' \in SubjectShape /\ call' \in CallShape
        /\ (CallAgrees /\ ForceHeld /\ ForceAgrees /\ CommentsAgree /\ MergesReviewedHead)'
    BY <1>1, <1>4, WrittenKeeps
  <2>2. MutationTypes'
    BY <1>1, <1>4, <2>1 DEF MutationTypes
  <2> QED
    BY <2>1, <2>2 DEF MutationInv
<1> QED
  BY <1>2, <1>3, <1>4 DEF WriteFails

\* A write that arrives after its caller gave up is a stray.
LEMMA ApplyLateKeeps ==
  ASSUME MutationInv, NEW w \in late, ApplyLate(w)
  PROVE  MutationInv'
<1>1. /\ subject \in SubjectShape /\ call \in CallShape /\ marks \in MarkShape /\ workflow \in RunShape /\ late \subseteq CallShape
      /\ todo \in Seq(Kinds) /\ w \in CallShape
  BY DEF MutationInv, MutationTypes
<1>2. UNCHANGED <<call, todo>> /\ late' \subseteq CallShape /\ subject' \in Outcomes(subject, w)
  BY <1>1 DEF ApplyLate
<1>3. workflow' \in RunShape
  BY <1>1, RunIs DEF ApplyLate
<1>4. subject' \in SubjectShape /\ (w.kind = "squash_merge" /\ subject' # subject => subject.head = w.expected.head)
  BY <1>1, <1>2, OutcomeIs
<1> DEFINE x == IF subject.state = "open" /\ subject'.state = "merged" THEN <<w.kind, subject.head, w.expected.head>> ELSE marks.merged
<1>5. marks' = [marks EXCEPT !.stray = TRUE, !.merged = x]
  BY DEF ApplyLate
<1>6. /\ x \in MergeMarks
      /\ x = marks.merged \/ (subject'.state # subject.state /\ x = <<w.kind, subject.head, w.expected.head>>)
  BY <1>1, <1>4, LandedIs
<1> HIDE DEF x
<1>7. marks' \in MarkShape /\ marks'.stray /\ marks'.merged = x
  <2>1. \A b \in BOOLEAN : LET n == [marks EXCEPT !.stray = b, !.merged = x] IN n \in MarkShape /\ n.stray = b /\ n.merged = x
    BY <1>1, <1>6 DEF MarkShape
  <2>2. TRUE \in BOOLEAN
    OBVIOUS
  <2> QED
    BY <1>5, <2>1, <2>2, Zenon
<1>8. MutationTypes'
  BY <1>1, <1>2, <1>3, <1>4, <1>7 DEF MutationTypes
<1>9. CallAgrees'
  BY <1>2 DEF MutationInv, CallAgrees
<1>10. ForceHeld' /\ ForceAgrees' /\ CommentsAgree'
  BY <1>7 DEF ForceHeld, ForceAgrees, CommentsAgree
<1>11. MergesReviewedHead'
  <2>1. CASE x = marks.merged
    BY <1>7, <2>1 DEF MutationInv, MergesReviewedHead
  <2>2. CASE subject'.state # subject.state /\ x = <<w.kind, subject.head, w.expected.head>>
    BY <1>4, <1>7, <2>2 DEF MergesReviewedHead
  <2> QED
    BY <1>6, <2>1, <2>2
<1> QED
  BY <1>8, <1>9, <1>10, <1>11 DEF MutationInv

\* The others: a push, a label, auto-merge turned off, a run that ends.
LEMMA OthersAct ==
  ASSUME MutationInv, PushSubject \/ (\E l \in {"caravan", "skip"} : Relabel(l)) \/ Disarm \/ RunEnds
  PROVE  MutationInv'
<1>1. /\ subject \in SubjectShape /\ call \in CallShape /\ marks \in MarkShape /\ workflow \in RunShape /\ late \subseteq CallShape
      /\ todo \in Seq(Kinds)
  BY DEF MutationInv, MutationTypes
<1>2. /\ UNCHANGED <<call, late, todo>> /\ subject' \in SubjectShape /\ workflow' \in RunShape /\ marks' \in MarkShape
      /\ subject'.comments = subject.comments /\ subject'.state = subject.state
      /\ "force" \in subject'.labels <=> "force" \in subject.labels
      /\ marks'.stray = marks.stray /\ marks'.merged = marks.merged
      /\ marks'.disarmed \/ (marks'.disarmed = marks.disarmed /\ subject'.auto = subject.auto)
  <2>1. CASE PushSubject
    <3> DEFINE n == subject.head + 1
    <3>1. subject' = [subject EXCEPT !.head = n, !.checks = "running"] /\ UNCHANGED <<call, late, todo, workflow, marks>>
      BY <2>1 DEF PushSubject, Changes
    <3>2. n \in Nat
      BY <1>1 DEF SubjectShape
    <3> HIDE DEF n
    <3>3. \A c \in {"red", "green", "running"} : LET t == [subject EXCEPT !.head = n, !.checks = c] IN
            t \in SubjectShape /\ t.comments = subject.comments /\ t.state = subject.state /\ t.labels = subject.labels /\ t.auto = subject.auto
      BY <1>1, <3>2 DEF SubjectShape
    <3>4. "running" \in {"red", "green", "running"}
      OBVIOUS
    <3>5. subject' \in SubjectShape /\ subject'.comments = subject.comments /\ subject'.state = subject.state
          /\ subject'.labels = subject.labels /\ subject'.auto = subject.auto
      BY <3>1, <3>3, <3>4, Zenon
    <3> QED
      BY <1>1, <3>1, <3>5
  <2>2. CASE \E l \in {"caravan", "skip"} : Relabel(l)
    <3>1. PICK l \in {"caravan", "skip"} : Relabel(l)
      BY <2>2
    <3> DEFINE x == IF l \in subject.labels THEN subject.labels \ {l} ELSE subject.labels \cup {l}
    <3>2. subject' = [subject EXCEPT !.labels = x] /\ UNCHANGED <<call, late, todo, workflow, marks>>
      BY <3>1 DEF Relabel, Changes
    <3>3. x \in SUBSET {"caravan", "force", "parked", "skip"} /\ ("force" \in x <=> "force" \in subject.labels)
      <4>1. subject.labels \subseteq {"caravan", "force", "parked", "skip"} /\ l # "force" /\ l \in {"caravan", "force", "parked", "skip"}
        BY <1>1, <3>1 DEF SubjectShape
      <4> QED
        BY <4>1
    <3> HIDE DEF x
    <3>4. LET t == [subject EXCEPT !.labels = x] IN
            t \in SubjectShape /\ t.comments = subject.comments /\ t.state = subject.state /\ t.labels = x /\ t.auto = subject.auto
      BY <1>1, <3>3 DEF SubjectShape
    <3> QED
      BY <1>1, <3>2, <3>3, <3>4
  <2>3. CASE Disarm
    <3>1. /\ subject' = [subject EXCEPT !.auto = "off"] /\ UNCHANGED <<call, late, todo, workflow>>
          /\ marks' = [marks EXCEPT !.disarmed = TRUE]
      BY <2>3 DEF Disarm, Changes
    <3>2. \A x \in {"off", "squash"} : LET t == [subject EXCEPT !.auto = x] IN
            t \in SubjectShape /\ t.comments = subject.comments /\ t.state = subject.state /\ t.labels = subject.labels
      BY <1>1 DEF SubjectShape
    <3>3. "off" \in {"off", "squash"} /\ TRUE \in BOOLEAN
      OBVIOUS
    <3>4. subject' \in SubjectShape /\ subject'.comments = subject.comments /\ subject'.state = subject.state
          /\ subject'.labels = subject.labels
      BY <3>1, <3>2, <3>3, Zenon
    <3>5. marks' \in MarkShape /\ marks'.disarmed /\ marks'.stray = marks.stray /\ marks'.merged = marks.merged
      BY <1>1, <3>1, <3>3, DisarmedMark, Zenon
    <3> QED
      BY <1>1, <3>1, <3>4, <3>5
  <2>4. CASE RunEnds
    <3>1. PICK c \in {"failure", "success"} :
             /\ workflow' = [workflow EXCEPT !.conclusion = c, !.head = subject.head]
             /\ subject' = [subject EXCEPT !.checks = IF c = "success" THEN "green" ELSE "red"]
      BY <2>4 DEF RunEnds
    <3>2. UNCHANGED <<call, late, todo, marks>>
      BY <2>4 DEF RunEnds
    <3> DEFINE x == IF c = "success" THEN "green" ELSE "red"
    <3>3. subject' = [subject EXCEPT !.checks = x] /\ x \in {"red", "green", "running"}
      BY <3>1
    <3> HIDE DEF x
    <3>4. /\ subject' \in SubjectShape /\ subject'.comments = subject.comments /\ subject'.state = subject.state
          /\ subject'.labels = subject.labels /\ subject'.auto = subject.auto
      BY <1>1, <3>3 DEF SubjectShape
    <3>5. workflow' \in RunShape
      <4>1. subject.head \in Nat /\ c \in {"failure", "success", "running"}
        BY <1>1 DEF SubjectShape
      <4> DEFINE h == subject.head
      <4>2. workflow' = [workflow EXCEPT !.conclusion = c, !.head = h] /\ h \in Nat
        BY <3>1, <4>1
      <4> HIDE DEF h
      <4> QED
        BY <1>1, <4>1, <4>2 DEF RunShape
    <3> QED
      BY <1>1, <3>2, <3>4, <3>5
  <2> QED
    BY <2>1, <2>2, <2>3, <2>4
<1>3. (CallAgrees /\ ForceHeld /\ ForceAgrees /\ CommentsAgree /\ MergesReviewedHead)'
  BY <1>2, OthersKeep
<1>4. MutationTypes'
  BY <1>1, <1>2 DEF MutationTypes
<1> QED
  BY <1>3, <1>4 DEF MutationInv

\* The invariant of the mutation adapter: between its reads and its write an operation knows
\* of every change that matters, or the change is marked; the order of a transaction, the
\* search for a comment and the head of a merge rest on it.
THEOREM MutationInvariant == MutationSpec => []MutationInv
<1>1. MutationInit => MutationInv
  <2> SUFFICES ASSUME MutationInit
               PROVE  MutationInv
    OBVIOUS
  <2>1. PICK l \in {{"caravan"}, {"caravan", "force"}}, a \in {"off", "squash"}, d \in BOOLEAN :
          subject = [state |-> "open", head |-> 1, base |-> 0, labels |-> l, auto |-> a, checks |-> "red", comments |-> <<>>,
                     defined |-> d, admin |-> d]
    BY DEF MutationInit
  <2>2. l \in SUBSET {"caravan", "force", "parked", "skip"} /\ <<>> \in Seq(Comments)
    OBVIOUS
  <2>3. subject \in SubjectShape /\ subject.comments = <<>>
    BY <2>1, <2>2 DEF SubjectShape
  <2>4. workflow \in RunShape
    BY DEF MutationInit, RunShape
  <2>5. call = [kind |-> "none", left |-> <<>>, expected |-> subject, before |-> subject, run |-> workflow, fields |-> <<>>, result |-> "none"]
    BY DEF MutationInit
  <2>6. call \in CallShape /\ call.kind = "none" /\ call.left = <<>> /\ call.result = "none"
    <3>1. /\ <<>> \in Seq(CommandNames) /\ <<>> \in Seq(CommandNames \ {"comments"}) /\ <<>> \in Seq({"auto", "label"})
          /\ "none" \in Kinds \cup {"none"}
      OBVIOUS
    <3> QED
      BY <2>3, <2>4, <2>5, <3>1 DEF CallShape, CallRecord
  <2>7. marks \in MarkShape /\ marks.merged = <<>>
    <3>1. <<>> \in MergeMarks
      BY DEF MergeMarks
    <3> QED
      BY <3>1 DEF MutationInit, MarkShape
  <2>8. late = {} /\ todo \in Seq(Kinds)
    BY MutationBounds DEF MutationInit
  <2>9. MutationTypes
    BY <2>3, <2>4, <2>6, <2>7, <2>8 DEF MutationTypes
  <2>10. CallAgrees
    BY <2>6 DEF CallAgrees
  <2>11. ForceHeld /\ ForceAgrees
    BY <2>6 DEF ForceHeld, ForceAgrees
  <2>12. CommentsAgree
    BY <2>3, <2>6 DEF CommentsAgree
  <2>13. MergesReviewedHead
    BY <2>7 DEF MergesReviewedHead
  <2> QED
    BY <2>9, <2>10, <2>11, <2>12, <2>13 DEF MutationInv
<1>2. MutationInv /\ [MutationNext]_mutationVars => MutationInv'
  <2> SUFFICES ASSUME MutationInv, [MutationNext]_mutationVars
               PROVE  MutationInv'
    OBVIOUS
  <2>1. CASE BeginCall
    BY <2>1, BeginCallKeeps
  <2>2. CASE Verify
    BY <2>2, VerifyKeeps
  <2>3. CASE ReadPermission \/ ReadRun \/ ReadSuite
    BY <2>3, PlainReadsKeep
  <2>4. CASE ReadIds
    BY <2>4, ReadIdsKeeps
  <2>5. CASE ReadComments
    BY <2>5, ReadCommentsKeeps
  <2>6. CASE ReadBreaks
    BY <2>6, ReadBreaksKeeps
  <2>7. CASE MutatePullRequest
    BY <2>7, WriteKeeps
  <2>8. CASE WriteFails
    BY <2>8, WriteFailsKeeps
  <2>9. CASE Refetch
    BY <2>9, RefetchKeeps
  <2>10. CASE \E w \in late : ApplyLate(w)
    BY <2>10, ApplyLateKeeps
  <2>11. CASE PushSubject \/ (\E l \in {"caravan", "skip"} : Relabel(l)) \/ Disarm \/ RunEnds
    BY <2>11, OthersAct
  <2>12. CASE UNCHANGED mutationVars
    <3>1. UNCHANGED <<subject, workflow, call, late, todo, marks>>
      BY <2>12 DEF mutationVars
    <3>2. (CallAgrees /\ ForceHeld /\ ForceAgrees /\ CommentsAgree /\ MergesReviewedHead)'
      BY <3>1, OthersKeep
    <3>3. MutationTypes'
      BY <3>1 DEF MutationInv, MutationTypes
    <3> QED
      BY <3>2, <3>3 DEF MutationInv
  <2> QED
    BY <2>1, <2>2, <2>3, <2>4, <2>5, <2>6, <2>7, <2>8, <2>9, <2>10, <2>11, <2>12 DEF MutationNext
<1> QED
  BY <1>1, <1>2, PTL DEF MutationSpec

\* Safety of the mutation adapter, whatever is asked, changed and lost: the force label is
\* never left without auto-merge by a part of its transaction, a retried comment is posted
\* once, and an ordinary merge lands the reviewed head.
THEOREM MutationsAreSound == MutationSpec => []MutationSound
<1>1. MutationInv => MutationSound
  <2> SUFFICES ASSUME MutationInv
               PROVE  MutationSound
    OBVIOUS
  <2>1. ASSUME ~marks.stray
        PROVE  Cardinality({i \in DOMAIN subject.comments : subject.comments[i] = "marked"}) <= 1
    <3> DEFINE M == {i \in DOMAIN subject.comments : subject.comments[i] = "marked"}
    <3>1. \A i, j \in M : i = j
      BY <2>1 DEF MutationInv, CommentsAgree
    <3> HIDE DEF M
    <3>2. Cardinality(M) <= 1
      <4>1. CASE M = {}
        <5>1. Cardinality(M) = 0
          BY <4>1, FS_EmptySet
        <5> QED
          BY <5>1
      <4>2. CASE M # {}
        <5>1. PICK i \in M : TRUE
          BY <4>2
        <5>2. M = {i}
          BY <3>1, <5>1
        <5>3. Cardinality(M) = 1
          BY <5>2, FS_Singleton
        <5> QED
          BY <5>3
      <4> QED
        BY <4>1, <4>2
    <3> QED
      BY <3>2 DEF M
  <2>2. CommentsSound
    BY <2>1 DEF MutationInv, CommentsAgree, CommentsSound
  <2> QED
    BY <2>2 DEF MutationInv, MutationSound
<1> QED
  BY <1>1, MutationInvariant, PTL

-----------------------------------------------------------------------------
(* The journal and its telemetry.                                          *)

LogFiles == [Files -> Seq(Record)]

-----------------------------------------------------------------------------
(* The concatenation of the files.                                         *)

\* Every set of naturals that is not empty has a least element.
LEMMA LeastNatural ==
  ASSUME NEW T, T \subseteq Nat, T # {}
  PROVE  \E x \in T : \A y \in T : x <= y
<1> DEFINE R == OpToRel(<, Nat)
<1>1. IsWellFoundedOn(R, Nat)
  BY NatLessThanWellFounded
<1>2. PICK x \in T : \A y \in T : <<y, x>> \notin R
  <2> HIDE DEF R
  <2> QED
    BY <1>1, WFMin
<1>3. \A y \in T : <<y, x>> \in R <=> y < x
  BY DEF OpToRel
<1> HIDE DEF R
<1>4. \A y \in T : ~(y < x)
  BY <1>2, <1>3
<1>5. x \in Nat /\ \A y \in T : y \in Nat
  OBVIOUS
<1> QED
  BY <1>4, <1>5

\* The recursive definition of Joined has a solution: by extending one for the files
\* 0 .. n - 1 to the next file.
LEMMA JoinedExists == ASSUME NEW f PROVE \E from : from = [i \in Files |-> JoinedAt(f, i, from)]
<1> DEFINE Upto(g, n) == g = [i \in 0 .. n |-> JoinedAt(f, i, g)]
           T == {n \in Files : ~\E g : Upto(g, n)}
<1>0. MaxArchives \in Nat /\ Files = 0 .. MaxArchives
  BY BoundsAssumption DEF Files
<1>1. T = {}
  <2> SUFFICES ASSUME T # {} PROVE FALSE
    OBVIOUS
  <2>1. PICK n \in T : \A m \in T : n <= m
    <3>1. T \subseteq Nat
      BY <1>0
    <3> HIDE DEF T
    <3> QED
      BY <3>1, LeastNatural
  <2>2. n \in Nat /\ n <= MaxArchives /\ ~\E g : Upto(g, n)
    BY <1>0
  <2>3. n # 0
    <3> SUFFICES ASSUME n = 0 PROVE FALSE
      OBVIOUS
    <3> DEFINE g == [i \in 0 .. 0 |-> f[0]]
    <3>1. \A i \in 0 .. 0 : JoinedAt(f, i, g) = f[0]
      BY DEF JoinedAt
    <3>2. Upto(g, 0)
      BY <3>1
    <3> HIDE DEF g, Upto
    <3> QED
      BY <2>2, <3>2
  <2>4. PICK h : Upto(h, n - 1)
    <3>1. n - 1 \in Files /\ ~(n <= n - 1)
      BY <1>0, <2>2, <2>3
    <3> QED
      BY <2>1, <3>1
  <2> DEFINE g == [i \in 0 .. n |-> IF i = n THEN JoinedAt(f, n, h) ELSE h[i]]
  <2>5. ASSUME NEW i \in 0 .. n PROVE JoinedAt(f, i, g) = JoinedAt(f, i, h)
    <3>1. CASE i = 0
      BY <3>1 DEF JoinedAt
    <3>2. CASE i # 0
      <4>1. g[i - 1] = h[i - 1]
        BY <2>2, <3>2
      <4> HIDE DEF g
      <4> QED
        BY <4>1 DEF JoinedAt
    <3> QED
      BY <3>1, <3>2
  <2>6. \A i \in 0 .. n : g[i] = JoinedAt(f, i, h)
    <3>1. \A i \in 0 .. n - 1 : h[i] = JoinedAt(f, i, h)
      BY <2>4
    <3>2. \A i \in 0 .. n : i = n \/ i \in 0 .. n - 1
      BY <2>2
    <3> QED
      BY <3>1, <3>2
  <2>7. Upto(g, n)
    <3>1. \A i \in 0 .. n : g[i] = JoinedAt(f, i, g)
      BY <2>5, <2>6
    <3>2. g = [i \in 0 .. n |-> g[i]]
      OBVIOUS
    <3> HIDE DEF g
    <3> QED
      BY <3>1, <3>2
  <2> HIDE DEF Upto, g
  <2> QED
    BY <2>2, <2>7
<1>2. \E g : Upto(g, MaxArchives)
  BY <1>0, <1>1
<1> QED
  BY <1>0, <1>2

LEMMA JoinedEquation == ASSUME NEW f, NEW i \in Files PROVE Joined(f)[i] = IF i = 0 THEN f[0] ELSE f[i] \o Joined(f)[i - 1]
<1>1. Joined(f) = CHOOSE from : from = [j \in Files |-> JoinedAt(f, j, from)]
  BY DEF Joined
<1>2. Joined(f) = [j \in Files |-> JoinedAt(f, j, Joined(f))]
  BY <1>1, JoinedExists
<1> HIDE DEF Joined
<1>3. Joined(f)[i] = JoinedAt(f, i, Joined(f))
  BY <1>2
<1> QED
  BY <1>3 DEF JoinedAt

LEMMA FilesFacts == MaxArchives \in Nat /\ 0 \in Files /\ MaxArchives \in Files
                    /\ (\A i \in Files : i \in Nat /\ i <= MaxArchives) /\ \A i \in Files : i # 0 => i - 1 \in Files
BY BoundsAssumption DEF Files

\* A property of the concatenations that the next file preserves holds of all of them; the
\* four lemmas below use this with their own property, by least counterexample.
LEMMA LeastFile == ASSUME NEW T, T \subseteq Files, T # {} PROVE \E i \in T : i # 0 => i - 1 \in Files \ T
<1>1. T \subseteq Nat
  BY FilesFacts
<1>2. PICK i \in T : \A j \in T : i <= j
  BY <1>1, LeastNatural
<1>3. i # 0 => i - 1 \in Files /\ ~(i <= i - 1)
  BY FilesFacts
<1> QED
  BY <1>2, <1>3

LEMMA JoinedType == ASSUME NEW f \in LogFiles, NEW i \in Files PROVE Joined(f)[i] \in Seq(Record)
<1> DEFINE T == {j \in Files : Joined(f)[j] \notin Seq(Record)}
<1> SUFFICES ASSUME T # {} PROVE FALSE
  OBVIOUS
<1>1. PICK j \in T : j # 0 => j - 1 \in Files \ T
  <2> HIDE DEF T
  <2>1. T \subseteq Files
    BY DEF T
  <2> QED
    BY <2>1, LeastFile
<1>2. f[j] \in Seq(Record) /\ f[0] \in Seq(Record) /\ j \in Files
  BY FilesFacts DEF LogFiles
<1>3. j # 0 => Joined(f)[j - 1] \in Seq(Record)
  BY <1>1
<1>4. Joined(f)[j] \in Seq(Record)
  BY <1>2, <1>3, JoinedEquation, ConcatProperties
<1> QED
  BY <1>4

LEMMA JoinedEmpty == ASSUME NEW i \in Files PROVE Joined([j \in Files |-> <<>>])[i] = <<>>
<1> DEFINE f == [j \in Files |-> <<>>]
           T == {j \in Files : Joined(f)[j] # <<>>}
<1> SUFFICES ASSUME T # {} PROVE FALSE
  OBVIOUS
<1>1. PICK j \in T : j # 0 => j - 1 \in Files \ T
  <2> HIDE DEF T
  <2>1. T \subseteq Files
    BY DEF T
  <2> QED
    BY <2>1, LeastFile
<1>2. f[j] = <<>> /\ f[0] = <<>> /\ j \in Files
  BY FilesFacts
<1> HIDE DEF f
<1>3. j # 0 => Joined(f)[j - 1] = <<>>
  BY <1>1
<1>4. Joined(f)[j] = <<>>
  <2>1. <<>> \o <<>> = <<>>
    BY EmptySeq, ConcatEmptySeq
  <2> QED
    BY <1>2, <1>3, <2>1, JoinedEquation
<1> QED
  BY <1>4

\* Files that agree below i have the same concatenation there.
LEMMA JoinedSame == ASSUME NEW f, NEW g, NEW i \in Files, \A j \in 0 .. i : f[j] = g[j] PROVE Joined(f)[i] = Joined(g)[i]
<1> DEFINE T == {j \in Files : j <= i /\ Joined(f)[j] # Joined(g)[j]}
<1> SUFFICES ASSUME T # {} PROVE FALSE
  BY FilesFacts
<1>1. PICK j \in T : j # 0 => j - 1 \in Files \ T
  <2> HIDE DEF T
  <2>1. T \subseteq Files
    BY DEF T
  <2> QED
    BY <2>1, LeastFile
<1>2. j \in Files /\ j \in 0 .. i /\ 0 \in 0 .. i
  BY FilesFacts
<1>3. j # 0 => Joined(f)[j - 1] = Joined(g)[j - 1]
  BY <1>1, <1>2, FilesFacts
<1> QED
  BY <1>2, <1>3, JoinedEquation
\* The active file is part of every concatenation.
LEMMA JoinedLength == ASSUME NEW f \in LogFiles, NEW i \in Files PROVE Len(f[0]) <= Len(Joined(f)[i])
<1> DEFINE T == {j \in Files : ~(Len(f[0]) <= Len(Joined(f)[j]))}
<1> SUFFICES ASSUME T # {} PROVE FALSE
  OBVIOUS
<1>1. PICK j \in T : j # 0 => j - 1 \in Files \ T
  <2> HIDE DEF T
  <2>1. T \subseteq Files
    BY DEF T
  <2> QED
    BY <2>1, LeastFile
<1>2. j \in Files /\ f[0] \in Seq(Record) /\ f[j] \in Seq(Record) /\ Len(f[0]) \in Nat /\ Len(f[j]) \in Nat
  BY FilesFacts, LenProperties DEF LogFiles
<1>3. CASE j = 0
  BY <1>2, <1>3, JoinedEquation
<1>4. CASE j # 0
  <2>1. Joined(f)[j - 1] \in Seq(Record) /\ Len(Joined(f)[j - 1]) \in Nat /\ Len(f[0]) <= Len(Joined(f)[j - 1])
    BY <1>1, <1>4, JoinedType, LenProperties
  <2>2. Joined(f)[j] = f[j] \o Joined(f)[j - 1]
    BY <1>2, <1>4, JoinedEquation
  <2>3. Len(Joined(f)[j]) = Len(f[j]) + Len(Joined(f)[j - 1])
    BY <1>2, <2>1, <2>2, ConcatProperties
  <2>4. \A a, b, c \in Nat : a <= c => a <= b + c
    OBVIOUS
  <2>5. Len(f[0]) <= Len(Joined(f)[j])
    BY <1>2, <2>1, <2>3, <2>4
  <2> QED
    BY <2>5
<1> QED
  BY <1>3, <1>4

\* ... and files that agree above i, if the concatenations at i do.
LEMMA JoinedAbove ==
  ASSUME NEW f, NEW g, NEW i \in Files, Joined(f)[i] = Joined(g)[i], \A j \in Files : j > i => f[j] = g[j]
  PROVE  \A k \in Files : k >= i => Joined(f)[k] = Joined(g)[k]
<1> DEFINE T == {j \in Files : j >= i /\ Joined(f)[j] # Joined(g)[j]}
<1> SUFFICES ASSUME T # {} PROVE FALSE
  OBVIOUS
<1>1. PICK j \in T : j # 0 => j - 1 \in Files \ T
  <2> HIDE DEF T
  <2>1. T \subseteq Files
    BY DEF T
  <2> QED
    BY <2>1, LeastFile
<1>2. j \in Files /\ j >= i /\ j \in Nat /\ i \in Nat
  BY FilesFacts
<1>3. j # i
  OBVIOUS
<1>4. j # 0 /\ j - 1 >= i /\ j > i
  BY <1>2, <1>3
<1>5. Joined(f)[j - 1] = Joined(g)[j - 1] /\ f[j] = g[j]
  BY <1>1, <1>2, <1>4, FilesFacts
<1> QED
  BY <1>2, <1>4, <1>5, JoinedEquation

\* write_all: the new line is the last one.
LEMMA JoinedAppend ==
  ASSUME NEW f \in LogFiles, NEW r \in Record, NEW i \in Files
  PROVE  Joined([f EXCEPT ![0] = Append(f[0], r)])[i] = Append(Joined(f)[i], r)
<1> DEFINE g == [f EXCEPT ![0] = Append(f[0], r)]
<1>1. g[0] = Append(f[0], r) /\ \A j \in Files : j # 0 => g[j] = f[j]
  BY FilesFacts DEF LogFiles
<1> HIDE DEF g
<1> DEFINE T == {j \in Files : Joined(g)[j] # Append(Joined(f)[j], r)}
<1> SUFFICES ASSUME T # {} PROVE FALSE
  BY DEF g
<1>2. PICK j \in T : j # 0 => j - 1 \in Files \ T
  <2> HIDE DEF T
  <2>1. T \subseteq Files
    BY DEF T
  <2> QED
    BY <2>1, LeastFile
<1>3. CASE j = 0
  BY <1>1, <1>3, JoinedEquation, FilesFacts
<1>4. CASE j # 0
  <2> DEFINE a == f[j]  b == Joined(f)[j - 1]
  <2>0. a \in Seq(Record) /\ b \in Seq(Record)
    BY <1>2, <1>4, JoinedType DEF LogFiles
  <2>2. Joined(f)[j] = a \o b /\ Joined(g)[j] = a \o Append(b, r)
    BY <1>1, <1>2, <1>4, JoinedEquation
  <2> HIDE DEF a, b
  <2>1. a \o b \in Seq(Record) /\ <<r>> \in Seq(Record)
    BY <2>0, ConcatProperties
  <2>3. a \o Append(b, r) = a \o (b \o <<r>>) /\ Append(a \o b, r) = (a \o b) \o <<r>>
    BY <2>0, <2>1, AppendIsConcat
  <2>4. (a \o b) \o <<r>> = a \o (b \o <<r>>)
    BY <2>0, <2>1, ConcatAssociative
  <2> QED
    BY <1>2, <2>2, <2>3, <2>4
<1> QED
  BY <1>3, <1>4

\* A rename to a file that is empty, or absent, moves no line.
LEMMA JoinedShift ==
  ASSUME NEW f \in LogFiles, NEW i \in Files, i # 0, f[i] = <<>>
  PROVE  Joined([f EXCEPT ![i] = f[i - 1], ![i - 1] = <<>>])[MaxArchives] = Joined(f)[MaxArchives]
<1> DEFINE h == i - 1
           g == [f EXCEPT ![i] = f[h], ![h] = <<>>]
<1>0. h \in Files /\ h # i /\ i \in Nat /\ h \in Nat /\ h = i - 1
  BY FilesFacts
<1> HIDE DEF h
<1>1. g[i] = f[h] /\ g[h] = <<>> /\ \A j \in Files : j # i /\ j # h => g[j] = f[j]
  BY <1>0 DEF LogFiles
<1> HIDE DEF g
<1>2. Joined(f)[i] = <<>> \o Joined(f)[h] /\ Joined(g)[i] = f[h] \o Joined(g)[h]
  BY <1>0, <1>1, JoinedEquation
<1>3. Joined(f)[h] \in Seq(Record) /\ f[h] \in Seq(Record)
  BY <1>0, JoinedType DEF LogFiles
<1>4. Joined(g)[i] = Joined(f)[i]
  <2>1. CASE h = 0
    <3>1. Joined(g)[h] = <<>> /\ Joined(f)[h] = f[h]
      BY <1>0, <1>1, <2>1, JoinedEquation
    <3> QED
      BY <1>2, <1>3, <3>1, ConcatEmptySeq
  <2>2. CASE h # 0
    <3> DEFINE k == h - 1
    <3>0. k \in Files /\ k = h - 1
      BY <1>0, <2>2, FilesFacts
    <3>1. \A j \in 0 .. k : g[j] = f[j]
      BY <1>0, <1>1, <3>0, BoundsAssumption DEF Files
    <3> HIDE DEF k
    <3>2. Joined(g)[k] = Joined(f)[k] /\ Joined(f)[k] \in Seq(Record)
      BY <3>0, <3>1, JoinedSame, JoinedType
    <3>3. Joined(g)[h] = <<>> \o Joined(g)[k] /\ Joined(f)[h] = f[h] \o Joined(f)[k]
      BY <1>0, <1>1, <2>2, <3>0, JoinedEquation
    <3> QED
      BY <1>2, <1>3, <3>2, <3>3, ConcatEmptySeq
  <2> QED
    BY <2>1, <2>2
<1>5. \A j \in Files : j > i => g[j] = f[j]
  BY <1>0, <1>1, FilesFacts
<1>6. MaxArchives \in Files /\ MaxArchives >= i
  BY FilesFacts
<1>7. Joined(g)[MaxArchives] = Joined(f)[MaxArchives]
  BY <1>4, <1>5, <1>6, JoinedAbove
<1> QED
  BY <1>7 DEF g, h

\* The removal of the oldest file drops its lines from the start.
LEMMA JoinedDrop ==
  ASSUME NEW f \in LogFiles
  PROVE  LET s == Joined(f)[MaxArchives]
             n == Len(f[MaxArchives])
         IN  /\ n \in 0 .. Len(s)
             /\ Joined([f EXCEPT ![MaxArchives] = <<>>])[MaxArchives] = SubSeq(s, n + 1, Len(s))
             /\ MaxArchives > 0 => n + Len(f[0]) <= Len(s)
<1> DEFINE M == MaxArchives
           g == [f EXCEPT ![M] = <<>>]
           s == Joined(f)[M]
           n == Len(f[M])
<1>0. M \in Files /\ M \in Nat
  BY FilesFacts
<1>1. g[M] = <<>> /\ (\A j \in Files : j # M => g[j] = f[j])
  BY <1>0 DEF LogFiles
<1>2. f[M] \in Seq(Record) /\ f[0] \in Seq(Record) /\ n \in Nat /\ s \in Seq(Record) /\ Len(s) \in Nat /\ Len(f[0]) \in Nat
  <2>1. f[M] \in Seq(Record) /\ f[0] \in Seq(Record) /\ s \in Seq(Record)
    BY <1>0, JoinedType, FilesFacts DEF LogFiles
  <2> QED
    BY <2>1, LenProperties
<1> HIDE DEF g
<1>3. CASE M = 0
  <2>1. s = f[0] /\ Joined(g)[M] = <<>>
    BY <1>0, <1>1, <1>3, JoinedEquation
  <2>2. SubSeq(s, n + 1, Len(s)) = <<>>
    BY <1>2, <1>3, <2>1, SubSeqEmpty
  <2>3. n \in 0 .. Len(s) /\ ~(M > 0)
    BY <1>2, <1>3, <2>1
  <2> HIDE DEF n, s
  <2> QED
    BY <2>1, <2>2, <2>3 DEF g, n, s
<1>4. CASE M # 0
  <2> DEFINE k == M - 1
             t == Joined(f)[k]
  <2>0. k \in Files /\ k = M - 1 /\ k \in Nat
    BY <1>0, <1>4, FilesFacts
  <2>1. \A j \in 0 .. k : g[j] = f[j]
    BY <1>0, <1>1, <2>0, BoundsAssumption DEF Files
  <2> HIDE DEF k
  <2>2. t \in Seq(Record) /\ Len(t) \in Nat
    BY <2>0, JoinedType, LenProperties
  <2>3. s = f[M] \o t /\ Joined(g)[M] = <<>> \o Joined(g)[k] /\ Joined(g)[k] = t
    BY ZenonT(40), <1>0, <1>1, <1>4, <2>0, <2>1, JoinedEquation, JoinedSame
  <2>4. Joined(g)[M] = t
    BY <2>2, <2>3, ConcatEmptySeq
  <2>5. Len(s) = n + Len(t)
    BY <1>2, <2>2, <2>3, ConcatProperties
  <2>6. Len(f[0]) <= Len(t)
    BY <2>0, JoinedLength
  <2> HIDE DEF t, s
  <2>7. SubSeq(s, n + 1, Len(s)) = t
    <3>1. CASE Len(t) = 0
      <4>1. t = <<>>
        BY <2>2, <3>1, EmptySeq
      <4> QED
        BY <1>2, <2>5, <3>1, <4>1, SubSeqEmpty
    <3>2. CASE Len(t) # 0
      <4>1. n + 1 \in Len(f[M]) + 1 .. Len(f[M]) + Len(t) /\ n + Len(t) \in Len(f[M]) + 1 .. Len(f[M]) + Len(t)
        BY <1>2, <2>2, <3>2
      <4>2. SubSeq(f[M] \o t, n + 1, n + Len(t)) = SubSeq(t, (n + 1) - n, (n + Len(t)) - n)
        BY <1>2, <2>2, <4>1, SubSeqOfConcat2
      <4>3. (n + 1) - n = 1 /\ (n + Len(t)) - n = Len(t)
        BY <1>2, <2>2
      <4> QED
        BY <2>2, <2>3, <2>5, <4>2, <4>3, SubSeqFull
    <3> QED
      BY <3>1, <3>2
  <2>8. n \in 0 .. Len(s) /\ n + Len(f[0]) <= Len(s)
    BY <1>2, <2>2, <2>5, <2>6
  <2> QED
    BY <2>4, <2>7, <2>8 DEF g, s
<1> QED
  BY <1>3, <1>4

\* What a suffix and a longer log contain.
LEMMA SuffixContains ==
  ASSUME NEW s \in Seq(Record), NEW n \in 0 .. Len(s), NEW r, Contains(SubSeq(s, n + 1, Len(s)), r) PROVE Contains(s, r)
<1> DEFINE t == SubSeq(s, n + 1, Len(s))
<1>0. Len(s) \in Nat /\ n \in Nat
  BY LenProperties
<1>1. Len(t) = Len(s) - n /\ \A i \in 1 .. Len(s) - n : t[i] = s[n + i]
  BY <1>0
<1>2. PICK i \in 1 .. Len(t) : t[i] = r
  BY DEF Contains
<1>3. n + i \in 1 .. Len(s) /\ s[n + i] = r
  BY SMTT(30), <1>0, <1>1, <1>2
<1> QED
  BY <1>3 DEF Contains

LEMMA AppendContains ==
  ASSUME NEW s \in Seq(Record), NEW r \in Record, NEW x PROVE Contains(Append(s, r), x) <=> Contains(s, x) \/ x = r
<1> DEFINE t == Append(s, r)
<1>0. Len(s) \in Nat /\ Len(t) = Len(s) + 1 /\ t[Len(s) + 1] = r /\ \A i \in 1 .. Len(s) : t[i] = s[i]
  BY LenProperties, AppendProperties
<1>1. \A i : i \in 1 .. Len(t) <=> i \in 1 .. Len(s) \/ i = Len(s) + 1
  BY <1>0
<1> HIDE DEF t
<1>2. Contains(t, x) <=> Contains(s, x) \/ x = r
  BY <1>0, <1>1 DEF Contains
<1> QED
  BY <1>2 DEF t

-----------------------------------------------------------------------------
(* The inductive invariant.                                                *)

Locked == {"dedup", "rotate", "shift", "write", "written"}
Appending == Locked \cup {"lock"}

WriterType ==
  [pc : {"idle", "next", "lock", "dedup", "rotate", "shift", "write", "written", "hook"},
   queue : Seq(Events), journaled : SUBSET Events, rec : Record, index : Files, failed : BOOLEAN]

LogType ==
  /\ file \in LogFiles /\ part \in Part /\ lock \in Writers \cup {Nobody}
  /\ writer \in [Writers -> WriterType] /\ written \in Seq(Record) /\ faults \in Nat

\* What holds of writer w in state v: in the critical section it has the lock and there is
\* no torn tail; what it is about to write is not there yet; the archive it renames to is
\* empty; what it has journaled is written, except the event it is busy with.
WriterOK(w, v) ==
  /\ v.pc \in Locked => lock = w /\ part = NoPart
  /\ v.pc \in Appending \cup {"hook"} => v.queue # <<>>
  /\ v.pc \in Appending /\ v.rec.type = "event" => v.rec = EventRecord(Head(v.queue))
  /\ v.pc = "rotate" => file[0] # <<>>
  /\ v.pc = "shift" => v.index # 0 /\ file[v.index] = <<>>
  /\ v.pc \in {"rotate", "shift", "write"} => ~Known(v.rec)
  /\ v.pc = "written" /\ v.rec.type = "event" => Contains(written, v.rec)
  /\ v.pc = "hook" => Contains(written, EventRecord(Head(v.queue)))
  /\ \A e \in v.journaled : Contains(written, EventRecord(e)) \/ (v.pc \in Appending /\ v.rec = EventRecord(e))

LinesWritten == \A r \in Record : Contains(Lines, r) => Contains(written, r)

LogInv == LogType /\ (\A w \in Writers : WriterOK(w, writer[w])) /\ LinesWritten /\ HookAfterJournal

-----------------------------------------------------------------------------
(* Steps of the writers.                                                   *)

\* Writer w takes a step to v; what it changes of the files it changes under the lock, and
\* nothing that was written is forgotten.
LEMMA WriterStep ==
  ASSUME LogInv, NEW w \in Writers, NEW v \in WriterType, writer' = [writer EXCEPT ![w] = v],
         file' \in LogFiles, part' \in Part, lock' \in Writers \cup {Nobody}, written' \in Seq(Record), faults' \in Nat,
         UNCHANGED <<file, part, lock>> \/ lock \in {w, Nobody},
         \A r \in Record : Contains(written, r) => Contains(written', r),
         LinesWritten', HookAfterJournal', WriterOK(w, v)'
  PROVE  LogInv'
<1>1. writer' \in [Writers -> WriterType] /\ writer'[w] = v /\ \A u \in Writers : u # w => writer'[u] = writer[u]
  BY DEF LogInv, LogType
<1>2. LogType'
  BY <1>1 DEF LogType
<1>3. ASSUME NEW u \in Writers PROVE WriterOK(u, writer[u])'
  <2>1. CASE u = w
    BY <1>1, <2>1 DEF WriterOK
  <2>2. CASE u # w
    <3>0. PICK x \in WriterType : x = writer[u]
      BY DEF LogInv, LogType
    <3>1. WriterOK(u, x) /\ writer'[u] = x
      <4>1. WriterOK(u, writer[u])
        BY DEF LogInv
      <4> QED
        BY <1>1, <2>2, <3>0, <4>1
    <3>2. x.rec \in Record /\ x.journaled \subseteq Events /\ x.queue \in Seq(Events)
      BY <3>1 DEF WriterType
    <3>3. \A e \in Events : EventRecord(e) \in Record
      BY BoundsAssumption DEF EventRecord, Record
    <3>4. x.pc \in Locked => UNCHANGED <<file, part, lock>> /\ lock = u
      BY <2>2, <3>1, NobodyAssumption DEF WriterOK
    <3>5. x.pc \in Locked => (Known(x.rec)' <=> Known(x.rec))
      <4>1. file' = file => Lines' = Lines
        BY DEF Lines
      <4> QED
        BY <3>4, <4>1 DEF Known
    <3>6. x.queue # <<>> => Head(x.queue) \in Events
      BY <3>2, HeadTailProperties
    <3>7. WriterOK(u, x)'
      BY <3>1, <3>2, <3>3, <3>4, <3>5, <3>6 DEF WriterOK, Locked, Appending
    <3> QED
      BY <3>1, <3>7 DEF WriterOK
  <2> QED
    BY <2>1, <2>2
<1> QED
  BY <1>2, <1>3 DEF LogInv

\* A step that leaves the lines and the history alone.
LEMMA QuietLog ==
  ASSUME LogInv, NEW w \in Writers, NEW v \in WriterType, writer' = [writer EXCEPT ![w] = v],
         UNCHANGED <<file, written, hooked>>, part' \in Part, lock' \in Writers \cup {Nobody}, faults' \in Nat,
         UNCHANGED <<part, lock>> \/ lock \in {w, Nobody}, WriterOK(w, v)'
  PROVE  LogInv'
<1>1. file' \in LogFiles /\ written' \in Seq(Record)
  BY DEF LogInv, LogType
<1>2. LinesWritten'
  BY DEF LogInv, LinesWritten, Lines
<1>3. HookAfterJournal'
  BY DEF LogInv, HookAfterJournal
<1> QED
  BY <1>1, <1>2, <1>3, WriterStep

\* The types of what a writer's step reads.
LEMMA WriterTypes ==
  ASSUME LogInv, NEW w \in Writers
  PROVE  /\ writer \in [Writers -> WriterType] /\ writer[w] \in WriterType /\ WriterOK(w, writer[w])
         /\ file \in LogFiles /\ part \in Part /\ lock \in Writers \cup {Nobody} /\ written \in Seq(Record) /\ faults \in Nat
         /\ writer[w].rec \in Record /\ writer[w].queue \in Seq(Events) /\ writer[w].journaled \subseteq Events
         /\ writer[w].index \in Files /\ writer[w].failed \in BOOLEAN
         /\ writer[w].queue # <<>> => Current(w) \in Events /\ Tail(writer[w].queue) \in Seq(Events)
<1>1. writer[w] \in WriterType /\ WriterOK(w, writer[w])
  BY DEF LogInv, LogType
<1>2. writer[w].queue \in Seq(Events)
  BY <1>1 DEF WriterType
<1>3. writer[w].queue # <<>> => Current(w) \in Events /\ Tail(writer[w].queue) \in Seq(Events)
  BY <1>2, HeadTailProperties DEF Current
<1> QED
  BY <1>1, <1>3 DEF LogInv, LogType, WriterType

LEMMA EventRecordType == \A e \in Events : EventRecord(e) \in Record /\ EventRecord(e).type = "event"
BY BoundsAssumption DEF EventRecord, Record

LEMMA IdleType == IdleWriter \in WriterType /\ IdleWriter.pc = "idle" /\ IdleWriter.journaled = {} /\ IdleWriter.queue = <<>>
<1>1. EventRecord(CHOOSE e \in Events : TRUE) \in Record
  BY SetsAssumption, EventRecordType
<1> QED
  BY <1>1, FilesFacts DEF IdleWriter, WriterType

\* dispatch_events returns.
LEMMA ReturnInv ==
  ASSUME LogInv, NEW w \in Writers, Return(w), UNCHANGED <<file, written, hooked>>, part' \in Part,
         lock' \in Writers \cup {Nobody}, faults' \in Nat, UNCHANGED <<part, lock>> \/ lock \in {w, Nobody}
  PROVE  LogInv'
<1>1. WriterOK(w, IdleWriter)'
  <2>1. PICK v : v = IdleWriter
    OBVIOUS
  <2>2. WriterOK(w, v)'
    BY <2>1, IdleType DEF WriterOK, Locked, Appending
  <2> QED
    BY <2>1, <2>2 DEF WriterOK, IdleWriter
<1> QED
  BY <1>1, IdleType, QuietLog DEF Return

LEMMA DispatchInv == ASSUME LogInv, NEW w \in Writers, Dispatch(w) PROVE LogInv'
<1>1. PICK q \in Batches : writer' = [writer EXCEPT ![w] = [IdleWriter EXCEPT !.pc = "next", !.queue = q]]
  BY DEF Dispatch
<1>2. UNCHANGED <<file, part, lock, written, hooked, faults>>
  BY DEF Dispatch, journal, history
<1>3. PICK v : v = [IdleWriter EXCEPT !.pc = "next", !.queue = q]
  OBVIOUS
<1>4. q \in Seq(Events)
  BY SetsAssumption
<1>5. v \in WriterType /\ v.pc = "next" /\ v.journaled = {}
  BY <1>3, <1>4, IdleType DEF WriterType
<1>6. WriterOK(w, v)'
  BY <1>5 DEF WriterOK, Locked, Appending
<1>7. part' \in Part /\ lock' \in Writers \cup {Nobody} /\ faults' \in Nat
  BY <1>2, WriterTypes
<1> QED
  BY <1>1, <1>2, <1>3, <1>5, <1>6, <1>7, QuietLog

LEMMA NextEventInv == ASSUME LogInv, NEW w \in Writers, NextEvent(w) PROVE LogInv'
<1>0. writer[w].pc = "next" /\ UNCHANGED <<file, part, lock, written, hooked, faults>>
  BY DEF NextEvent, At, journal, history, bounds
<1>1. part' \in Part /\ lock' \in Writers \cup {Nobody} /\ faults' \in Nat
  BY <1>0, WriterTypes
<1>2. CASE Return(w)
  BY <1>0, <1>1, <1>2, ReturnInv
<1>3. \A e \in writer[w].journaled : Contains(written, EventRecord(e))
  BY <1>0, WriterTypes DEF WriterOK, Appending, Locked
<1>4. CASE writer[w].queue # <<>> /\ Current(w) \in writer[w].journaled /\ Goto(w, "hook")
  <2>1. PICK v : v = [writer[w] EXCEPT !.pc = "hook"]
    OBVIOUS
  <2>2. v \in WriterType /\ v.pc = "hook" /\ v.journaled = writer[w].journaled /\ v.queue = writer[w].queue
    BY <2>1, WriterTypes DEF WriterType
  <2>3. writer' = [writer EXCEPT ![w] = v]
    BY <1>4, <2>1, WriterTypes DEF Goto
  <2>4. WriterOK(w, v)'
    BY <1>0, <1>3, <1>4, <2>2 DEF WriterOK, Locked, Appending, Current
  <2> QED
    BY <1>0, <1>1, <2>2, <2>3, <2>4, QuietLog
<1>5. CASE /\ writer[w].queue # <<>>
           /\ writer' = [writer EXCEPT ![w].pc = "lock", ![w].rec = EventRecord(Current(w)),
                                       ![w].journaled = @ \cup {Current(w)}]
  <2>0. PICK e \in Events : e = Current(w)
    BY <1>5, WriterTypes
  <2>1. PICK v : v = [writer[w] EXCEPT !.pc = "lock", !.rec = EventRecord(e), !.journaled = @ \cup {e}]
    OBVIOUS
  <2>2. v \in WriterType /\ v.pc = "lock" /\ v.journaled = writer[w].journaled \cup {e} /\ v.queue = writer[w].queue
        /\ v.rec = EventRecord(e)
    BY <2>1, WriterTypes, EventRecordType DEF WriterType
  <2>3. writer' = [writer EXCEPT ![w] = v]
    BY <1>5, <2>0, <2>1, WriterTypes
  <2>4. WriterOK(w, v)'
    BY <1>0, <1>3, <1>5, <2>0, <2>2 DEF WriterOK, Locked, Appending, Current
  <2> QED
    BY <1>0, <1>1, <2>2, <2>3, <2>4, QuietLog
<1> QED
  BY <1>2, <1>4, <1>5 DEF NextEvent

LEMMA LockAndRecoverInv == ASSUME LogInv, NEW w \in Writers, LockAndRecover(w) PROVE LogInv'
<1>0. writer[w].pc = "lock" /\ lock = Nobody /\ lock' = w /\ part' = NoPart /\ Goto(w, "dedup")
      /\ UNCHANGED <<file, written, hooked, faults>>
  BY DEF LockAndRecover, At, Readable, history, bounds
<1>1. PICK v : v = [writer[w] EXCEPT !.pc = "dedup"]
  OBVIOUS
<1>2. v \in WriterType /\ v.pc = "dedup" /\ v.journaled = writer[w].journaled /\ v.queue = writer[w].queue /\ v.rec = writer[w].rec
  BY <1>1, WriterTypes DEF WriterType
<1>3. writer' = [writer EXCEPT ![w] = v]
  BY <1>0, <1>1, WriterTypes DEF Goto
<1>4. WriterOK(w, v)'
  BY <1>0, <1>2, WriterTypes DEF WriterOK, Locked, Appending
<1>5. part' \in Part /\ lock' \in Writers \cup {Nobody} /\ faults' \in Nat
  BY <1>0, WriterTypes DEF Part
<1> QED
  BY <1>0, <1>2, <1>3, <1>4, <1>5, QuietLog

\* The append has returned: what it appended is written.
LEMMA AppendedInv ==
  ASSUME LogInv, NEW w \in Writers, Appended(w), writer[w].pc \in Locked, UNCHANGED <<file, part, written, hooked, faults>>,
         writer[w].rec.type = "event" => Contains(written, writer[w].rec)
  PROVE  LogInv'
<1>0. lock' = Nobody /\ lock = w /\ writer[w].queue # <<>> /\ WriterOK(w, writer[w])
  BY WriterTypes DEF Appended, WriterOK, Appending
<1>1. part' \in Part /\ lock' \in Writers \cup {Nobody} /\ faults' \in Nat
  BY <1>0, WriterTypes
<1>2. \A e \in writer[w].journaled : Contains(written, EventRecord(e))
  BY <1>0, EventRecordType, WriterTypes DEF WriterOK
<1>3. CASE writer[w].rec.type = "event" /\ writer' = [writer EXCEPT ![w] = [writer[w] EXCEPT !.pc = "hook"]]
  <2>1. PICK v : v = [writer[w] EXCEPT !.pc = "hook"]
    OBVIOUS
  <2>2. v \in WriterType /\ v.pc = "hook" /\ v.journaled = writer[w].journaled /\ v.queue = writer[w].queue
    BY <2>1, WriterTypes DEF WriterType
  <2>3. Contains(written, EventRecord(Head(writer[w].queue)))
    BY <1>0, <1>3 DEF WriterOK, Appending
  <2>4. WriterOK(w, v)'
    BY <1>0, <1>2, <2>2, <2>3 DEF WriterOK, Locked, Appending
  <2> QED
    BY <1>0, <1>1, <1>3, <2>1, <2>2, <2>4, QuietLog
<1>4. CASE writer' = [writer EXCEPT ![w] = [writer[w] EXCEPT !.pc = "next", !.queue = Tail(@)]]
  <2>1. PICK v : v = [writer[w] EXCEPT !.pc = "next", !.queue = Tail(@)]
    OBVIOUS
  <2>2. v \in WriterType /\ v.pc = "next" /\ v.journaled = writer[w].journaled
    BY <1>0, <2>1, WriterTypes DEF WriterType
  <2>4. WriterOK(w, v)'
    BY <1>2, <2>2 DEF WriterOK, Locked, Appending
  <2> QED
    BY <1>0, <1>1, <1>4, <2>1, <2>2, <2>4, QuietLog
<1>5. CASE writer' = [writer EXCEPT ![w] = IdleWriter]
  BY <1>0, <1>1, <1>5, ReturnInv DEF Return
<1>6. writer[w] = writer[w] /\ writer \in [Writers -> WriterType]
  BY WriterTypes
<1> QED
  BY <1>3, <1>4, <1>5, <1>6 DEF Appended

LEMMA DeduplicateInv == ASSUME LogInv, NEW w \in Writers, Deduplicate(w) PROVE LogInv'
<1>0. writer[w].pc = "dedup" /\ Known(writer[w].rec) /\ Appended(w) /\ UNCHANGED <<file, part, written, hooked, faults>>
  BY DEF Deduplicate, At, history, bounds
<1>1. writer[w].pc \in Locked /\ Contains(written, writer[w].rec)
  BY <1>0, WriterTypes DEF Locked, Known, LogInv, LinesWritten
<1> QED
  BY <1>0, <1>1, AppendedInv

LEMMA UnlockInv == ASSUME LogInv, NEW w \in Writers, Unlock(w) PROVE LogInv'
<1>0. writer[w].pc = "written" /\ Appended(w) /\ UNCHANGED <<file, part, written, hooked, faults>>
  BY DEF Unlock, At, history, bounds
<1>1. writer[w].pc \in Locked /\ (writer[w].rec.type = "event" => Contains(written, writer[w].rec))
  BY <1>0, WriterTypes DEF Locked, WriterOK
<1> QED
  BY <1>0, <1>1, AppendedInv

LEMMA ProceedInv == ASSUME LogInv, NEW w \in Writers, Proceed(w) PROVE LogInv'
<1>0. writer[w].pc = "dedup" /\ ~Known(writer[w].rec) /\ Goto(w, IF Overflows THEN "rotate" ELSE "write")
      /\ UNCHANGED <<file, part, lock, written, hooked, faults>>
  BY DEF Proceed, At, journal, history, bounds
<1>1. PICK v : v = [writer[w] EXCEPT !.pc = IF Overflows THEN "rotate" ELSE "write"]
  OBVIOUS
<1>2. v \in WriterType /\ v.pc = (IF Overflows THEN "rotate" ELSE "write") /\ v.journaled = writer[w].journaled
      /\ v.queue = writer[w].queue /\ v.rec = writer[w].rec
  BY <1>1, WriterTypes DEF WriterType
<1>3. writer' = [writer EXCEPT ![w] = v]
  BY <1>0, <1>1, WriterTypes DEF Goto
<1>4. Overflows => file[0] # <<>>
  BY EmptySeq DEF Overflows
<1>5. WriterOK(w, v)'
  <2>1. ~Known(v.rec)'
    BY <1>0, <1>2 DEF Known, Lines
  <2> QED
    BY <1>0, <1>2, <1>4, <2>1, WriterTypes DEF WriterOK, Locked, Appending
<1>6. part' \in Part /\ lock' \in Writers \cup {Nobody} /\ faults' \in Nat
  BY <1>0, WriterTypes
<1> QED
  BY <1>0, <1>2, <1>3, <1>5, <1>6, QuietLog

LEMMA WriteTornInv == ASSUME LogInv, NEW w \in Writers, WriteTorn(w) PROVE LogInv'
<1>0. writer[w].pc = "write" /\ lock' = Nobody /\ Return(w) /\ faults' = faults + 1 /\ UNCHANGED <<file, written, hooked>>
      /\ \E kind \in {"torn", "whole"} : part' = <<kind, writer[w].rec>>
  BY DEF WriteTorn, At
<1>1. part' \in Part /\ lock' \in Writers \cup {Nobody} /\ faults' \in Nat /\ lock = w
  BY <1>0, WriterTypes DEF Part, WriterOK, Locked
<1> QED
  BY <1>0, <1>1, ReturnInv

LEMMA DieInv == ASSUME LogInv, NEW w \in Writers, Die(w) PROVE LogInv'
<1>0. lock' = (IF lock = w THEN Nobody ELSE lock) /\ Return(w) /\ faults' = faults + 1
      /\ UNCHANGED <<file, part, written, hooked>>
  BY DEF Die, history
<1>1. part' \in Part /\ lock' \in Writers \cup {Nobody} /\ faults' \in Nat
  BY <1>0, WriterTypes
<1> QED
  BY <1>0, <1>1, ReturnInv

LEMMA RunHookInv == ASSUME LogInv, NEW w \in Writers, RunHook(w) PROVE LogInv'
<1>0. writer[w].pc = "hook" /\ Now <= MaxClock /\ hooked' = hooked \cup {Current(w)}
      /\ UNCHANGED <<file, part, lock, written, faults>>
  BY DEF RunHook, At, journal, bounds
<1>1. PICK failed \in BOOLEAN :
        writer' = [writer EXCEPT ![w].pc = "lock", ![w].failed = failed, ![w].rec = Delivery(Current(w), Now)]
  BY DEF RunHook
<1>2. Current(w) \in Events /\ Contains(written, EventRecord(Current(w)))
      /\ \A e \in writer[w].journaled : Contains(written, EventRecord(e))
  BY <1>0, WriterTypes DEF WriterOK, Locked, Appending, Current
<1>3. PICK r \in Record : r = Delivery(Current(w), Now) /\ r.type = "hook_delivery"
  <2>1. Now \in 0 .. MaxClock
    BY <1>0, WriterTypes, LenProperties, BoundsAssumption DEF Now
  <2> DEFINE r == Delivery(Current(w), Now)
  <2>2. r \in Record /\ r.type = "hook_delivery"
    BY <1>2, <2>1 DEF Delivery, Record
  <2> HIDE DEF r
  <2> QED
    BY <2>2 DEF r
<1>4. PICK v : v = [writer[w] EXCEPT !.pc = "lock", !.failed = failed, !.rec = r]
  OBVIOUS
<1>5. v \in WriterType /\ v.pc = "lock" /\ v.journaled = writer[w].journaled /\ v.queue = writer[w].queue /\ v.rec = r
  BY <1>4, WriterTypes DEF WriterType
<1>6. writer' = [writer EXCEPT ![w] = v]
  BY <1>1, <1>3, <1>4, WriterTypes
<1>7. WriterOK(w, v)'
  BY <1>0, <1>2, <1>3, <1>5, WriterTypes DEF WriterOK, Locked, Appending
<1>8. LinesWritten'
  BY <1>0 DEF LogInv, LinesWritten, Lines
<1>9. HookAfterJournal'
  BY <1>0, <1>2 DEF LogInv, HookAfterJournal
<1>10. file' \in LogFiles /\ part' \in Part /\ lock' \in Writers \cup {Nobody} /\ written' \in Seq(Record) /\ faults' \in Nat
  BY <1>0, WriterTypes
<1> QED
  BY <1>0, <1>5, <1>6, <1>7, <1>8, <1>9, <1>10, WriterStep

LEMMA RemoveOldestInv == ASSUME LogInv, NEW w \in Writers, RemoveOldest(w) PROVE LogInv'
<1> DEFINE n == Len(file[MaxArchives])
<1>0. writer[w].pc = "rotate" /\ file' = [file EXCEPT ![MaxArchives] = <<>>]
      /\ writer' = [writer EXCEPT ![w].index = MaxArchives, ![w].pc = IF MaxArchives = 0 THEN "write" ELSE "shift"]
      /\ UNCHANGED <<part, lock, written, hooked, faults>>
  BY DEF RemoveOldest, At, history, bounds
<1>1. PICK v : v = [writer[w] EXCEPT !.index = MaxArchives, !.pc = IF MaxArchives = 0 THEN "write" ELSE "shift"]
  OBVIOUS
<1>2. v \in WriterType /\ v.pc = (IF MaxArchives = 0 THEN "write" ELSE "shift") /\ v.index = MaxArchives
      /\ v.journaled = writer[w].journaled /\ v.queue = writer[w].queue /\ v.rec = writer[w].rec
  BY <1>1, WriterTypes, FilesFacts DEF WriterType
<1>3. writer' = [writer EXCEPT ![w] = v]
  BY <1>0, <1>1, WriterTypes
<1>4. file' \in LogFiles /\ file'[MaxArchives] = <<>>
  BY <1>0, WriterTypes, FilesFacts, EmptySeq DEF LogFiles
<1>5. n \in 0 .. Len(Lines) /\ Lines' = SubSeq(Lines, n + 1, Len(Lines)) /\ Lines \in Seq(Record)
  BY <1>0, WriterTypes, JoinedDrop, JoinedType, FilesFacts DEF Lines
<1>6. \A r : Contains(Lines', r) => Contains(Lines, r)
  BY <1>5, SuffixContains
<1>7. LinesWritten'
  BY <1>0, <1>6 DEF LogInv, LinesWritten
<1>8. HookAfterJournal'
  BY <1>0 DEF LogInv, HookAfterJournal
<1>9. lock = w /\ part' \in Part /\ lock' \in Writers \cup {Nobody} /\ written' \in Seq(Record) /\ faults' \in Nat
  BY <1>0, WriterTypes DEF WriterOK, Locked
<1>10. ~Known(v.rec)'
  <2>1. ~Known(writer[w].rec)
    BY <1>0, WriterTypes DEF WriterOK
  <2> QED
    BY <1>2, <1>6, <2>1 DEF Known
<1>11. WriterOK(w, v)'
  BY <1>0, <1>2, <1>4, <1>9, <1>10, WriterTypes DEF WriterOK, Locked, Appending
<1> QED
  BY <1>0, <1>2, <1>3, <1>4, <1>7, <1>8, <1>9, <1>11, WriterStep

LEMMA ShiftInv == ASSUME LogInv, NEW w \in Writers, Shift(w) PROVE LogInv' /\ Lines' = Lines
<1> DEFINE i == writer[w].index
<1>0. writer[w].pc = "shift"
      /\ file' = (IF file[i - 1] = <<>> THEN file ELSE [file EXCEPT ![i] = file[i - 1], ![i - 1] = <<>>])
      /\ writer' = [writer EXCEPT ![w].index = i - 1, ![w].pc = IF i = 1 THEN "write" ELSE "shift"]
      /\ UNCHANGED <<part, lock, written, hooked, faults>>
  BY DEF Shift, At, history, bounds
<1>1. i \in Files /\ i # 0 /\ file[i] = <<>> /\ lock = w
  BY <1>0, WriterTypes DEF WriterOK, Locked
<1> HIDE DEF i
<1>2. PICK k \in Files : k = i - 1 /\ (i # 1 => k # 0) /\ k # i
  <2>1. i \in Nat /\ i - 1 \in Files
    BY <1>1, FilesFacts
  <2>2. (i # 1 => i - 1 # 0) /\ i - 1 # i
    BY <2>1
  <2> QED
    BY <2>1, <2>2
<1>3. PICK v : v = [writer[w] EXCEPT !.index = k, !.pc = IF i = 1 THEN "write" ELSE "shift"]
  OBVIOUS
<1>4. v \in WriterType /\ v.pc = (IF i = 1 THEN "write" ELSE "shift") /\ v.index = k
      /\ v.journaled = writer[w].journaled /\ v.queue = writer[w].queue /\ v.rec = writer[w].rec
  BY <1>3, WriterTypes DEF WriterType
<1>5. writer' = [writer EXCEPT ![w] = v]
  BY <1>0, <1>2, <1>3, WriterTypes
<1>6. file' \in LogFiles /\ file'[k] = <<>>
  BY <1>0, <1>1, <1>2, WriterTypes, EmptySeq DEF LogFiles
<1>7. Lines' = Lines
  BY <1>0, <1>1, WriterTypes, JoinedShift DEF Lines
<1>8. LinesWritten' /\ HookAfterJournal'
  BY <1>0, <1>7 DEF LogInv, LinesWritten, HookAfterJournal
<1>9. part' \in Part /\ lock' \in Writers \cup {Nobody} /\ written' \in Seq(Record) /\ faults' \in Nat
  BY <1>0, WriterTypes
<1>10. ~Known(v.rec)'
  <2>1. ~Known(writer[w].rec)
    BY <1>0, WriterTypes DEF WriterOK
  <2> QED
    BY <1>4, <1>7, <2>1 DEF Known
<1>11. WriterOK(w, v)'
  BY <1>0, <1>1, <1>2, <1>4, <1>6, <1>10, WriterTypes DEF WriterOK, Locked, Appending
<1>12. LogInv'
  BY <1>0, <1>1, <1>4, <1>5, <1>6, <1>8, <1>9, <1>11, WriterStep
<1> QED
  BY <1>7, <1>12

LEMMA WriteInv == ASSUME LogInv, NEW w \in Writers, Write(w) PROVE LogInv' /\ Lines' = Append(Lines, writer[w].rec)
<1>0. writer[w].pc = "write" /\ file' = [file EXCEPT ![0] = Append(file[0], writer[w].rec)]
      /\ written' = Append(written, writer[w].rec) /\ Goto(w, "written") /\ UNCHANGED <<part, lock, hooked, faults>>
  BY DEF Write, At, bounds
<1>1. PICK r \in Record : r = writer[w].rec
  BY WriterTypes
<1>2. PICK v : v = [writer[w] EXCEPT !.pc = "written"]
  OBVIOUS
<1>3. v \in WriterType /\ v.pc = "written" /\ v.journaled = writer[w].journaled /\ v.queue = writer[w].queue /\ v.rec = r
  BY <1>1, <1>2, WriterTypes DEF WriterType
<1>4. writer' = [writer EXCEPT ![w] = v]
  BY <1>0, <1>2, WriterTypes DEF Goto
<1>5. file[0] \in Seq(Record) /\ Lines \in Seq(Record) /\ written \in Seq(Record)
  BY WriterTypes, FilesFacts, JoinedType DEF Lines, LogFiles
<1>6. file' \in LogFiles /\ written' \in Seq(Record)
  <2>1. Append(file[0], r) \in Seq(Record) /\ Append(written, r) \in Seq(Record)
    BY <1>5, AppendProperties
  <2> QED
    BY <1>0, <1>1, <2>1, WriterTypes, FilesFacts DEF LogFiles
<1>7. Lines' = Append(Lines, r)
  BY <1>0, <1>1, WriterTypes, FilesFacts, JoinedAppend DEF Lines
<1>8. \A x : Contains(Lines', x) <=> Contains(Lines, x) \/ x = r
  BY <1>1, <1>5, <1>7, AppendContains
<1>9. \A x : Contains(written', x) <=> Contains(written, x) \/ x = r
  BY <1>0, <1>1, <1>5, AppendContains
<1>10. LinesWritten' /\ HookAfterJournal'
  BY <1>0, <1>8, <1>9 DEF LogInv, LinesWritten, HookAfterJournal
<1>11. lock = w /\ part' \in Part /\ lock' \in Writers \cup {Nobody} /\ faults' \in Nat
  BY <1>0, WriterTypes DEF WriterOK, Locked
<1>12. WriterOK(w, v)'
  BY <1>0, <1>1, <1>3, <1>9, <1>11, WriterTypes DEF WriterOK, Locked, Appending
<1>13. LogInv'
  BY <1>3, <1>4, <1>6, <1>9, <1>10, <1>11, <1>12, WriterStep
<1> QED
  BY <1>1, <1>7, <1>13

\* The follower reads, and changes nothing the invariant is about.
LEMMA FollowerInv ==
  ASSUME LogInv, UNCHANGED <<file, part, lock, writer, written, hooked, faults>> PROVE LogInv' /\ Lines' = Lines
<1>1. Lines' = Lines
  BY DEF Lines
<1>2. LogType' /\ LinesWritten' /\ HookAfterJournal'
  BY <1>1 DEF LogInv, LogType, LinesWritten, HookAfterJournal
<1>3. ASSUME NEW w \in Writers PROVE WriterOK(w, writer[w])'
  BY <1>1 DEF LogInv, WriterOK, Known
<1> QED
  BY <1>1, <1>2, <1>3 DEF LogInv

-----------------------------------------------------------------------------
(* The theorems.                                                           *)

LEMMA LogInit == Init => LogInv
<1> SUFFICES ASSUME Init PROVE LogInv
  OBVIOUS
<1>0. file = [i \in Files |-> <<>>] /\ part = NoPart /\ lock = Nobody /\ writer = [w \in Writers |-> IdleWriter]
      /\ written = <<>> /\ hooked = {} /\ faults = 0
  BY DEF Init
<1>1. LogType
  BY <1>0, IdleType, EmptySeq DEF LogType, LogFiles, Part
<1>2. ASSUME NEW w \in Writers PROVE WriterOK(w, writer[w])
  BY <1>0, IdleType DEF WriterOK, Locked, Appending
<1>3. LinesWritten
  <2> SUFFICES ASSUME NEW r, Contains(Lines, r) PROVE FALSE
    BY DEF LinesWritten
  <2>1. Lines = <<>>
    BY <1>0, JoinedEmpty, FilesFacts DEF Lines
  <2> QED
    BY <2>1 DEF Contains
<1> QED
  BY <1>0, <1>1, <1>2, <1>3 DEF LogInv, HookAfterJournal

LEMMA LogNext == LogInv /\ [Next]_vars => LogInv'
<1> SUFFICES ASSUME LogInv, [Next]_vars PROVE LogInv'
  OBVIOUS
<1>1. CASE Follow \/ Poll
  <2>1. UNCHANGED <<file, part, lock, writer, written, hooked, faults>>
    BY <1>1 DEF Follow, Poll, journal, history, bounds
  <2> QED
    BY <2>1, FollowerInv
<1>2. CASE UNCHANGED vars
  <2>1. UNCHANGED <<file, part, lock, writer, written, hooked, faults>>
    BY <1>2 DEF vars, journal, history, bounds
  <2> QED
    BY <2>1, FollowerInv
<1>3. ASSUME NEW w \in Writers,
             \/ Dispatch(w) \/ NextEvent(w) \/ LockAndRecover(w) \/ Deduplicate(w)
             \/ Proceed(w) \/ RemoveOldest(w) \/ Shift(w) \/ Write(w) \/ WriteTorn(w)
             \/ Unlock(w) \/ RunHook(w) \/ Die(w)
      PROVE  LogInv'
  BY <1>3, DispatchInv, NextEventInv, LockAndRecoverInv, DeduplicateInv, ProceedInv, RemoveOldestInv, ShiftInv,
     WriteInv, WriteTornInv, UnlockInv, RunHookInv, DieInv
<1> QED
  BY <1>1, <1>2, <1>3 DEF Next

(* The invariant behind the two results below: a writer inside an append   *)
(* has the lock and found no torn tail, the archive it renames to is       *)
(* empty, the event it is about to write is not retained, and everything a *)
(* dispatch counts as journaled is written except the event it is busy     *)
(* with (append, rotate and dispatch_events).                              *)
THEOREM LogInvariant == Spec => []LogInv
<1> QED
  BY LogInit, LogNext, PTL DEF Spec

(* dispatch_events starts the hook of an event only after a complete line  *)
(* for it was written, by this dispatch or by the one whose line made the  *)
(* append a duplicate, whatever died or failed in between.                 *)
THEOREM Hooks == Spec => []HookAfterJournal
<1>1. LogInv => HookAfterJournal
  BY DEF LogInv
<1> QED
  BY <1>1, LogInvariant, PTL

\* A step that leaves the lines and the torn tail alone is invisible to a reader.
LEMMA Invisible == ASSUME UNCHANGED <<file, part>> PROVE UNCHANGED View!view
BY DEF View!view, Lines, Unfinished

LEMMA ViewStep == ASSUME LogInv, NEW w \in Writers, Write(w) \/ RemoveOldest(w) \/ Shift(w) \/ WriteTorn(w) \/ LockAndRecover(w)
                  PROVE [View!ViewNext]_(View!view)
<1>0. part = NoPart => Unfinished = <<>>
  BY DEF Unfinished
<1>1. CASE Write(w)
  <2>1. writer[w].pc = "write" /\ part' = part
    BY <1>1 DEF Write, At
  <2>2. part = NoPart /\ ~Known(writer[w].rec)
    BY <2>1, WriterTypes DEF WriterOK, Locked
  <2>3. PICK r \in Record : r = writer[w].rec
    BY WriterTypes
  <2>4. Lines' = Append(Lines, r) /\ Unfinished = <<>> /\ Unfinished' = Unfinished
    BY <1>0, <1>1, <2>1, <2>2, <2>3, WriteInv DEF Unfinished
  <2>5. r.type = "event" => ~Contains(Lines, r)
    BY <2>2, <2>3 DEF Known
  <2>6. View!Grow(r)
    BY <2>4, <2>5 DEF View!Grow, View!Contains, Contains
  <2> QED
    BY <2>6 DEF View!ViewNext
<1>2. CASE RemoveOldest(w)
  <2> DEFINE n == Len(file[MaxArchives])
  <2>1. writer[w].pc = "rotate" /\ part' = part /\ file' = [file EXCEPT ![MaxArchives] = <<>>]
    BY <1>2 DEF RemoveOldest, At
  <2>2. part = NoPart /\ file[0] # <<>>
    BY <2>1, WriterTypes DEF WriterOK, Locked
  <2>3. n \in 0 .. Len(Lines) /\ Lines' = SubSeq(Lines, n + 1, Len(Lines)) /\ Lines \in Seq(Record)
        /\ (MaxArchives > 0 => n + Len(file[0]) <= Len(Lines))
    BY <2>1, WriterTypes, JoinedDrop, JoinedType, FilesFacts DEF Lines
  <2>4. Unfinished = <<>> /\ Unfinished' = Unfinished
    BY <1>0, <2>1, <2>2 DEF Unfinished
  <2>5. Len(file[0]) \in Nat \ {0} /\ Len(Lines) \in Nat
    <3>1. file[0] \in Seq(Record)
      BY WriterTypes, FilesFacts DEF LogFiles
    <3> QED
      BY <2>2, <2>3, <3>1, LenProperties, EmptySeq
  <2> HIDE DEF n
  <2>6. MaxArchives > 0 => n < Len(Lines)
    <3>1. \A a, b, c \in Nat : a + b <= c /\ b # 0 => a < c
      OBVIOUS
    <3> QED
      BY <2>3, <2>5, <3>1
  <2>7. CASE n = 0
    <3>1. Lines' = Lines
      BY <2>3, <2>7, SubSeqFull
    <3> QED
      BY <2>4, <3>1 DEF View!view
  <2>8. CASE n # 0
    <3>1. n \in 1 .. Len(Lines)
      BY <2>3, <2>5, <2>8
    <3>2. View!Forget(n)
      BY <2>3, <2>4, <2>6 DEF View!Forget
    <3> QED
      BY <3>1, <3>2 DEF View!ViewNext
  <2> QED
    BY <2>7, <2>8
<1>3. CASE Shift(w)
  <2>1. Lines' = Lines /\ part' = part
    BY <1>3, ShiftInv DEF Shift
  <2> QED
    BY <2>1 DEF View!view, Unfinished
<1>4. CASE WriteTorn(w)
  <2>1. PICK kind \in {"torn", "whole"} : part' = <<kind, writer[w].rec>>
    BY <1>4 DEF WriteTorn
  <2>2. writer[w].pc = "write" /\ file' = file
    BY <1>4 DEF WriteTorn, At
  <2>3. PICK r \in Record : r = writer[w].rec
    BY WriterTypes
  <2>4. part = NoPart /\ Lines' = Lines /\ Unfinished = <<>>
    BY <1>0, <2>2, WriterTypes DEF WriterOK, Locked, Lines
  <2>5. Unfinished' = IF kind = "whole" THEN <<r>> ELSE <<>>
    BY <2>1, <2>3 DEF Unfinished, NoPart
  <2>6. CASE kind = "whole"
    <3>1. View!Tear(r)
      BY <2>4, <2>5, <2>6 DEF View!Tear
    <3> QED
      BY <3>1 DEF View!ViewNext
  <2>7. CASE kind # "whole"
    BY <2>4, <2>5, <2>7 DEF View!view
  <2> QED
    BY <2>6, <2>7
<1>5. CASE LockAndRecover(w)
  <2>1. part' = NoPart /\ file' = file
    BY <1>5 DEF LockAndRecover
  <2>2. Lines' = Lines /\ Unfinished' = <<>>
    BY <2>1 DEF Lines, Unfinished
  <2>3. CASE Unfinished = <<>>
    BY <2>2, <2>3 DEF View!view
  <2>4. CASE Unfinished # <<>>
    <3>1. View!Mend
      BY <2>2, <2>4 DEF View!Mend
    <3> QED
      BY <3>1 DEF View!ViewNext
  <2> QED
    BY <2>3, <2>4
<1> QED
  BY <1>1, <1>2, <1>3, <1>4, <1>5

(* The files of the journal implement the log that JournalView promises:   *)
(* it grows at its end by events that are not in it, forgets from its      *)
(* start and never its newest line while an archive is kept, and shows an  *)
(* unfinished record only until the next writer, whatever rename of a      *)
(* rotation a death follows (append, rotate, recover_truncated_tail).      *)
THEOREM Refinement == Spec => ImplementsView
<1>1. Init => View!ViewInit
  <2> SUFFICES ASSUME Init PROVE View!ViewInit
    OBVIOUS
  <2>1. file = [i \in Files |-> <<>>] /\ part = NoPart
    BY DEF Init
  <2>2. Lines = <<>> /\ Unfinished = <<>>
    BY <2>1, JoinedEmpty, FilesFacts DEF Lines, Unfinished
  <2> QED
    BY <2>2 DEF View!ViewInit
<1>2. LogInv /\ [Next]_vars => [View!ViewNext]_(View!view)
  <2> SUFFICES ASSUME LogInv, [Next]_vars PROVE [View!ViewNext]_(View!view)
    OBVIOUS
  <2>1. CASE Follow \/ Poll \/ UNCHANGED vars
    <3>1. UNCHANGED <<file, part>>
      BY <2>1 DEF Follow, Poll, vars, journal
    <3> QED
      BY <3>1, Invisible
  <2>2. ASSUME NEW w \in Writers,
               Dispatch(w) \/ NextEvent(w) \/ Deduplicate(w) \/ Proceed(w) \/ Unlock(w) \/ RunHook(w) \/ Die(w)
        PROVE  [View!ViewNext]_(View!view)
    <3>1. UNCHANGED <<file, part>>
      BY <2>2 DEF Dispatch, NextEvent, Deduplicate, Proceed, Unlock, RunHook, Die, journal
    <3> QED
      BY <3>1, Invisible
  <2> QED
    BY <2>1, <2>2, ViewStep DEF Next
<1> QED
  BY <1>1, <1>2, LogInvariant, PTL DEF Spec, ImplementsView, View!ViewSpec

-----------------------------------------------------------------------------
(* The flushes of Telemetry.  A record has at most one place in a file     *)
(* without repetition, and a push keeps the file it was built on.          *)

Distinct(s) == \A i, j \in DOMAIN s : s[i] = s[j] => i = j

\* Where the k-th element of a set of positions is: counting the positions from the
\* start, the first count that reaches k is at a member of the set.
LEMMA RankReached ==
  ASSUME NEW n \in Nat, NEW S \in SUBSET (1 .. n), NEW k \in 1 .. Cardinality(S)
  PROVE  \E i \in S : Cardinality({j \in S : j <= i}) = k
<1> DEFINE C(i) == {j \in S : j <= i}
           T == {i \in Nat : Cardinality(C(i)) >= k}
<1>1. IsFiniteSet(S) /\ Cardinality(S) \in Nat /\ k \in Nat \ {0}
  <2>1. IsFiniteSet(1 .. n)
    BY FS_Interval
  <2>2. IsFiniteSet(S)
    BY <2>1, FS_Subset
  <2> QED
    BY <2>2, FS_CardinalityType
<1>2. \A i \in Nat : IsFiniteSet(C(i)) /\ Cardinality(C(i)) \in Nat
  <2> TAKE i \in Nat
  <2>1. C(i) \in SUBSET S
    OBVIOUS
  <2>2. IsFiniteSet(C(i))
    BY <1>1, <2>1, FS_Subset
  <2> QED
    BY <2>2, FS_CardinalityType
<1>3. T # {} /\ T \subseteq Nat
  <2>0. \A j \in S : j \in 1 .. n /\ j <= n
    OBVIOUS
  <2>1. C(n) = S
    BY <2>0
  <2>2. Cardinality(C(n)) >= k
    BY <1>1, <2>1
  <2> QED
    BY <2>2
<1>4. PICK m \in T : \A y \in T : m <= y
  <2> HIDE DEF T
  <2> QED
    BY <1>3, LeastNatural
<1>5. m \in Nat /\ Cardinality(C(m)) >= k
  OBVIOUS
<1>6. m # 0
  <2> SUFFICES ASSUME m = 0 PROVE FALSE
    OBVIOUS
  <2>0. \A j \in S : j \in 1 .. n /\ ~(j <= m)
    OBVIOUS
  <2>1. C(m) = {}
    BY <2>0
  <2>2. Cardinality(C(m)) = 0
    BY <2>1, FS_EmptySet
  <2> QED
    BY <1>1, <1>5, <2>2
<1>7. m - 1 \in Nat /\ ~(Cardinality(C(m - 1)) >= k)
  <2>1. m - 1 \in Nat /\ ~(m <= m - 1)
    BY <1>5, <1>6
  <2>2. m - 1 \notin T
    BY <1>4, <2>1
  <2> QED
    BY <2>1, <2>2
<1>8. m \in S
  <2> SUFFICES ASSUME m \notin S PROVE FALSE
    OBVIOUS
  <2>1. C(m) = C(m - 1)
    <3>1. \A j \in S : j \in Nat /\ j # m
      OBVIOUS
    <3>2. \A j \in S : j <= m <=> j <= m - 1
      BY <1>5, <3>1
    <3> QED
      BY <3>2
  <2> QED
    BY <1>5, <1>7, <2>1
<1>9. Cardinality(C(m)) = Cardinality(C(m - 1)) + 1
  <2>1. C(m) = C(m - 1) \cup {m} /\ m \notin C(m - 1)
    <3>1. \A j \in S : j <= m <=> j <= m - 1 \/ j = m
      BY <1>5
    <3>2. ~(m <= m - 1)
      BY <1>5
    <3> QED
      BY <1>5, <1>8, <3>1, <3>2
  <2>2. IsFiniteSet(C(m - 1))
    BY <1>2, <1>7
  <2> HIDE DEF C
  <2> QED
    BY <2>1, <2>2, FS_AddElement
<1>10. Cardinality(C(m)) = k
  <2>1. Cardinality(C(m - 1)) \in Nat
    BY <1>2, <1>7
  <2> HIDE DEF C
  <2> QED
    BY <1>1, <1>5, <1>7, <1>9, <2>1
<1> QED
  BY <1>8, <1>10

\* What a flush adds to the file is a list of records without repetition, none of which
\* the file has.
LEMMA AdditionsFacts ==
  ASSUME NEW R, NEW records \in Seq(R), NEW existing \in Seq(R)
  PROVE  /\ Additions(records, existing) \in Seq(R)
         /\ Distinct(Additions(records, existing))
         /\ \A k \in 1 .. Len(Additions(records, existing)) : ~Contains(existing, Additions(records, existing)[k])
<1> DEFINE new == {i \in DOMAIN records :
                     /\ ~Contains(existing, records[i])
                     /\ ~Contains(SubSeq(records, 1, i - 1), records[i])}
           at(k) == CHOOSE i \in new : Cardinality({j \in new : j <= i}) = k
           more == [k \in 1 .. Cardinality(new) |-> records[at(k)]]
<1>1. Additions(records, existing) = more
  BY DEF Additions
<1>2. Len(records) \in Nat /\ DOMAIN records = 1 .. Len(records) /\ new \in SUBSET (1 .. Len(records))
  OBVIOUS
<1>3. Cardinality(new) \in Nat
  <2>1. IsFiniteSet(1 .. Len(records))
    BY <1>2, FS_Interval
  <2>2. IsFiniteSet(new)
    BY <1>2, <2>1, FS_Subset
  <2> QED
    BY <2>2, FS_CardinalityType
<1>4. \A k \in 1 .. Cardinality(new) : at(k) \in new /\ Cardinality({j \in new : j <= at(k)}) = k
  <2> TAKE k \in 1 .. Cardinality(new)
  <2> HIDE DEF new
  <2>1. \E i \in new : Cardinality({j \in new : j <= i}) = k
    BY <1>2, RankReached
  <2> QED
    BY <2>1
<1>5. \A i \in new : i \in 1 .. Len(records) /\ records[i] \in R /\ ~Contains(existing, records[i])
  BY <1>2
<1>6. \A i, j \in new : i < j => records[i] # records[j]
  <2> SUFFICES ASSUME NEW i \in new, NEW j \in new, i < j, records[i] = records[j] PROVE FALSE
    OBVIOUS
  <2>1. i \in 1 .. Len(records) /\ j \in 1 .. Len(records) /\ i <= j - 1 /\ i \in 1 .. j - 1
    BY <1>2
  <2>2. \A l \in 1 .. j - 1 : records[l] \in R
    BY <1>2, <2>1
  <2>3. Len(SubSeq(records, 1, j - 1)) = j - 1 /\ SubSeq(records, 1, j - 1)[i] = records[1 + i - 1]
    <3>1. 1 \in Int /\ j - 1 \in Int /\ i \in 1 .. (j - 1) - 1 + 1 /\ 1 <= j - 1
      BY <2>1
    <3>2. Len(SubSeq(records, 1, j - 1)) = (j - 1) - 1 + 1 /\ SubSeq(records, 1, j - 1)[i] = records[1 + i - 1]
      BY <2>2, <3>1, SubSeqProperties
    <3>3. (j - 1) - 1 + 1 = j - 1
      BY <2>1
    <3> QED
      BY <3>2, <3>3
  <2>4. 1 + i - 1 = i
    BY <2>1
  <2>5. Contains(SubSeq(records, 1, j - 1), records[j])
    BY <2>1, <2>3, <2>4 DEF Contains
  <2> QED
    BY <2>5
<1> HIDE DEF new
<1>7. \A i, j \in new : records[i] = records[j] => i = j
  <2>1. \A i, j \in new : i \in Int /\ j \in Int
    BY <1>5
  <2>2. \A i, j \in new : i < j \/ j < i \/ i = j
    BY <2>1
  <2> QED
    BY <1>6, <2>2
<1>8. \A k \in 1 .. Cardinality(new) : more[k] = records[at(k)] /\ more[k] \in R /\ ~Contains(existing, more[k])
  BY <1>4, <1>5
<1>9. more \in Seq(R) /\ Len(more) = Cardinality(new) /\ DOMAIN more = 1 .. Cardinality(new)
  <2> HIDE DEF at
  <2>1. \A k \in 1 .. Cardinality(new) : records[at(k)] \in R
    BY <1>4, <1>5
  <2> QED
    BY <1>3, <2>1, IsASeq
<1>10. Distinct(more)
  <2> SUFFICES ASSUME NEW a \in 1 .. Cardinality(new), NEW b \in 1 .. Cardinality(new), more[a] = more[b]
               PROVE  a = b
    BY <1>9 DEF Distinct
  <2> HIDE DEF more, at
  <2>1. at(a) = at(b)
    BY <1>4, <1>7, <1>8
  <2> QED
    BY <1>4, <2>1
<1> HIDE DEF more
<1> QED
  BY <1>1, <1>8, <1>9, <1>10

\* Two lists without repetition that have nothing in common, one after the other.
LEMMA DistinctConcat ==
  ASSUME NEW R, NEW s \in Seq(R), NEW t \in Seq(R), Distinct(s), Distinct(t), \A k \in 1 .. Len(t) : ~Contains(s, t[k])
  PROVE  s \o t \in Seq(R) /\ Distinct(s \o t) /\ IsPrefix(s, s \o t)
<1> DEFINE u == s \o t
<1>1. /\ u \in Seq(R) /\ Len(u) = Len(s) + Len(t) /\ Len(s) \in Nat /\ Len(t) \in Nat
      /\ DOMAIN u = 1 .. Len(u) /\ DOMAIN s = 1 .. Len(s) /\ DOMAIN t = 1 .. Len(t)
      /\ \A i \in 1 .. Len(s) + Len(t) : u[i] = IF i <= Len(s) THEN s[i] ELSE t[i - Len(s)]
  BY ConcatProperties
<1>2. Distinct(u)
  <2> SUFFICES ASSUME NEW i \in 1 .. Len(s) + Len(t), NEW j \in 1 .. Len(s) + Len(t), u[i] = u[j] PROVE i = j
    BY <1>1 DEF Distinct
  <2> HIDE DEF u
  <2>1. CASE i <= Len(s) /\ j <= Len(s)
    BY <1>1, <2>1 DEF Distinct
  <2>2. CASE ~(i <= Len(s)) /\ ~(j <= Len(s))
    <3>1. i - Len(s) \in 1 .. Len(t) /\ j - Len(s) \in 1 .. Len(t)
      BY <1>1, <2>2
    <3>2. t[i - Len(s)] = t[j - Len(s)]
      BY <1>1, <2>2
    <3>3. i - Len(s) = j - Len(s)
      BY <1>1, <3>1, <3>2 DEF Distinct
    <3> QED
      BY <1>1, <3>3
  <2>3. ASSUME NEW a \in 1 .. Len(s) + Len(t), NEW b \in 1 .. Len(s) + Len(t), a <= Len(s), ~(b <= Len(s)), u[a] = u[b]
        PROVE  FALSE
    <3>1. a \in 1 .. Len(s) /\ b - Len(s) \in 1 .. Len(t) /\ s[a] = t[b - Len(s)]
      BY <1>1, <2>3
    <3> QED
      BY <3>1 DEF Contains
  <2> QED
    BY <2>1, <2>2, <2>3
<1>3. IsPrefix(s, u)
  <2>1. Len(s) <= Len(u)
    BY <1>1
  <2>2. SubSeq(s, 1, Len(s)) = SubSeq(u, 1, Len(s))
    <3>1. CASE Len(s) = 0
      <4>1. SubSeq(s, 1, 0) = <<>> /\ SubSeq(u, 1, 0) = <<>>
        BY SubSeqEmpty
      <4> QED
        BY <3>1, <4>1
    <3>2. CASE Len(s) # 0
      <4>1. 1 \in 1 .. Len(s) /\ Len(s) \in 1 .. Len(s)
        BY <1>1, <3>2
      <4> QED
        BY <4>1, SubSeqOfConcat1
    <3> QED
      BY <3>1, <3>2
  <2> QED
    BY <2>1, <2>2 DEF IsPrefix
<1> QED
  BY <1>1, <1>2, <1>3

\* A list is a prefix of itself.
LEMMA PrefixSelf == ASSUME NEW s, Len(s) \in Nat PROVE IsPrefix(s, s)
BY DEF IsPrefix

-----------------------------------------------------------------------------
FlushType ==
  [pc : {"idle", "compose", "push"}, records : Seq(FlushRecord),
   attempt : 0 .. Retries + 1, old : Nat, content : Seq(FlushRecord), blind : BOOLEAN]

(* A flush about to push was built on a commit the branch has had; what it *)
(* will push has no repetition, and continues the file if the branch is    *)
(* still at that commit.                                                   *)
FlushOK(x) ==
  x.pc = "push" =>
    /\ x.old <= branch.rev /\ Distinct(x.content)
    /\ ~x.blind /\ x.old = branch.rev => IsPrefix(branch.own, x.content)

FlushInv ==
  /\ FlushTypes /\ PublishedOnce
  /\ \A f \in Flushers : FlushOK(flusher[f])

\* The same facts, one by one.
LEMMA FlushFacts ==
  ASSUME FlushInv
  PROVE  /\ retained \in Seq(FlushRecord) /\ unfinished \in Seq(FlushRecord)
         /\ flusher \in [Flushers -> FlushType]
         /\ branch \in [rev : Nat, own : Seq(FlushRecord)]
         /\ branch.rev \in Nat /\ branch.own \in Seq(FlushRecord) /\ Distinct(branch.own)
         /\ count \in 0 .. MaxRecords /\ flushFaults \in 0 .. MaxFlushFaults /\ outside \in 0 .. MaxOutside
         /\ Retries \in Nat /\ MaxRecords \in Nat /\ MaxFlushFaults \in Nat /\ MaxOutside \in Nat
         /\ \A f \in Flushers : flusher[f] \in FlushType /\ FlushOK(flusher[f])
BY FlushBounds DEF FlushInv, FlushTypes, PublishedOnce, Distinct, FlushType

\* A flush that has ended.
LEMMA NoFlushType == NoFlush \in FlushType /\ NoFlush.pc = "idle"
<1>1. Retries \in Nat /\ 0 \in 0 .. Retries + 1 /\ <<>> \in Seq(FlushRecord)
  BY FlushBounds, EmptySeq
<1> QED
  BY <1>1 DEF NoFlush, FlushType

\* A step of one flush that leaves the branch alone.
LEMMA FlushStep ==
  ASSUME FlushInv, NEW f \in Flushers, NEW x \in FlushType, FlushOK(x),
         flusher' = [flusher EXCEPT ![f] = x], flushFaults' \in 0 .. MaxFlushFaults,
         UNCHANGED <<view, branch, count, outside>>
  PROVE  FlushInv'
<1>1. flusher' \in [Flushers -> FlushType] /\ retained' = retained /\ unfinished' = unfinished
  BY FlushFacts DEF view
<1>2. FlushTypes'
  BY <1>1, FlushFacts DEF FlushTypes, FlushType
<1>3. PublishedOnce'
  BY DEF FlushInv, PublishedOnce
<1>4. ASSUME NEW g \in Flushers PROVE FlushOK(flusher[g])'
  <2>1. flusher'[g] = IF g = f THEN x ELSE flusher[g]
    BY FlushFacts
  <2> QED
    BY <2>1, FlushFacts DEF FlushOK
<1> QED
  BY <1>2, <1>3, <1>4 DEF FlushInv

\* A step of the branch, after which every flush that would still push has lost its lease.
LEMMA BranchStep ==
  ASSUME FlushInv, NEW F \in [Flushers -> FlushType], flusher' = F, \A g \in Flushers : F[g] = flusher[g] \/ F[g].pc = "idle",
         NEW own \in Seq(FlushRecord), Distinct(own), branch' = [rev |-> branch.rev + 1, own |-> own],
         outside' \in 0 .. MaxOutside, UNCHANGED <<view, count, flushFaults>>
  PROVE  FlushInv'
<1>1. branch' \in [rev : Nat, own : Seq(FlushRecord)] /\ branch'.rev = branch.rev + 1 /\ branch'.own = own
  BY FlushFacts
<1>2. FlushTypes'
  BY <1>1, FlushFacts DEF FlushTypes, FlushType, view
<1>3. PublishedOnce'
  BY <1>1 DEF PublishedOnce, Distinct
<1>4. ASSUME NEW g \in Flushers PROVE FlushOK(flusher[g])'
  <2>1. CASE F[g].pc = "idle"
    BY <2>1 DEF FlushOK
  <2>2. CASE F[g] = flusher[g]
    <3>1. PICK x \in FlushType : x = flusher[g] /\ flusher'[g] = x /\ FlushOK(x)
      BY <2>2, FlushFacts
    <3>2. x.pc = "push" => x.old \in Nat /\ x.old <= branch.rev /\ Distinct(x.content)
      BY <3>1 DEF FlushOK, FlushType
    <3>3. x.pc = "push" => x.old <= branch.rev + 1 /\ x.old # branch.rev + 1
      BY <3>2, FlushFacts
    <3> QED
      BY <1>1, <3>1, <3>2, <3>3 DEF FlushOK
  <2> QED
    BY <2>1, <2>2
<1> QED
  BY <1>2, <1>3, <1>4 DEF FlushInv

\* The journal grows, forgets, tears and mends.
LEMMA JournalStepInv == ASSUME FlushInv, JournalStep PROVE FlushInv'
<1>1. retained' \in Seq(FlushRecord) /\ unfinished' \in Seq(FlushRecord)
  <2>1. ASSUME NEW r \in FlushRecord, Log!Grow(r) PROVE retained' \in Seq(FlushRecord) /\ unfinished' = unfinished
    BY <2>1, FlushFacts, AppendProperties DEF Log!Grow
  <2>2. ASSUME NEW r \in FlushRecord, Log!Tear(r) PROVE retained' = retained /\ unfinished' \in Seq(FlushRecord)
    BY <2>2 DEF Log!Tear
  <2>3. ASSUME Log!Mend PROVE retained' = retained /\ unfinished' \in Seq(FlushRecord)
    BY <2>3, EmptySeq DEF Log!Mend
  <2>4. ASSUME NEW n \in 1 .. Len(retained), Log!Forget(n) PROVE retained' \in Seq(FlushRecord) /\ unfinished' = unfinished
    <3>1. retained' = SubSeq(retained, n + 1, Len(retained)) /\ unfinished' = unfinished
      BY <2>4 DEF Log!Forget
    <3>2. n + 1 \in Int /\ Len(retained) \in Int /\ \A i \in n + 1 .. Len(retained) : retained[i] \in FlushRecord
      BY FlushFacts
    <3> QED
      BY <3>1, <3>2, SubSeqProperties
  <2> QED
    BY <2>1, <2>2, <2>3, <2>4, FlushFacts DEF JournalStep
<1>2. flushFaults' \in 0 .. MaxFlushFaults /\ count' \in 0 .. MaxRecords
  BY FlushFacts DEF JournalStep
<1>3. UNCHANGED <<flusher, branch, outside>>
  BY DEF JournalStep
<1>4. FlushTypes'
  BY <1>1, <1>2, <1>3, FlushFacts DEF FlushTypes, FlushType
<1> QED
  BY <1>3, <1>4 DEF FlushInv, PublishedOnce, FlushOK

LEMMA ReadInv == ASSUME FlushInv, NEW f \in Flushers, Read(f) PROVE FlushInv'
<1> DEFINE x == [NoFlush EXCEPT !.pc = "compose", !.records = Log!Visible, !.attempt = 1]
<1>1. Log!Visible \in Seq(FlushRecord)
  BY FlushFacts, ConcatProperties DEF Log!Visible
<1>2. x \in FlushType /\ x.pc = "compose"
  <2>1. 1 \in 0 .. Retries + 1
    BY FlushFacts
  <2>2. \A v \in Seq(FlushRecord), n \in 0 .. Retries + 1 :
          LET y == [NoFlush EXCEPT !.pc = "compose", !.records = v, !.attempt = n]
          IN  y \in FlushType /\ y.pc = "compose"
    BY NoFlushType DEF FlushType
  <2> QED
    BY <1>1, <2>1, <2>2
<1>3. flusher' = [flusher EXCEPT ![f] = x] /\ UNCHANGED <<view, branch, count, flushFaults, outside>>
  BY DEF Read
<1> HIDE DEF x
<1> QED
  BY <1>2, <1>3, FlushStep, FlushFacts DEF FlushOK

\* A record after a composition, whatever its fields range over.
LEMMA ComposedType ==
  ASSUME NEW P, NEW S, NEW A, NEW O, NEW B, NEW p \in P,
         NEW y \in [pc : P, records : S, attempt : A, old : O, content : S, blind : B]
  PROVE  \A c \in S, o \in O, b \in B :
           LET z == [y EXCEPT !.pc = p, !.old = o, !.blind = b, !.content = c]
           IN  /\ z \in [pc : P, records : S, attempt : A, old : O, content : S, blind : B]
               /\ z.pc = p /\ z.old = o /\ z.blind = b /\ z.content = c
OBVIOUS

\* What one attempt composes: the file as it is at the commit named, and what it lacks.
LEMMA ComposeInv == ASSUME FlushInv, NEW f \in Flushers, Compose(f) PROVE FlushInv'
<1>1. PICK blind \in BOOLEAN :
        /\ blind => flushFaults < MaxFlushFaults
        /\ flushFaults' = IF blind THEN flushFaults + 1 ELSE flushFaults
        /\ flusher' = [flusher EXCEPT ![f] =
             IF Additions(flusher[f].records, Existing(blind)) = <<>> THEN NoFlush
             ELSE [flusher[f] EXCEPT !.pc = "push", !.old = branch.rev, !.blind = blind,
                     !.content = Existing(blind) \o Additions(flusher[f].records, Existing(blind))]]
  BY DEF Compose
<1>2. flushFaults' \in 0 .. MaxFlushFaults /\ UNCHANGED <<view, branch, count, outside>>
  BY <1>1, FlushFacts DEF Compose
<1> DEFINE e == Existing(blind)
           more == Additions(flusher[f].records, e)
<1>3. e \in Seq(FlushRecord) /\ Distinct(e) /\ (~blind => e = branch.own)
  <2>1. CASE blind
    <3>1. e = <<>>
      BY <2>1 DEF Existing
    <3>2. <<>> \in Seq(FlushRecord) /\ Distinct(<<>>)
      BY EmptySeq DEF Distinct
    <3> QED
      BY <2>1, <3>1, <3>2, Zenon
  <2>2. CASE ~blind
    BY <2>2, FlushFacts DEF Existing
  <2> QED
    BY <2>1, <2>2
<1>4. flusher[f].records \in Seq(FlushRecord) /\ flusher[f] \in FlushType
  BY FlushFacts DEF FlushType
<1> HIDE DEF e
<1>5. more \in Seq(FlushRecord) /\ Distinct(more) /\ \A k \in 1 .. Len(more) : ~Contains(e, more[k])
  BY <1>3, <1>4, AdditionsFacts
<1> HIDE DEF more
<1>6. e \o more \in Seq(FlushRecord) /\ Distinct(e \o more) /\ IsPrefix(e, e \o more)
  BY <1>3, <1>5, DistinctConcat
<1>7. PICK x : x = IF more = <<>> THEN NoFlush
                   ELSE [flusher[f] EXCEPT !.pc = "push", !.old = branch.rev, !.blind = blind, !.content = e \o more]
  OBVIOUS
<1>8. x \in FlushType /\ FlushOK(x)
  <2>1. CASE more = <<>>
    BY <1>7, <2>1, NoFlushType DEF FlushOK
  <2>2. CASE more # <<>>
    <3> DEFINE z(o, c) == [flusher[f] EXCEPT !.pc = "push", !.old = o, !.blind = blind, !.content = c]
    <3>1. \A c \in Seq(FlushRecord), o \in Nat :
            z(o, c) \in FlushType /\ z(o, c).pc = "push" /\ z(o, c).old = o /\ z(o, c).blind = blind /\ z(o, c).content = c
      BY <1>4, ComposedType, Zenon DEF FlushType
    <3>2. x = z(branch.rev, e \o more)
      BY <1>7, <2>2
    <3>5. branch.rev \in Nat
      BY FlushFacts
    <3> HIDE DEF z
    <3>3. x \in FlushType /\ x.pc = "push" /\ x.old = branch.rev /\ x.blind = blind /\ x.content = e \o more
      BY <1>6, <3>1, <3>2, <3>5
    <3>4. x.old <= branch.rev
      BY <3>3, FlushFacts
    <3> QED
      BY <1>3, <1>6, <3>3, <3>4 DEF FlushOK
  <2> QED
    BY <2>1, <2>2
<1>9. flusher' = [flusher EXCEPT ![f] = x]
  BY <1>1, <1>7 DEF e, more
<1> QED
  BY <1>2, <1>8, <1>9, FlushStep

\* A flush that ends without a push.
LEMMA EndsInv == ASSUME FlushInv, NEW f \in Flushers, Skip(f) \/ FlushFails(f) PROVE FlushInv'
<1>1. flusher' = [flusher EXCEPT ![f] = NoFlush] /\ UNCHANGED <<view, branch, count, outside>>
  BY DEF Skip, FlushFails
<1>2. flushFaults' \in 0 .. MaxFlushFaults
  BY FlushFacts DEF Skip, FlushFails
<1> QED
  BY <1>1, <1>2, NoFlushType, FlushStep DEF FlushOK

LEMMA PushRejectedInv == ASSUME FlushInv, NEW f \in Flushers, PushRejected(f) PROVE FlushInv'
<1>1. PICK x : x = IF flusher[f].attempt > Retries THEN NoFlush
                   ELSE [flusher[f] EXCEPT !.pc = "compose", !.attempt = flusher[f].attempt + 1, !.blind = FALSE]
  OBVIOUS
<1>2. flusher' = [flusher EXCEPT ![f] = x] /\ UNCHANGED <<view, branch, count, flushFaults, outside>>
  BY <1>1 DEF PushRejected
<1>3. x \in FlushType /\ x.pc # "push"
  <2>1. CASE flusher[f].attempt > Retries
    BY <1>1, <2>1, NoFlushType
  <2>2. CASE ~(flusher[f].attempt > Retries)
    <3>1. flusher[f] \in FlushType /\ flusher[f].attempt \in 0 .. Retries + 1
      BY FlushFacts DEF FlushType
    <3>2. flusher[f].attempt + 1 \in 0 .. Retries + 1
      BY <2>2, <3>1, FlushFacts
    <3>3. \A y \in FlushType, n \in 0 .. Retries + 1, b \in BOOLEAN :
            LET z == [y EXCEPT !.pc = "compose", !.attempt = n, !.blind = b] IN z \in FlushType /\ z.pc = "compose"
      BY DEF FlushType
    <3>4. x = [flusher[f] EXCEPT !.pc = "compose", !.attempt = flusher[f].attempt + 1, !.blind = FALSE]
      BY <1>1, <2>2
    <3>5. x \in FlushType /\ x.pc = "compose"
      BY <3>1, <3>2, <3>3, <3>4, Zenon
    <3> QED
      BY <3>5
  <2> QED
    BY <2>1, <2>2
<1> QED
  BY <1>2, <1>3, FlushStep, FlushFacts DEF FlushOK

LEMMA PushInv == ASSUME FlushInv, NEW f \in Flushers, Push(f) PROVE FlushInv'
<1>1. /\ flusher[f].pc = "push" /\ branch' = [rev |-> branch.rev + 1, own |-> flusher[f].content]
      /\ flusher' = [flusher EXCEPT ![f] = NoFlush] /\ UNCHANGED <<view, count, flushFaults, outside>>
  BY DEF Push
<1>2. flusher[f].content \in Seq(FlushRecord) /\ Distinct(flusher[f].content)
  BY <1>1, FlushFacts DEF FlushOK, FlushType
<1>3. flusher' \in [Flushers -> FlushType] /\ \A g \in Flushers : flusher'[g] = flusher[g] \/ flusher'[g].pc = "idle"
  BY <1>1, NoFlushType, FlushFacts
<1> QED
  BY <1>1, <1>2, <1>3, BranchStep, FlushFacts

LEMMA OtherActorInv == ASSUME FlushInv, OtherActor PROVE FlushInv'
<1>1. branch' = [branch EXCEPT !.rev = branch.rev + 1] /\ flusher' = flusher
      /\ UNCHANGED <<view, flusher, count, flushFaults>> /\ outside' \in 0 .. MaxOutside
  BY FlushFacts DEF OtherActor
<1>2. branch' = [rev |-> branch.rev + 1, own |-> branch.own]
  <2>1. \A b \in [rev : Nat, own : Seq(FlushRecord)], n \in Nat : [b EXCEPT !.rev = n] = [rev |-> n, own |-> b.own]
    OBVIOUS
  <2>2. branch.rev + 1 \in Nat
    BY FlushFacts
  <2> QED
    BY <1>1, <2>1, <2>2, FlushFacts
<1> QED
  BY <1>1, <1>2, BranchStep, FlushFacts

\* The invariant holds at the start and after every step.
LEMMA FlushInitInv == FlushInit => FlushInv
<1> SUFFICES ASSUME FlushInit PROVE FlushInv
  OBVIOUS
<1>1. /\ retained = <<>> /\ unfinished = <<>> /\ flusher = [f \in Flushers |-> NoFlush]
      /\ branch = [rev |-> 0, own |-> <<>>] /\ count = 0 /\ flushFaults = 0 /\ outside = 0
  BY DEF FlushInit, Log!ViewInit
<1>2. \A f \in Flushers : flusher[f] = NoFlush
  BY <1>1
<1>3. {0} \subseteq 0 .. MaxRecords /\ {0} \subseteq 0 .. MaxFlushFaults /\ {0} \subseteq 0 .. MaxOutside
  BY FlushBounds
<1>4. FlushTypes
  BY <1>1, <1>3, NoFlushType, EmptySeq DEF FlushTypes, FlushType
<1>5. PublishedOnce
  BY <1>1 DEF PublishedOnce
<1> QED
  BY <1>2, <1>4, <1>5, NoFlushType DEF FlushInv, FlushOK

LEMMA FlushNextInv == FlushInv /\ [FlushNext]_flushVars => FlushInv'
<1> SUFFICES ASSUME FlushInv, [FlushNext]_flushVars PROVE FlushInv'
  OBVIOUS
<1>1. CASE UNCHANGED flushVars
  BY <1>1 DEF flushVars, view, FlushInv, FlushTypes, PublishedOnce, FlushOK
<1>2. CASE FlushNext
  BY <1>2, JournalStepInv, ReadInv, ComposeInv, EndsInv, PushInv, PushRejectedInv, OtherActorInv DEF FlushNext
<1> QED
  BY <1>1, <1>2

(* Whatever the journal forgets and writes again, however many flushes of  *)
(* one actor race and whichever commits of other actors come between: what *)
(* a flush is about to push has no repetition and, unless git show had     *)
(* failed for it, continues the file of the commit its lease names         *)
(* (flush, push_with_lease).                                               *)
THEOREM FlushInvariant == FlushSpec => []FlushInv
<1> QED
  BY FlushInitInv, FlushNextInv, PTL DEF FlushSpec

(* The branch has every record of the actor at most once, for any number   *)
(* of flushes, retries, faults and records.                                *)
THEOREM BranchIsSound == FlushSpec => []BranchSound
<1>1. FlushInv => BranchSound
  BY DEF FlushInv, BranchSound
<1> QED
  BY <1>1, FlushInvariant, PTL

(* A push that git show has not failed loses no line another flush has     *)
(* published: the lease is refused whenever the branch has moved.          *)
THEOREM PublishedIsKept == FlushSpec => PublishedKept
<1> DEFINE Kept == \A f \in Flushers : flusher[f] # flusher'[f] /\ ~IsPrefix(branch.own, branch'.own) => flusher[f].blind
<1>1. FlushInv /\ [FlushNext]_flushVars => [Kept]_flushVars
  <2> SUFFICES ASSUME FlushInv, FlushNext, NEW f \in Flushers,
                      flusher[f] # flusher'[f], ~IsPrefix(branch.own, branch'.own), ~flusher[f].blind
               PROVE  FALSE
    BY DEF flushVars
  <2>1. branch'.own # branch.own
    BY FlushFacts, PrefixSelf
  <2>2. ~OtherActor
    <3>1. OtherActor => branch'.own = branch.own
      BY FlushFacts DEF OtherActor
    <3> QED
      BY <2>1, <3>1
  <2>3. PICK g \in Flushers : Push(g)
    BY <2>1, <2>2 DEF FlushNext, JournalStep, Read, Compose, Skip, PushRejected, FlushFails
  <2>4. g = f
    BY <2>3, FlushFacts DEF Push
  <2>5. flusher[f].pc = "push" /\ flusher[f].old = branch.rev /\ branch'.own = flusher[f].content
    BY <2>3, <2>4 DEF Push, LeaseHolds
  <2> QED
    BY <2>5, FlushFacts DEF FlushOK
<1> QED
  BY <1>1, FlushInvariant, PTL DEF FlushSpec, PublishedKept

=============================================================================
