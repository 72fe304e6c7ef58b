----------------------------- MODULE Telemetry ------------------------------
(***************************************************************************)
(* `cara log flush` (telemetry.rs): sidecars that copy the records of one  *)
(* clone's journal to the actor's file on a shared orphan branch, under a  *)
(* push lease, while the journal grows and forgets beneath them and other  *)
(* actors commit to the branch.  Commands detach a flush each, so several  *)
(* run at a time.  The journal is JournalView, which Journal implements.   *)
(***************************************************************************)
EXTENDS Naturals, Sequences, FiniteSets, SequencesExt

CONSTANTS FlushRecord,    \* what the journal's writers append
          FlushEvents,    \* those of them that are appended once
          KeepNewest,     \* the journal retains at least one archive
          Flushers,       \* detached flush processes
          Retries,        \* log.flush.retries
          MaxRecords,     \* bound: complete lines the journal ever gets
          MaxFlushFaults, \* bound: failed Git commands, killed flushes, torn lines
          MaxOutside      \* bound: commits of other actors to the branch

ASSUME FlushBounds ==
  {Retries, MaxRecords, MaxFlushFaults, MaxOutside} \subseteq Nat

VARIABLES
  retained, unfinished, \* the journal, as JournalView has it
  flusher,   \* per flush: its records, attempt and the commit under way
  branch,    \* the branch: its revision and the lines of the actor's file
  count,     \* history: complete lines the journal has ever got
  flushFaults, outside

Log == INSTANCE JournalView WITH Record <- FlushRecord, IsEvent <- LAMBDA r : r \in FlushEvents

view == <<retained, unfinished>>
flushVars == <<view, flusher, branch, count, flushFaults, outside>>

NoFlush ==
  [pc |-> "idle", records |-> <<>>, attempt |-> 0, old |-> 0, content |-> <<>>,
   blind |-> FALSE]

FlushInit ==
  /\ Log!ViewInit /\ flusher = [f \in Flushers |-> NoFlush]
  /\ branch = [rev |-> 0, own |-> <<>>]
  /\ count = 0 /\ flushFaults = 0 /\ outside = 0

-----------------------------------------------------------------------------
(* The journal's own steps.                                                *)
JournalStep ==
  /\ \/ \E r \in FlushRecord : Log!Grow(r) /\ count < MaxRecords /\ count' = count + 1 /\ UNCHANGED flushFaults
     \/ \E r \in FlushRecord : Log!Tear(r) /\ flushFaults < MaxFlushFaults /\ flushFaults' = flushFaults + 1 /\ UNCHANGED count
     \/ /\ Log!Mend \/ \E n \in 1 .. Len(retained) : Log!Forget(n)
        /\ UNCHANGED <<count, flushFaults>>
  /\ UNCHANGED <<flusher, branch, outside>>

(* records_for_flush: one read, used for every attempt.                    *)
Read(f) ==
  /\ flusher[f].pc = "idle"
  /\ flusher' = [flusher EXCEPT ![f] =
       [NoFlush EXCEPT !.pc = "compose", !.records = Log!Visible, !.attempt = 1]]
  /\ UNCHANGED <<view, branch, count, flushFaults, outside>>

(* Mutant: what the file has already is added again.                       *)
AdditionsAll(records, existing) == records

(* The records that the actor's file does not have, each once.             *)
Additions(records, existing) ==
  LET new == {i \in DOMAIN records :
                /\ ~Contains(existing, records[i])
                /\ ~Contains(SubSeq(records, 1, i - 1), records[i])}
  IN  [k \in 1 .. Cardinality(new) |->
         records[CHOOSE i \in new : Cardinality({j \in new : j <= i}) = k]]

(* `git show` of the actor's file; when it fails the file is taken to be   *)
(* empty.                                                                  *)
Existing(blind) == IF blind THEN <<>> ELSE branch.own

(* One attempt up to its push.  remote_head and the fetch name a commit,   *)
(* and git show reads that commit, which never changes.                    *)
Compose(f) ==
  /\ flusher[f].pc = "compose"
  /\ \E blind \in BOOLEAN :
       /\ blind => flushFaults < MaxFlushFaults /\ branch.own # <<>>
       /\ flushFaults' = IF blind THEN flushFaults + 1 ELSE flushFaults
       /\ LET more == Additions(flusher[f].records, Existing(blind)) IN
            flusher' = [flusher EXCEPT ![f] =
              IF more = <<>> THEN NoFlush
              ELSE [@ EXCEPT !.pc = "push", !.old = branch.rev, !.blind = blind,
                             !.content = Existing(blind) \o more]]
  /\ UNCHANGED <<view, branch, count, outside>>

(* Without --force: the interval since the branch's last commit has not    *)
(* passed.                                                                 *)
Skip(f) ==
  /\ flusher[f].pc = "compose" /\ branch.rev > 0
  /\ flusher' = [flusher EXCEPT ![f] = NoFlush]
  /\ UNCHANGED <<view, branch, count, flushFaults, outside>>

(* Mutant: a push without a lease.                                         *)
LeaseAlways(f) == TRUE

(* push_with_lease: the branch is still at the commit built upon.          *)
LeaseHolds(f) == branch.rev = flusher[f].old

Push(f) ==
  /\ flusher[f].pc = "push" /\ LeaseHolds(f)
  /\ branch' = [rev |-> branch.rev + 1, own |-> flusher[f].content]
  /\ flusher' = [flusher EXCEPT ![f] = NoFlush]
  /\ UNCHANGED <<view, count, flushFaults, outside>>

(* The lease has been lost: try again, or give up after the last attempt.  *)
PushRejected(f) ==
  /\ flusher[f].pc = "push" /\ ~LeaseHolds(f)
  /\ flusher' = [flusher EXCEPT ![f] =
       IF @.attempt > Retries THEN NoFlush
       ELSE [@ EXCEPT !.pc = "compose", !.attempt = flusher[f].attempt + 1, !.blind = FALSE]]
  /\ UNCHANGED <<view, branch, count, flushFaults, outside>>

(* The flush is killed, or a Git command other than git show fails.  A     *)
(* push whose answer is lost is a Push.                                    *)
FlushFails(f) ==
  /\ flusher[f].pc # "idle" /\ flushFaults < MaxFlushFaults
  /\ flusher' = [flusher EXCEPT ![f] = NoFlush] /\ flushFaults' = flushFaults + 1
  /\ UNCHANGED <<view, branch, count, outside>>

(* Another actor's file gets a commit.                                     *)
OtherActor ==
  /\ outside < MaxOutside
  /\ branch' = [branch EXCEPT !.rev = @ + 1] /\ outside' = outside + 1
  /\ UNCHANGED <<view, flusher, count, flushFaults>>

FlushNext ==
  \/ JournalStep
  \/ \E f \in Flushers :
       Read(f) \/ Compose(f) \/ Skip(f) \/ Push(f) \/ PushRejected(f) \/ FlushFails(f)
  \/ OtherActor

FlushSpec == FlushInit /\ [][FlushNext]_flushVars

-----------------------------------------------------------------------------
(* The shape of the state; no flush makes more attempts than configured.   *)
FlushTypes ==
  /\ retained \in Seq(FlushRecord) /\ unfinished \in Seq(FlushRecord)
  /\ flusher \in [Flushers ->
       [pc : {"idle", "compose", "push"}, records : Seq(FlushRecord),
        attempt : 0 .. Retries + 1, old : Nat, content : Seq(FlushRecord), blind : BOOLEAN]]
  /\ branch \in [rev : Nat, own : Seq(FlushRecord)]
  /\ count \in 0 .. MaxRecords
  /\ flushFaults \in 0 .. MaxFlushFaults /\ outside \in 0 .. MaxOutside

(* However many flushes of one actor race, and whatever the journal has    *)
(* forgotten and written again, the branch has every record at most once.  *)
PublishedOnce ==
  \A i, j \in DOMAIN branch.own : branch.own[i] = branch.own[j] => i = j

(* The published file is a list of records without repetition, of an actor *)
(* whose flushes are at a step they can be at.                             *)
BranchSound == FlushTypes /\ PublishedOnce

(* A push loses nothing another flush has published, unless git show had   *)
(* failed for the one that pushes.                                         *)
PublishedKept ==
  [][\A f \in Flushers :
       flusher[f] # flusher'[f] /\ ~IsPrefix(branch.own, branch'.own)
         => flusher[f].blind]_flushVars

=============================================================================
