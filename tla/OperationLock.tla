---------------------------- MODULE OperationLock ----------------------------
(***************************************************************************)
(* The repository-scoped operation lock (src/operation_lock.rs): one owner *)
(* file below Git's common directory, taken with create_new, refreshed by  *)
(* rename, given back by unlink, and reclaimed from an owner whose PID is  *)
(* proven dead.                                                            *)
(*                                                                         *)
(* A process runs one lock operation at a time.  Every filesystem call and *)
(* every PID probe is a step of its own, so any number of processes may    *)
(* interleave between a check and the unlink or rename it guards.  A       *)
(* process may be killed between any two steps, and its PID may be reused. *)
(***************************************************************************)
EXTENDS Naturals, FiniteSets

CONSTANTS Pids,      \* process identifiers
          MaxOps,    \* bound: tokens that are ever issued
          MaxCkpt,   \* bound: checkpoints one owner writes
          NoOwner    \* the owner file does not exist

Attempts == 0 .. 2   \* the three attempts of acquire_with_stale_after

(* A token is pid-nanos-sequence: unique, and it names its process.        *)
Token == [pid : Pids, seq : 1 .. MaxOps]

(* What the owner file holds.  written is FALSE between create_new and the *)
(* completed write_all: the bytes then do not parse.                       *)
Owner == [token : Token, written : BOOLEAN, ckpt : 0 .. MaxCkpt]

ASSUME NoOwnerAssumption == NoOwner \notin Owner
ASSUME BoundsAssumption == MaxOps \in Nat /\ MaxCkpt \in Nat

(* The local state of a process: the next step; who runs the dead-owner    *)
(* probe, acquire or recover; its own token (for recover, the operator's); *)
(* the attempt number; the evidence the probe read; and the checkpoint     *)
(* number in the guard's memory.                                           *)
ProbePc == {"probe", "alive1", "reread", "alive2", "remove"}
HeldPc == {"held", "ckpt_verify", "ckpt_rename"}
OwnPc == HeldPc \cup {"write", "unlink", "drop", "drop_unlink"}
Pc == {"dead", "idle", "create", "existing"} \cup ProbePc \cup OwnPc

Process == [pc : Pc, mode : {"acquire", "recover"},
            token : Token \cup {NoOwner}, attempt : Attempts,
            seen : Owner \cup {NoOwner}, mem : 0 .. MaxCkpt]

VARIABLES lock,      \* the owner file: NoOwner or an Owner
          proc,      \* the local state of each process
          next,      \* next token sequence number
          blind      \* history: an unlink or rename hit an owner file other
                     \* than the one the process had verified

vars == <<lock, proc, next, blind>>

At(p, l) == proc[p].pc = l
Alive(p) == proc[p].pc # "dead"

(* The guard exists and its caller may mutate the repository.              *)
Holding(p) == proc[p].pc \in HeldPc

(* read_owner: a missing file and unparsable bytes are errors.             *)
Readable == lock # NoOwner /\ lock.written
ReadsOwn(p) == Readable /\ lock.token = proc[p].token

(* fs::remove_file and fs::rename name a path, not the inode last read.    *)
Overruns(t) == lock # NoOwner /\ lock.token # t

(* A call that ended leaves no local state behind.                         *)
Ended(l) == [pc |-> l, mode |-> "acquire", token |-> NoOwner, attempt |-> 0,
             seen |-> NoOwner, mem |-> 0]

Goto(p, l) == proc' = [proc EXCEPT ![p].pc = l]
Return(p) == proc' = [proc EXCEPT ![p] = Ended("idle")]

Init ==
  /\ lock = NoOwner
  /\ proc = [p \in Pids |-> Ended("idle")]
  /\ next = 1
  /\ blind = FALSE

-----------------------------------------------------------------------------
(* OperationLock::acquire: new_owner draws the token before the loop.      *)
NewOwner(p) ==
  /\ At(p, "idle")
  /\ next <= MaxOps
  /\ proc' = [proc EXCEPT ![p].pc = "create",
                          ![p].token = [pid |-> p, seq |-> next]]
  /\ next' = next + 1
  /\ UNCHANGED <<lock, blind>>

(* The next turn of the attempt loop, or operation_lock_race after three.  *)
Retry(p) ==
  IF proc[p].attempt < 2
  THEN proc' = [proc EXCEPT ![p].pc = "create", ![p].attempt = @ + 1,
                            ![p].seen = NoOwner]
  ELSE Return(p)

(* Mutant: create(true).truncate(true) in place of create_new(true).       *)
CreateTruncating(p) ==
  /\ At(p, "create")
  /\ lock' = [token |-> proc[p].token, written |-> FALSE, ckpt |-> 0]
  /\ Goto(p, "write")
  /\ UNCHANGED <<next, blind>>

(* OpenOptions::create_new: exactly one process creates the file.          *)
CreateNew(p) ==
  /\ At(p, "create")
  /\ \/ /\ lock = NoOwner
        /\ lock' = [token |-> proc[p].token, written |-> FALSE, ckpt |-> 0]
        /\ Goto(p, "write")
     \/ /\ lock # NoOwner
        /\ Goto(p, "probe")
        /\ UNCHANGED lock
     \/ /\ Return(p)                    \* operation_lock_create_failed
        /\ UNCHANGED lock
  /\ UNCHANGED <<next, blind>>

(* write_all and sync_all go to the inode this process created, which may  *)
(* have been unlinked meanwhile; on failure the path is removed.           *)
WriteOwner(p) ==
  /\ At(p, "write")
  /\ \/ /\ lock' = IF lock # NoOwner /\ lock.token = proc[p].token
                   THEN [lock EXCEPT !.written = TRUE] ELSE lock
        /\ Goto(p, "held")
        /\ UNCHANGED blind
     \/ /\ lock' = NoOwner
        /\ blind' = (blind \/ Overruns(proc[p].token))
        /\ Return(p)
  /\ UNCHANGED next

(* existing_lock_error: report contention, or retry if the file is gone.   *)
ReportExisting(p) ==
  /\ At(p, "existing")
  /\ \/ lock # NoOwner /\ Return(p)
     \/ lock = NoOwner /\ Retry(p)
  /\ UNCHANGED <<lock, next, blind>>

-----------------------------------------------------------------------------
(* recover_stale_lock: the operator names the exact token that an earlier  *)
(* lock status reported.                                                   *)
BeginRecovery(p) ==
  /\ At(p, "idle")
  /\ Readable
  /\ proc' = [proc EXCEPT ![p].pc = "probe", ![p].mode = "recover",
                          ![p].token = lock.token]
  /\ UNCHANGED <<lock, next, blind>>

(* A probe that finds no file: acquire tries again, recover reports it.    *)
ProbeGone(p) == IF proc[p].mode = "acquire" THEN Retry(p) ELSE Return(p)

(* A probe that finds a live owner: acquire reports it, recover refuses.   *)
ProbeLive(p) ==
  IF proc[p].mode = "acquire" THEN Goto(p, "existing") ELSE Return(p)

(* The first read of metadata and owner.                                   *)
ReadOwner(p) ==
  /\ At(p, "probe")
  /\ \/ lock = NoOwner /\ ProbeGone(p)
     \/ lock # NoOwner /\ ~Readable /\ Return(p)
     \/ Readable /\ proc' = [proc EXCEPT ![p].pc = "alive1", ![p].seen = lock]
  /\ UNCHANGED <<lock, next, blind>>

(* process_is_alive on the first evidence.  recover also requires the      *)
(* exact token and the stale age; time is not modelled, so age may refuse. *)
ProbeOwner(p) ==
  /\ At(p, "alive1")
  /\ \/ Alive(proc[p].seen.token.pid) /\ ProbeLive(p)
     \/ proc[p].mode = "recover" /\ Return(p)
     \/ /\ ~Alive(proc[p].seen.token.pid)
        /\ proc[p].mode = "recover" => proc[p].seen.token = proc[p].token
        /\ Goto(p, "reread")
  /\ UNCHANGED <<lock, next, blind>>

(* Mutant: only the token is compared and the first evidence is kept.      *)
RereadToken(p) ==
  /\ At(p, "reread")
  /\ \/ lock = NoOwner /\ ProbeGone(p)
     \/ lock # NoOwner /\ lock.token # proc[p].seen.token /\ Return(p)
     \/ Readable /\ lock.token = proc[p].seen.token /\ Goto(p, "alive2")
  /\ UNCHANGED <<lock, next, blind>>

(* The second read must return the identical owner evidence.               *)
RereadOwner(p) ==
  /\ At(p, "reread")
  /\ \/ lock = NoOwner /\ ProbeGone(p)
     \/ lock # NoOwner /\ lock # proc[p].seen /\ Return(p)
     \/ lock = proc[p].seen /\ Goto(p, "alive2")
  /\ UNCHANGED <<lock, next, blind>>

(* The second process_is_alive.                                            *)
ReprobeOwner(p) ==
  /\ At(p, "alive2")
  /\ \/ Alive(proc[p].seen.token.pid) /\ ProbeLive(p)
     \/ ~Alive(proc[p].seen.token.pid) /\ Goto(p, "remove")
  /\ UNCHANGED <<lock, next, blind>>

(* remove_file, then the receipt removed_owner: the evidence last read.    *)
RemoveDead(p) ==
  /\ At(p, "remove")
  /\ lock' = NoOwner
  /\ blind' = (blind \/ Overruns(proc[p].seen.token))
  /\ \/ lock # NoOwner /\ ProbeGone(p)
     \/ lock = NoOwner /\ Return(p)    \* operation_lock_recovery_failed
  /\ UNCHANGED next

-----------------------------------------------------------------------------
(* checkpoint: verify ownership, then number the new evidence in memory.   *)
(* Its refusals leave everything as it was.                                *)
BeginCheckpoint(p) ==
  /\ At(p, "held")
  /\ proc[p].mem < MaxCkpt
  /\ ReadsOwn(p)
  /\ proc' = [proc EXCEPT ![p].pc = "ckpt_verify", ![p].mem = @ + 1]
  /\ UNCHANGED <<lock, next, blind>>

(* persist_checkpoint_bytes: the temporary file is written (or is not),    *)
(* then the owner is read again.                                           *)
VerifyCheckpoint(p) ==
  /\ At(p, "ckpt_verify")
  /\ \/ ReadsOwn(p) /\ Goto(p, "ckpt_rename")
     \/ Goto(p, "held")
  /\ UNCHANGED <<lock, next, blind>>

(* The rename replaces whatever file is at the path.                       *)
RenameCheckpoint(p) ==
  /\ At(p, "ckpt_rename")
  /\ lock' = [token |-> proc[p].token, written |-> TRUE, ckpt |-> proc[p].mem]
  /\ blind' = (blind \/ Overruns(proc[p].token))
  /\ Goto(p, "held")
  /\ UNCHANGED next

(* release_inner reads the owner; a mismatch is an error and Drop follows. *)
BeginRelease(p) ==
  /\ At(p, "held")
  /\ Goto(p, IF ReadsOwn(p) THEN "unlink" ELSE "drop")
  /\ UNCHANGED <<lock, next, blind>>

(* The guard is dropped without release: an error return or a panic.  Drop *)
(* removes the file only if it still carries this guard's token.           *)
DropReads(p) ==
  /\ At(p, "held") \/ At(p, "drop")
  /\ IF ReadsOwn(p) THEN Goto(p, "drop_unlink") ELSE Return(p)
  /\ UNCHANGED <<lock, next, blind>>

(* remove_file of a release (on failure Drop tries again) or of a Drop.    *)
Unlink(p) ==
  /\ At(p, "unlink") \/ At(p, "drop_unlink")
  /\ lock' = NoOwner
  /\ blind' = (blind \/ Overruns(proc[p].token))
  /\ IF At(p, "unlink") /\ lock = NoOwner THEN Goto(p, "drop") ELSE Return(p)
  /\ UNCHANGED next

-----------------------------------------------------------------------------
(* The process is killed: Drop does not run.                               *)
Kill(p) ==
  /\ Alive(p)
  /\ proc' = [proc EXCEPT ![p] = Ended("dead")]
  /\ UNCHANGED <<lock, next, blind>>

(* A new process gets the PID.                                             *)
Spawn(p) ==
  /\ ~Alive(p)
  /\ Goto(p, "idle")
  /\ UNCHANGED <<lock, next, blind>>

Step(p) ==
  \/ NewOwner(p) \/ CreateNew(p) \/ WriteOwner(p) \/ ReportExisting(p)
  \/ BeginRecovery(p) \/ ReadOwner(p) \/ ProbeOwner(p) \/ RereadOwner(p)
  \/ ReprobeOwner(p) \/ RemoveDead(p)
  \/ BeginCheckpoint(p) \/ VerifyCheckpoint(p) \/ RenameCheckpoint(p)
  \/ BeginRelease(p) \/ DropReads(p) \/ Unlink(p)
  \/ Kill(p) \/ Spawn(p)

Next == \E p \in Pids : Step(p)

Spec == Init /\ [][Next]_vars

-----------------------------------------------------------------------------
(* Every variable has the type the code gives it.                          *)
TypeOK ==
  /\ lock \in Owner \cup {NoOwner}
  /\ proc \in [Pids -> Process]
  /\ next \in 1 .. MaxOps + 1
  /\ blind \in BOOLEAN

(* "One local process at a time may mutate a repository" (SPEC.md): no two *)
(* processes hold the guard acquire_with_stale_after returns.              *)
MutualExclusion == \A p, q \in Pids : Holding(p) /\ Holding(q) => p = q

(* The only way exclusion can break is the unlink of an owner file that is *)
(* not the one just verified: as long as no unlink or rename was blind, no *)
(* kill, PID reuse, failed write, retry or operator recovery gives the     *)
(* lock to two processes, and each holder's evidence is at the path.       *)
ExclusiveUnlessBlind ==
  ~blind => /\ MutualExclusion
            /\ \A p \in Pids : Holding(p) => ReadsOwn(p)

(* The receipt of a dead-owner removal (removed_owner) is exactly the      *)
(* evidence being deleted: no checkpoint of the dead owner, in particular  *)
(* no provider-indeterminate one, is deleted unseen.                       *)
ReceiptIsExact ==
  \A p \in Pids :
    At(p, "remove") /\ lock # NoOwner /\ lock.token = proc[p].seen.token
      => lock = proc[p].seen
=============================================================================
