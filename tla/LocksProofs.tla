---------------------------- MODULE LocksProofs ----------------------------
(***************************************************************************)
(* What MCLocks checks: the operation lock, and the landing of a native    *)
(* Stack under its ruleset lock.                                           *)
(*                                                                         *)
(* The operation lock.                                                     *)
(* For any set of PIDs and any bounds: exclusion fails only through a      *)
(* blind unlink, and a removal receipt is exactly the evidence removed.    *)
(*                                                                         *)
(* The argument.  A token names its process and is never reissued, so an   *)
(* owner record whose token is not that of a process between create and    *)
(* give-back belongs to an operation that is over for good (DeadSeen).  The*)
(* first liveness probe establishes that for the record the prober read,   *)
(* and no later step can undo it; hence the second read sees bytes nobody  *)
(* can change any more (Exact), and an unlink that hits the record it      *)
(* verified takes nothing from a live owner (OwnAtPath).                   *)
(*                                                                         *)
(* The landing.                                                            *)
(* Proofs about StackLanding for Stacks of any height and any number of    *)
(* landings, faults and events outside the tick.                           *)
(*                                                                         *)
(* The runs' invariants speak of the disk and of the provider; what keeps  *)
(* them is what the tick holds in memory.  MemoryOK says, for every place  *)
(* of the ladder, how the checkpoint in memory is related to the cursor on *)
(* disk, and that a submission that may still be sent has not been sent.   *)
(* OpOK says of every operation what its plan, its request and its archive *)
(* say of each other; Sound what a checkpoint claims.                      *)
(***************************************************************************)
EXTENDS OperationLock, StackLanding, TLAPS

(* An acquiring process carries its own, already issued token; recover is  *)
(* only ever inside the probe.                                             *)
OwnToken(p) ==
  /\ proc[p].mode = "recover" => proc[p].pc \in ProbePc
  /\ proc[p].mode = "acquire" /\ proc[p].pc \notin {"dead", "idle"}
       => /\ proc[p].token \in Token
          /\ proc[p].token.pid = p
          /\ proc[p].token.seq < next

(* The probe's later steps have evidence to look at.                       *)
HasSeen(p) ==
  proc[p].pc \in {"alive1", "reread", "alive2", "remove"} => proc[p].seen \in Owner

(* Tokens on disk and in evidence have been issued.                        *)
Issued ==
  /\ lock # NoOwner => lock.token.seq < next
  /\ \A p \in Pids : proc[p].seen # NoOwner => proc[p].seen.token.seq < next

(* A token whose operation has not created the file yet is nowhere else.   *)
BeforeCreate(p) ==
  proc[p].mode = "acquire" /\ proc[p].pc \in {"create", "existing"} \cup ProbePc
Fresh(p) ==
  BeforeCreate(p) =>
    /\ lock # NoOwner => lock.token # proc[p].token
    /\ \A q \in Pids : proc[q].seen # NoOwner => proc[q].seen.token # proc[p].token

(* Between create and give-back the file at the path is the process's own. *)
OwnAtPath(p) ==
  ~blind /\ proc[p].pc \in OwnPc =>
    /\ lock # NoOwner
    /\ lock.token = proc[p].token
    /\ lock.written <=> proc[p].pc # "write"

(* Once the first probe found the owner dead, no process has its token.    *)
DeadSeen(p) ==
  proc[p].pc \in {"reread", "alive2", "remove"} =>
    \A q \in Pids : proc[q].pc \in OwnPc => proc[q].token # proc[p].seen.token

(* From the second read on, the record at the path cannot change.          *)
Exact(p) ==
  /\ proc[p].pc \in {"alive2", "remove"}
  /\ lock # NoOwner
  /\ lock.token = proc[p].seen.token
  => lock = proc[p].seen

Inv ==
  /\ TypeOK
  /\ Issued
  /\ \A p \in Pids : /\ OwnToken(p)
                     /\ HasSeen(p)
                     /\ Fresh(p)
                     /\ OwnAtPath(p)
                     /\ DeadSeen(p)
                     /\ Exact(p)
-----------------------------------------------------------------------------
(* A jump changes the step of one process and nothing else.                *)
LEMMA GotoEffect ==
  ASSUME TypeOK, NEW p \in Pids, NEW l \in Pc, Goto(p, l)
  PROVE  /\ proc' \in [Pids -> Process]
         /\ proc'[p].pc = l
         /\ proc'[p].mode = proc[p].mode
         /\ proc'[p].token = proc[p].token
         /\ proc'[p].seen = proc[p].seen
         /\ \A q \in Pids \ {p} : proc'[q] = proc[q]
  BY DEF TypeOK, Goto, Process

(* A call that ends forgets its local state.                               *)
LEMMA ReturnEffect ==
  ASSUME TypeOK, NEW p \in Pids, Return(p)
  PROVE  /\ proc' \in [Pids -> Process]
         /\ proc'[p] = Ended("idle")
         /\ \A q \in Pids \ {p} : proc'[q] = proc[q]
  BY BoundsAssumption DEF TypeOK, Return, Ended, Process, Pc, Attempts

(* A retry keeps the token and forgets the evidence, or ends the call.     *)
LEMMA RetryEffect ==
  ASSUME TypeOK, NEW p \in Pids, Retry(p)
  PROVE  /\ proc' \in [Pids -> Process]
         /\ \A q \in Pids \ {p} : proc'[q] = proc[q]
         /\ \/ Return(p)
            \/ /\ proc'[p].pc = "create"
               /\ proc'[p].mode = proc[p].mode
               /\ proc'[p].token = proc[p].token
               /\ proc'[p].seen = NoOwner
<1>1. CASE proc[p].attempt < 2
  BY <1>1 DEF TypeOK, Retry, Process, Pc, Attempts
<1>2. CASE ~(proc[p].attempt < 2)
  BY <1>2, ReturnEffect DEF Retry
<1>3. QED
  BY <1>1, <1>2
-----------------------------------------------------------------------------
(* The invariant holds initially.                                          *)
LEMMA InitInv == Init => Inv
<1> SUFFICES ASSUME Init PROVE Inv
  OBVIOUS
<1>1. Ended("idle") \in Process
  BY BoundsAssumption DEF Ended, Process, Pc, Attempts
<1>2. TypeOK
  <2>1. proc \in [Pids -> Process]
    BY <1>1 DEF Init
  <2>2. blind \in BOOLEAN
    BY Zenon DEF Init
  <2>3. next \in 1 .. MaxOps + 1
    BY BoundsAssumption DEF Init
  <2>4. QED
    BY <2>1, <2>2, <2>3 DEF Init, TypeOK
<1>3. ASSUME NEW p \in Pids
      PROVE /\ proc[p].pc = "idle"
            /\ proc[p].mode = "acquire"
            /\ proc[p].seen = NoOwner
  BY DEF Init, Ended
<1>4. QED
  BY <1>2, <1>3
  DEF Init, Inv, Issued, OwnToken, HasSeen, BeforeCreate, Fresh,
      OwnAtPath, DeadSeen, Exact, ProbePc, OwnPc, HeldPc

(* A step that leaves the file alone and ends the call of p.               *)
LEMMA QuietEnd ==
  ASSUME Inv, NEW p \in Pids, UNCHANGED <<lock, next, blind>>,
         proc' \in [Pids -> Process],
         \A q \in Pids \ {p} : proc'[q] = proc[q],
         proc'[p].pc \in {"idle", "dead"}, proc'[p].mode = "acquire",
         proc'[p].seen \in {proc[p].seen, NoOwner}
  PROVE  Inv'
<1>1. TypeOK' /\ Issued'
  BY DEF Inv, TypeOK, Issued
<1>2. ASSUME NEW q \in Pids
      PROVE  /\ OwnToken(q)' /\ HasSeen(q)' /\ Fresh(q)' /\ OwnAtPath(q)'
             /\ DeadSeen(q)' /\ Exact(q)'
  <2>1. CASE q = p
    BY <2>1 DEF OwnToken, HasSeen, Fresh, BeforeCreate, OwnAtPath,
                DeadSeen, Exact, ProbePc, OwnPc, HeldPc
  <2>2. CASE q # p
    <3>1. proc'[q] = proc[q]
      BY <2>2
    <3>2. OwnToken(q)' /\ HasSeen(q)' /\ OwnAtPath(q)' /\ Exact(q)'
      BY <3>1 DEF Inv, OwnToken, HasSeen, OwnAtPath, Exact
    <3>3. Fresh(q)'
      BY <3>1 DEF Inv, Fresh, BeforeCreate
    <3>4. DeadSeen(q)'
      BY <3>1 DEF Inv, DeadSeen, OwnPc, HeldPc
    <3>5. QED BY <3>2, <3>3, <3>4
  <2>3. QED BY <2>1, <2>2
<1>3. QED
  BY <1>1, <1>2 DEF Inv

(* A step that leaves the file alone and moves p inside its call.  The     *)
(* last five hypotheses say what the new step of p may take for granted.   *)
LEMMA QuietMove ==
  ASSUME Inv, NEW p \in Pids, UNCHANGED <<lock, next, blind>>,
         proc' \in [Pids -> Process],
         \A q \in Pids \ {p} : proc'[q] = proc[q],
         proc'[p].mode = proc[p].mode, proc'[p].token = proc[p].token,
         proc'[p].seen \in {proc[p].seen, NoOwner},
         proc[p].pc \notin {"dead", "idle"},
         proc[p].mode = "recover" => proc'[p].pc \in ProbePc,
         proc'[p].pc \in {"alive1", "reread", "alive2", "remove"}
            => proc'[p].seen \in Owner,
         proc'[p].pc \in {"create", "existing"} \cup ProbePc
            => proc[p].pc \in {"create", "existing"} \cup ProbePc,
         proc'[p].pc \in OwnPc
            => proc[p].pc \in OwnPc \ {"write"} /\ proc'[p].pc # "write",
         proc'[p].pc \in {"reread", "alive2", "remove"}
            => \/ proc[p].pc \in {"reread", "alive2", "remove"}
               \/ ~Alive(proc[p].seen.token.pid),
         proc'[p].pc \in {"alive2", "remove"}
            => \/ proc[p].pc \in {"alive2", "remove"}
               \/ lock = proc[p].seen
  PROVE  Inv'
<1>1. TypeOK' /\ Issued'
  BY DEF Inv, TypeOK, Issued
<1>2. ASSUME NEW q \in Pids
      PROVE  OwnToken(q)' /\ HasSeen(q)' /\ OwnAtPath(q)'
  <2>1. CASE q = p
    BY <2>1 DEF Inv, OwnToken, HasSeen, OwnAtPath
  <2>2. CASE q # p
    BY <2>2 DEF Inv, OwnToken, HasSeen, OwnAtPath
  <2>3. QED BY <2>1, <2>2
<1>3. ASSUME NEW q \in Pids PROVE Fresh(q)'
  <2>1. BeforeCreate(q)' => BeforeCreate(q)
    BY DEF BeforeCreate
  <2>2. proc'[q].token = proc[q].token
    BY DEF Inv
  <2>3. ASSUME NEW r \in Pids, proc'[r].seen # NoOwner
        PROVE  proc'[r].seen = proc[r].seen
    BY <2>3
  <2>4. QED
    BY <2>1, <2>2, <2>3 DEF Inv, Fresh
<1>4. ASSUME NEW q \in Pids PROVE DeadSeen(q)'
  <2>1. ASSUME NEW r \in Pids, proc'[r].pc \in OwnPc
        PROVE  /\ proc[r].pc \in OwnPc
               /\ proc'[r].token = proc[r].token
               /\ proc[r].token \in Token
               /\ proc[r].token.pid = r
               /\ Alive(r)
    <3>1. proc[r].pc \in OwnPc /\ proc'[r].token = proc[r].token
      BY <2>1
    <3>2. proc[r].mode = "acquire"
      BY <3>1 DEF Inv, TypeOK, Process, OwnToken, OwnPc, HeldPc, ProbePc
    <3>3. QED
      BY <3>1, <3>2 DEF Inv, OwnToken, OwnPc, HeldPc, Alive
  <2>2. proc'[q].pc \in {"reread", "alive2", "remove"}
          => proc'[q].seen = proc[q].seen
    BY NoOwnerAssumption
  <2>3. CASE q = p
    BY <2>1, <2>2, <2>3 DEF Inv, DeadSeen
  <2>4. CASE q # p
    BY <2>1, <2>2, <2>4 DEF Inv, DeadSeen
  <2>5. QED BY <2>3, <2>4
<1>5. ASSUME NEW q \in Pids PROVE Exact(q)'
  <2>1. CASE q = p
    BY <2>1, NoOwnerAssumption DEF Inv, Exact
  <2>2. CASE q # p
    BY <2>2 DEF Inv, Exact
  <2>3. QED BY <2>1, <2>2
<1>6. QED
  BY <1>1, <1>2, <1>3, <1>4, <1>5 DEF Inv

(* The unlink of a path by p, when no process still owns the token that p  *)
(* verified and p does not own one afterwards.                             *)
LEMMA UnlinkStep ==
  ASSUME Inv, NEW p \in Pids, NEW t,
         lock' = NoOwner, blind' = (blind \/ Overruns(t)), next' = next,
         proc' \in [Pids -> Process],
         \A q \in Pids \ {p} : proc'[q] = proc[q],
         \/ /\ proc'[p].pc = "idle"
            /\ proc'[p].mode = "acquire"
         \/ /\ proc'[p].pc = "create"
            /\ proc'[p].mode = "acquire"
            /\ proc[p].mode = "acquire"
            /\ proc[p].pc \in ProbePc
            /\ proc'[p].token = proc[p].token
         \/ proc'[p].pc = "drop" /\ blind /\ proc[p].pc \in OwnPc
              /\ proc'[p].token = proc[p].token /\ proc'[p].mode = proc[p].mode,
         proc'[p].seen \in {proc[p].seen, NoOwner},
         \A q \in Pids \ {p} : proc[q].pc \in OwnPc => proc[q].token # t
  PROVE  Inv'
<1>1. TypeOK'
  <2>1. blind' \in BOOLEAN
    BY Zenon
  <2>2. QED
    BY <2>1 DEF Inv, TypeOK
<1>2. Issued'
  BY DEF Inv, Issued
<1>3. ASSUME NEW q \in Pids
      PROVE  OwnToken(q)' /\ HasSeen(q)' /\ Exact(q)'
  <2>1. CASE q = p
    BY <2>1 DEF Inv, OwnToken, HasSeen, Exact, OwnPc, HeldPc, ProbePc
  <2>2. CASE q # p
    BY <2>2 DEF Inv, OwnToken, HasSeen, Exact
  <2>3. QED BY <2>1, <2>2
<1>4. ASSUME NEW q \in Pids PROVE Fresh(q)'
  <2>1. BeforeCreate(q)' => BeforeCreate(q) /\ proc'[q].token = proc[q].token
    BY DEF BeforeCreate, ProbePc
  <2>2. ASSUME NEW r \in Pids, proc'[r].seen # NoOwner
        PROVE  proc'[r].seen = proc[r].seen
    BY <2>2
  <2>3. QED
    BY <2>1, <2>2 DEF Inv, Fresh
<1>5. ASSUME NEW q \in Pids PROVE OwnAtPath(q)'
  <2>1. SUFFICES ASSUME ~blind', proc'[q].pc \in OwnPc PROVE FALSE
    BY DEF OwnAtPath
  <2>2. ~blind /\ ~Overruns(t)
    BY <2>1, Zenon
  <2>3. q # p
    BY <2>1, <2>2 DEF OwnPc, HeldPc
  <2>4. proc[q].pc \in OwnPc
    BY <2>1, <2>3
  <2>5. lock # NoOwner /\ lock.token = proc[q].token
    BY <2>2, <2>4 DEF Inv, OwnAtPath
  <2>6. QED
    BY <2>2, <2>3, <2>4, <2>5 DEF Overruns
<1>6. ASSUME NEW q \in Pids PROVE DeadSeen(q)'
  <2>1. proc'[q].pc \in {"reread", "alive2", "remove"} => proc'[q] = proc[q]
    OBVIOUS
  <2>2. ASSUME NEW r \in Pids, proc'[r].pc \in OwnPc
        PROVE  proc[r].pc \in OwnPc /\ proc'[r].token = proc[r].token
    BY <2>2 DEF OwnPc, HeldPc
  <2>3. QED
    BY <2>1, <2>2 DEF Inv, DeadSeen
<1>7. QED
  BY <1>1, <1>2, <1>3, <1>4, <1>5, <1>6 DEF Inv

(* A write to the file by its owner p: the create, the completed first     *)
(* write, or a checkpoint's rename.                                        *)
LEMMA WriteStep ==
  ASSUME Inv, NEW p \in Pids, next' = next,
         proc' \in [Pids -> Process],
         \A q \in Pids \ {p} : proc'[q] = proc[q],
         proc'[p].mode = proc[p].mode, proc'[p].token = proc[p].token,
         proc'[p].seen = proc[p].seen,
         proc[p].mode = "acquire",
         lock' \in Owner, lock'.token = proc[p].token,
         proc'[p].pc \in {"write", "held"},
         lock'.written <=> proc'[p].pc # "write",
         blind' = (blind \/ Overruns(proc[p].token)),
         \/ proc[p].pc \in OwnPc
         \/ proc[p].pc = "create" /\ lock = NoOwner
  PROVE  Inv'
<1>1. TypeOK'
  <2>1. blind' \in BOOLEAN
    BY Zenon
  <2>2. QED
    BY <2>1 DEF Inv, TypeOK
<1>2. /\ proc[p].token \in Token
      /\ proc[p].token.pid = p
      /\ proc[p].token.seq < next
  BY DEF Inv, OwnToken, OwnPc, HeldPc
<1>3. Issued'
  <2>1. \A q \in Pids : proc'[q].seen = proc[q].seen
    OBVIOUS
  <2>2. QED
    BY <1>2, <2>1 DEF Inv, Issued
<1>4. ASSUME NEW q \in Pids PROVE OwnToken(q)' /\ HasSeen(q)'
  <2>1. CASE q = p
    BY <2>1, <1>2 DEF OwnToken, HasSeen
  <2>2. CASE q # p
    BY <2>2 DEF Inv, OwnToken, HasSeen
  <2>3. QED BY <2>1, <2>2
<1>5. ASSUME NEW q \in Pids PROVE Fresh(q)'
  <2>1. BeforeCreate(q)' => q # p /\ BeforeCreate(q)
    BY DEF BeforeCreate, ProbePc
  <2>2. BeforeCreate(q) /\ q # p => proc[q].token # proc[p].token
    BY <1>2 DEF Inv, BeforeCreate, OwnToken, ProbePc
  <2>3. \A r \in Pids : proc'[r].seen = proc[r].seen
    OBVIOUS
  <2>4. QED
    BY <2>1, <2>2, <2>3 DEF Inv, Fresh
<1>6. ASSUME NEW q \in Pids PROVE OwnAtPath(q)'
  <2>1. CASE q = p
    BY <2>1, NoOwnerAssumption DEF OwnAtPath
  <2>2. CASE q # p
    <3>1. SUFFICES ASSUME ~blind', proc[q].pc \in OwnPc PROVE FALSE
      BY <2>2 DEF OwnAtPath
    <3>2. ~blind /\ ~Overruns(proc[p].token)
      BY <3>1, Zenon
    <3>3. lock # NoOwner /\ lock.token = proc[q].token
      BY <3>1, <3>2 DEF Inv, OwnAtPath
    <3>4. proc[q].mode = "acquire"
      BY <3>1 DEF Inv, TypeOK, Process, OwnToken, OwnPc, HeldPc, ProbePc
    <3>5. proc[q].token.pid = q
      BY <3>1, <3>4 DEF Inv, OwnToken, OwnPc, HeldPc
    <3>6. QED
      BY <2>2, <3>2, <3>3, <3>5, <1>2 DEF Overruns
  <2>3. QED BY <2>1, <2>2
<1>7. ASSUME NEW q \in Pids, proc'[q].pc \in {"reread", "alive2", "remove"}
      PROVE  /\ proc'[q] = proc[q]
             /\ proc[p].token # proc[q].seen.token
  <2>1. q # p /\ proc'[q] = proc[q]
    BY <1>7
  <2>2. CASE proc[p].pc \in OwnPc
    BY <1>7, <2>1, <2>2 DEF Inv, DeadSeen
  <2>3. CASE proc[p].pc = "create"
    <3>1. proc[q].seen # NoOwner
      BY <1>7, <2>1, NoOwnerAssumption DEF Inv, HasSeen
    <3>2. QED
      BY <2>1, <3>1, <2>3 DEF Inv, Fresh, BeforeCreate
  <2>4. QED BY <2>1, <2>2, <2>3
<1>8. ASSUME NEW q \in Pids PROVE DeadSeen(q)'
  BY <1>7 DEF Inv, DeadSeen
<1>9. ASSUME NEW q \in Pids PROVE Exact(q)'
  BY <1>7 DEF Exact
<1>10. QED
  BY <1>1, <1>3, <1>4, <1>5, <1>6, <1>8, <1>9 DEF Inv

(* Two processes between create and give-back have different tokens.       *)
LEMMA OthersToken ==
  ASSUME Inv, NEW p \in Pids, NEW q \in Pids \ {p},
         proc[p].token.pid = p, proc[q].pc \in OwnPc
  PROVE  proc[q].token # proc[p].token
<1>1. proc[q].mode = "acquire"
  BY DEF Inv, TypeOK, Process, OwnToken, OwnPc, HeldPc, ProbePc
<1>2. QED
  BY <1>1 DEF Inv, OwnToken, OwnPc, HeldPc

(* The first write of p reaches an inode that a blind unlink took away.    *)
LEMMA QuietLost ==
  ASSUME Inv, NEW p \in Pids, UNCHANGED <<lock, next, blind>>, blind,
         proc' \in [Pids -> Process],
         \A q \in Pids \ {p} : proc'[q] = proc[q],
         proc'[p].mode = proc[p].mode, proc'[p].token = proc[p].token,
         proc'[p].seen = proc[p].seen,
         proc[p].mode = "acquire", proc[p].pc = "write", proc'[p].pc = "held"
  PROVE  Inv'
<1>1. TypeOK' /\ Issued'
  BY DEF Inv, TypeOK, Issued
<1>2. ASSUME NEW q \in Pids
      PROVE  /\ OwnToken(q)' /\ HasSeen(q)' /\ OwnAtPath(q)' /\ Exact(q)'
             /\ Fresh(q)' /\ DeadSeen(q)'
  <2>1. /\ proc'[q].mode = proc[q].mode /\ proc'[q].token = proc[q].token
        /\ proc'[q].seen = proc[q].seen
        /\ q # p => proc'[q].pc = proc[q].pc
    OBVIOUS
  <2>2. OwnToken(q)' /\ HasSeen(q)' /\ OwnAtPath(q)' /\ Exact(q)'
    BY <2>1 DEF Inv, OwnToken, HasSeen, OwnAtPath, Exact, ProbePc
  <2>3. Fresh(q)'
    BY <2>1 DEF Inv, Fresh, BeforeCreate, ProbePc
  <2>4. ASSUME NEW r \in Pids, proc'[r].pc \in OwnPc
        PROVE  proc[r].pc \in OwnPc /\ proc'[r].token = proc[r].token
    BY <2>4 DEF OwnPc
  <2>5. DeadSeen(q)'
    BY <2>1, <2>4 DEF Inv, DeadSeen
  <2>6. QED BY <2>2, <2>3, <2>5
<1>3. QED
  BY <1>1, <1>2 DEF Inv

(* A new operation draws a token no file, no evidence and no process has.  *)
LEMMA NewOwnerStep ==
  ASSUME Inv, NEW p \in Pids, NewOwner(p)
  PROVE  Inv'
<1> DEFINE t == [pid |-> p, seq |-> next]
<1>1. /\ t \in Token /\ t.pid = p /\ t.seq = next /\ next \in Nat
      /\ next' = next + 1 /\ lock' = lock /\ blind' = blind
      /\ next' \in 1 .. MaxOps + 1
  BY BoundsAssumption DEF NewOwner, Inv, TypeOK, Token
<1>2. /\ proc' \in [Pids -> Process]
      /\ \A q \in Pids \ {p} : proc'[q] = proc[q]
      /\ proc'[p].pc = "create" /\ proc'[p].mode = proc[p].mode
      /\ proc'[p].token = t /\ proc'[p].seen = proc[p].seen
  BY ZenonT(40), <1>1 DEF NewOwner, Inv, TypeOK, Process, Pc
<1>3. proc[p].mode = "acquire"
  BY DEF NewOwner, At, Inv, TypeOK, Process, OwnToken, ProbePc
<1> HIDE DEF t
<1>4. TypeOK'
  BY <1>1, <1>2 DEF Inv, TypeOK
<1>5. \A n \in Nat : n < next => n < next' /\ n # next
  BY <1>1
<1>6. /\ lock # NoOwner => lock.token.seq \in Nat /\ lock.token.seq < next
      /\ \A q \in Pids : proc[q].seen # NoOwner
           => proc[q].seen.token.seq \in Nat /\ proc[q].seen.token.seq < next
  BY DEF Inv, TypeOK, Issued, Process, Owner, Token
<1>7. Issued'
  <2>1. \A q \in Pids : proc'[q].seen = proc[q].seen
    BY <1>2
  <2>2. QED
    BY <2>1, <1>1, <1>5, <1>6 DEF Issued
<1>8. ASSUME NEW q \in Pids PROVE OwnToken(q)' /\ HasSeen(q)'
  <2>1. CASE q = p
    BY <2>1, <1>1, <1>2, <1>3 DEF OwnToken, HasSeen
  <2>2. CASE q # p
    <3>1. proc'[q] = proc[q]
      BY <2>2, <1>2
    <3>2. proc[q].token \in Token => proc[q].token.seq \in Nat
      BY DEF Token
    <3>3. QED
      BY <3>1, <3>2, <1>5 DEF Inv, OwnToken, HasSeen
  <2>3. QED BY <2>1, <2>2
<1>9. ASSUME NEW q \in Pids PROVE Fresh(q)'
  <2>1. CASE q = p
    BY <2>1, <1>1, <1>2, <1>6 DEF Fresh
  <2>2. CASE q # p
    BY <2>2, <1>1, <1>2 DEF Inv, Fresh, BeforeCreate
  <2>3. QED BY <2>1, <2>2
<1>10. ASSUME NEW q \in Pids
       PROVE  OwnAtPath(q)' /\ DeadSeen(q)' /\ Exact(q)'
  <2>1. CASE q = p
    BY <2>1, <1>2 DEF OwnAtPath, DeadSeen, Exact, OwnPc, HeldPc
  <2>2. CASE q # p
    BY <2>2, <1>1, <1>2 DEF Inv, OwnAtPath, DeadSeen, Exact, OwnPc, HeldPc
  <2>3. QED BY <2>1, <2>2
<1>11. QED
  BY <1>4, <1>7, <1>8, <1>9, <1>10 DEF Inv

(* The first read of the probe copies an issued owner record.              *)
LEMMA FirstReadStep ==
  ASSUME Inv, NEW p \in Pids, At(p, "probe"), Readable,
         proc' = [proc EXCEPT ![p].pc = "alive1", ![p].seen = lock],
         UNCHANGED <<lock, next, blind>>
  PROVE  Inv'
<1>1. lock \in Owner
  BY DEF Inv, TypeOK, Readable
<1>2. /\ proc' \in [Pids -> Process]
      /\ \A q \in Pids \ {p} : proc'[q] = proc[q]
      /\ proc'[p].pc = "alive1" /\ proc'[p].mode = proc[p].mode
      /\ proc'[p].token = proc[p].token /\ proc'[p].seen = lock
  BY ZenonT(40), <1>1 DEF Inv, TypeOK, Process, Pc, ProbePc
<1>3. TypeOK' /\ Issued'
  BY <1>1, <1>2 DEF Inv, TypeOK, Issued
<1>4. ASSUME NEW q \in Pids
      PROVE  OwnToken(q)' /\ HasSeen(q)' /\ OwnAtPath(q)' /\ Exact(q)'
  <2>1. CASE q = p
    BY <2>1, <1>1, <1>2
    DEF Inv, At, OwnToken, HasSeen, OwnAtPath, Exact, OwnPc, HeldPc, ProbePc
  <2>2. CASE q # p
    BY <2>2, <1>2 DEF Inv, OwnToken, HasSeen, OwnAtPath, Exact
  <2>3. QED BY <2>1, <2>2
<1>5. ASSUME NEW q \in Pids PROVE Fresh(q)'
  <2>1. BeforeCreate(q)' => BeforeCreate(q) /\ proc'[q].token = proc[q].token
    BY <1>2 DEF BeforeCreate, At, ProbePc
  <2>2. QED
    BY <2>1, <1>2, <1>1, NoOwnerAssumption DEF Inv, Fresh
<1>6. ASSUME NEW q \in Pids PROVE DeadSeen(q)'
  <2>1. proc'[q].pc \in {"reread", "alive2", "remove"} => proc'[q] = proc[q]
    BY <1>2
  <2>2. ASSUME NEW r \in Pids, proc'[r].pc \in OwnPc PROVE proc'[r] = proc[r]
    BY <2>2, <1>2 DEF OwnPc, HeldPc
  <2>3. QED
    BY ZenonT(40), <2>1, <2>2 DEF Inv, DeadSeen
<1>7. QED
  BY <1>3, <1>4, <1>5, <1>6 DEF Inv

(* An operator's recovery starts with the token lock status reported.      *)
LEMMA BeginRecoveryStep ==
  ASSUME Inv, NEW p \in Pids, BeginRecovery(p)
  PROVE  Inv'
<1>1. /\ proc' \in [Pids -> Process]
      /\ \A q \in Pids \ {p} : proc'[q] = proc[q]
      /\ proc'[p].pc = "probe" /\ proc'[p].mode = "recover"
      /\ proc'[p].seen = proc[p].seen
  <2> DEFINE t == lock.token
  <2>1. /\ proc' = [proc EXCEPT ![p].pc = "probe", ![p].mode = "recover",
                                ![p].token = t]
        /\ t \in Token
    BY DEF BeginRecovery, Readable, Inv, TypeOK, Owner
  <2> HIDE DEF t
  <2>2. "probe" \in Pc
    BY DEF Pc, ProbePc
  <2>3. proc \in [Pids -> Process]
    BY DEF Inv, TypeOK
  <2> DEFINE r == [proc[p] EXCEPT !.pc = "probe", !.mode = "recover", !.token = t]
  <2>4. /\ r \in Process /\ r.pc = "probe" /\ r.mode = "recover"
        /\ r.seen = proc[p].seen
    BY <2>1, <2>2, <2>3 DEF Process
  <2>5. proc' = [proc EXCEPT ![p] = r]
    BY <2>1
  <2> HIDE DEF r
  <2>6. QED
    BY <2>3, <2>4, <2>5
<1>2. UNCHANGED <<lock, next, blind>>
  BY DEF BeginRecovery
<1>3. TypeOK' /\ Issued'
  BY <1>1, <1>2 DEF Inv, TypeOK, Issued
<1>4. ASSUME NEW q \in Pids
      PROVE  /\ OwnToken(q)' /\ HasSeen(q)' /\ Fresh(q)' /\ OwnAtPath(q)'
             /\ DeadSeen(q)' /\ Exact(q)'
  <2>1. CASE q = p
    BY <2>1, <1>1, <1>2
    DEF OwnToken, HasSeen, Fresh, BeforeCreate, OwnAtPath, DeadSeen,
        Exact, OwnPc, HeldPc, ProbePc
  <2>2. CASE q # p
    <3>1. proc'[q] = proc[q]
      BY <2>2, <1>1
    <3>2. OwnToken(q)' /\ HasSeen(q)' /\ OwnAtPath(q)' /\ Exact(q)'
      BY <3>1, <1>2 DEF Inv, OwnToken, HasSeen, OwnAtPath, Exact
    <3>3. Fresh(q)'
      BY <3>1, <1>1, <1>2 DEF Inv, Fresh, BeforeCreate
    <3>4. DeadSeen(q)'
      BY <3>1, <1>1, <1>2 DEF Inv, DeadSeen, OwnPc, HeldPc
    <3>5. QED BY <3>2, <3>3, <3>4
  <2>3. QED BY <2>1, <2>2
<1>5. QED
  BY <1>3, <1>4 DEF Inv

-----------------------------------------------------------------------------
(* Every step of every process preserves the invariant.                    *)
LEMMA StepInv ==
  ASSUME Inv, NEW p \in Pids, Step(p)
  PROVE  Inv'
<1>0. TypeOK
  BY DEF Inv
<1>t. /\ proc[p].mode \in {"acquire", "recover"}
      /\ proc[p].pc \in Pc
      /\ proc[p].mode = "recover" => proc[p].pc \in ProbePc
      /\ proc[p].pc \in {"alive1", "reread", "alive2", "remove"}
           => proc[p].seen \in Owner
  BY DEF Inv, TypeOK, Process, OwnToken, HasSeen
<1>r. Return(p) => /\ proc' \in [Pids -> Process]
                   /\ \A q \in Pids \ {p} : proc'[q] = proc[q]
                   /\ proc'[p].pc = "idle"
                   /\ proc'[p].mode = "acquire"
                   /\ proc'[p].seen = NoOwner
  BY <1>0, ReturnEffect DEF Ended
<1>e. Return(p) /\ UNCHANGED <<lock, next, blind>> => Inv'
  BY <1>r, QuietEnd
<1>y. ASSUME Retry(p), UNCHANGED <<lock, next, blind>>,
             proc[p].mode = "acquire", proc[p].pc \in {"existing"} \cup ProbePc
      PROVE  Inv'
  <2>1. CASE Return(p)
    BY <2>1, <1>y, <1>e
  <2>2. CASE ~Return(p)
    BY <2>2, <1>y, <1>0, RetryEffect, QuietMove DEF ProbePc, OwnPc, HeldPc
  <2>3. QED BY <2>1, <2>2
<1>l. ASSUME ProbeLive(p), UNCHANGED <<lock, next, blind>>, proc[p].pc \in ProbePc
      PROVE  Inv'
  <2>1. "existing" \in Pc
    BY DEF Pc
  <2>2. CASE proc[p].mode = "acquire"
    BY <1>l, <2>1, <2>2, <1>0, GotoEffect, QuietMove
    DEF ProbeLive, ProbePc, OwnPc, HeldPc
  <2>3. CASE proc[p].mode # "acquire"
    BY <1>l, <2>3, <1>e DEF ProbeLive
  <2>4. QED BY <2>2, <2>3
<1>m. ASSUME NEW l \in OwnPc \ {"write"}, Goto(p, l), UNCHANGED <<lock, next, blind>>,
             proc[p].pc \in OwnPc \ {"write"}, proc[p].mode = "acquire"
      PROVE  Inv'
  <2>1. l \in Pc
    BY DEF Pc
  <2>2. QED
    BY <1>m, <2>1, <1>0, GotoEffect, QuietMove DEF ProbePc, OwnPc, HeldPc
<1>1. CASE NewOwner(p)
  BY <1>1, NewOwnerStep
<1>2. CASE CreateNew(p)
  <2>0. proc[p].pc = "create" /\ proc[p].mode = "acquire" /\ UNCHANGED <<next, blind>>
    BY <1>2, <1>t DEF CreateNew, At, ProbePc
  <2>1. CASE /\ lock = NoOwner
             /\ lock' = [token |-> proc[p].token, written |-> FALSE, ckpt |-> 0]
             /\ Goto(p, "write")
    <3>1. proc[p].token \in Token
      BY <2>0 DEF Inv, OwnToken
    <3>2. lock' \in Owner /\ lock'.token = proc[p].token /\ lock'.written = FALSE
      BY <2>1, <3>1, BoundsAssumption DEF Owner
    <3>3. blind' = (blind \/ Overruns(proc[p].token))
      BY <2>0, <2>1, <1>0, Zenon DEF Overruns, TypeOK
    <3>4. "write" \in Pc
      BY DEF Pc, OwnPc
    <3>5. QED
      BY <2>0, <2>1, <3>2, <3>3, <3>4, <1>0, GotoEffect, WriteStep
  <2>2. CASE Goto(p, "probe") /\ UNCHANGED lock
    <3>1. "probe" \in Pc
      BY DEF Pc, ProbePc
    <3>2. QED
      BY <2>0, <2>2, <3>1, <1>0, GotoEffect, QuietMove DEF ProbePc, OwnPc, HeldPc
  <2>3. CASE Return(p) /\ UNCHANGED lock
    BY <2>0, <2>3, <1>e
  <2>4. QED
    BY <1>2, <2>1, <2>2, <2>3 DEF CreateNew
<1>3. CASE WriteOwner(p)
  <2>0. proc[p].pc = "write" /\ proc[p].mode = "acquire" /\ next' = next
    BY <1>3, <1>t DEF WriteOwner, At, ProbePc
  <2>1. /\ proc[p].token \in Token
        /\ proc[p].token.pid = p
    BY <2>0 DEF Inv, OwnToken
  <2>2. CASE /\ lock' = IF lock # NoOwner /\ lock.token = proc[p].token
                        THEN [lock EXCEPT !.written = TRUE] ELSE lock
             /\ Goto(p, "held")
             /\ UNCHANGED blind
    <3>1. "held" \in Pc
      BY DEF Pc, OwnPc, HeldPc
    <3>2. CASE lock # NoOwner /\ lock.token = proc[p].token
      <4>1. lock' \in Owner /\ lock'.token = proc[p].token /\ lock'.written = TRUE
        BY <2>2, <3>2, <1>0 DEF TypeOK, Owner
      <4>2. blind' = (blind \/ Overruns(proc[p].token))
        BY <2>2, <3>2, <1>0, Zenon DEF Overruns, TypeOK
      <4>3. QED
        BY <2>0, <2>2, <3>1, <4>1, <4>2, <1>0, GotoEffect, WriteStep
             DEF OwnPc
    <3>3. CASE ~(lock # NoOwner /\ lock.token = proc[p].token)
      <4>1. blind
        BY <2>0, <3>3 DEF Inv, OwnAtPath, OwnPc
      <4>2. lock' = lock
        BY <2>2, <3>3
      <4>3. QED
        BY <2>0, <2>2, <3>1, <4>1, <4>2, <1>0, GotoEffect, QuietLost
    <3>4. QED BY <3>2, <3>3
  <2>3. CASE /\ lock' = NoOwner
             /\ blind' = (blind \/ Overruns(proc[p].token))
             /\ Return(p)
    <3>1. ASSUME NEW q \in Pids \ {p}, proc[q].pc \in OwnPc
          PROVE  proc[q].token # proc[p].token
      BY <2>1, <3>1, OthersToken
    <3>2. QED
      BY <2>0, <2>3, <3>1, <1>r, UnlinkStep
  <2>4. QED
    BY <1>3, <2>2, <2>3 DEF WriteOwner
<1>4. CASE ReportExisting(p)
  <2>1. proc[p].pc = "existing" /\ proc[p].mode = "acquire"
    BY <1>4, <1>t DEF ReportExisting, At, ProbePc
  <2>2. QED
    BY <1>4, <2>1, <1>e, <1>y DEF ReportExisting
<1>5. CASE BeginRecovery(p)
  BY <1>5, BeginRecoveryStep
<1>6. CASE ReadOwner(p)
  <2>1. proc[p].pc = "probe" /\ UNCHANGED <<lock, next, blind>>
    BY <1>6 DEF ReadOwner, At
  <2>2. CASE ProbeGone(p)
    BY <2>1, <2>2, <1>e, <1>y, <1>t DEF ProbeGone, ProbePc
  <2>3. CASE Return(p)
    BY <2>1, <2>3, <1>e
  <2>4. CASE Readable /\ proc' = [proc EXCEPT ![p].pc = "alive1", ![p].seen = lock]
    BY <2>1, <2>4, FirstReadStep DEF At
  <2>5. QED
    BY <1>6, <2>2, <2>3, <2>4 DEF ReadOwner
<1>7. CASE ProbeOwner(p)
  <2>1. proc[p].pc = "alive1" /\ UNCHANGED <<lock, next, blind>>
    BY <1>7 DEF ProbeOwner, At
  <2>2. CASE ProbeLive(p)
    BY <2>1, <2>2, <1>l DEF ProbePc
  <2>3. CASE Return(p)
    BY <2>1, <2>3, <1>e
  <2>4. CASE ~Alive(proc[p].seen.token.pid) /\ Goto(p, "reread")
    <3>1. "reread" \in Pc
      BY DEF Pc, ProbePc
    <3>2. QED
      BY <2>1, <2>4, <3>1, <1>0, <1>t, GotoEffect, QuietMove DEF ProbePc, OwnPc, HeldPc
  <2>5. QED
    BY <1>7, <2>2, <2>3, <2>4 DEF ProbeOwner
<1>8. CASE RereadOwner(p)
  <2>1. proc[p].pc = "reread" /\ UNCHANGED <<lock, next, blind>>
    BY <1>8 DEF RereadOwner, At
  <2>2. CASE ProbeGone(p)
    BY <2>1, <2>2, <1>e, <1>y, <1>t DEF ProbeGone, ProbePc
  <2>3. CASE Return(p)
    BY <2>1, <2>3, <1>e
  <2>4. CASE lock = proc[p].seen /\ Goto(p, "alive2")
    <3>1. "alive2" \in Pc
      BY DEF Pc, ProbePc
    <3>2. QED
      BY <2>1, <2>4, <3>1, <1>0, <1>t, GotoEffect, QuietMove DEF ProbePc, OwnPc, HeldPc
  <2>5. QED
    BY <1>8, <2>2, <2>3, <2>4 DEF RereadOwner
<1>9. CASE ReprobeOwner(p)
  <2>1. proc[p].pc = "alive2" /\ UNCHANGED <<lock, next, blind>>
    BY <1>9 DEF ReprobeOwner, At
  <2>2. CASE ProbeLive(p)
    BY <2>1, <2>2, <1>l DEF ProbePc
  <2>3. CASE Goto(p, "remove")
    <3>1. "remove" \in Pc
      BY DEF Pc, ProbePc
    <3>2. QED
      BY <2>1, <2>3, <3>1, <1>0, <1>t, GotoEffect, QuietMove DEF ProbePc, OwnPc, HeldPc
  <2>4. QED
    BY <1>9, <2>2, <2>3 DEF ReprobeOwner
<1>10. CASE RemoveDead(p)
  <2>1. /\ proc[p].pc = "remove" /\ next' = next /\ lock' = NoOwner
        /\ blind' = (blind \/ Overruns(proc[p].seen.token))
    BY <1>10 DEF RemoveDead, At
  <2>2. \A q \in Pids \ {p} : proc[q].pc \in OwnPc => proc[q].token # proc[p].seen.token
    BY <2>1 DEF Inv, DeadSeen
  <2>3. CASE Return(p)
    BY <2>1, <2>2, <2>3, <1>r, UnlinkStep
  <2>4. CASE ~Return(p)
    <3>1. Retry(p) /\ proc[p].mode = "acquire"
      BY <1>10, <2>4, <1>t DEF RemoveDead, ProbeGone
    <3>2. QED
      BY <2>1, <2>2, <2>4, <3>1, <1>0, RetryEffect, UnlinkStep DEF ProbePc
  <2>5. QED BY <2>3, <2>4
<1>11. CASE BeginCheckpoint(p)
  <2>1. /\ proc' \in [Pids -> Process]
        /\ \A q \in Pids \ {p} : proc'[q] = proc[q]
        /\ proc'[p].pc = "ckpt_verify" /\ proc'[p].mode = proc[p].mode
        /\ proc'[p].token = proc[p].token /\ proc'[p].seen = proc[p].seen
    BY <1>0, <1>11, BoundsAssumption
    DEF BeginCheckpoint, TypeOK, Process, Pc, OwnPc, HeldPc
  <2>2. proc[p].pc = "held" /\ proc[p].mode = "acquire" /\ UNCHANGED <<lock, next, blind>>
    BY <1>11, <1>t DEF BeginCheckpoint, At, ProbePc
  <2>3. QED
    BY <2>1, <2>2, QuietMove DEF ProbePc, OwnPc, HeldPc
<1>12. CASE VerifyCheckpoint(p)
  <2>1. PICK l \in {"ckpt_rename", "held"} : Goto(p, l)
    BY <1>12 DEF VerifyCheckpoint
  <2>2. /\ proc[p].pc = "ckpt_verify" /\ proc[p].mode = "acquire"
        /\ UNCHANGED <<lock, next, blind>>
    BY <1>12, <1>t DEF VerifyCheckpoint, At, ProbePc
  <2>3. QED
    BY <2>1, <2>2, <1>m DEF OwnPc, HeldPc
<1>13. CASE RenameCheckpoint(p)
  <2>1. /\ proc[p].pc = "ckpt_rename" /\ proc[p].mode = "acquire" /\ next' = next
        /\ lock' = [token |-> proc[p].token, written |-> TRUE, ckpt |-> proc[p].mem]
        /\ blind' = (blind \/ Overruns(proc[p].token))
        /\ Goto(p, "held")
    BY <1>13, <1>t DEF RenameCheckpoint, At, ProbePc
  <2>2. proc[p].token \in Token
    BY <2>1 DEF Inv, OwnToken
  <2>3. lock' \in Owner /\ lock'.token = proc[p].token /\ lock'.written = TRUE
    BY <2>1, <2>2, <1>0 DEF Owner, TypeOK, Process
  <2>4. "held" \in Pc
    BY DEF Pc, OwnPc, HeldPc
  <2>5. QED
    BY <2>1, <2>3, <2>4, <1>0, GotoEffect, WriteStep DEF OwnPc, HeldPc
<1>14. CASE BeginRelease(p)
  <2>1. PICK l \in {"unlink", "drop"} : Goto(p, l)
    BY <1>14 DEF BeginRelease
  <2>2. proc[p].pc = "held" /\ proc[p].mode = "acquire" /\ UNCHANGED <<lock, next, blind>>
    BY <1>14, <1>t DEF BeginRelease, At, ProbePc
  <2>3. QED
    BY <2>1, <2>2, <1>m DEF OwnPc, HeldPc
<1>15. CASE DropReads(p)
  <2>1. /\ proc[p].pc \in {"held", "drop"} /\ proc[p].mode = "acquire"
        /\ UNCHANGED <<lock, next, blind>>
    BY <1>15, <1>t DEF DropReads, At, ProbePc
  <2>2. CASE Return(p)
    BY <2>1, <2>2, <1>e
  <2>3. CASE Goto(p, "drop_unlink")
    BY <2>1, <2>3, <1>m DEF OwnPc, HeldPc
  <2>4. QED
    BY <1>15, <2>2, <2>3 DEF DropReads
<1>16. CASE Unlink(p)
  <2>1. /\ proc[p].pc \in {"unlink", "drop_unlink"} /\ proc[p].mode = "acquire"
        /\ next' = next /\ lock' = NoOwner
        /\ blind' = (blind \/ Overruns(proc[p].token))
    BY <1>16, <1>t DEF Unlink, At, ProbePc
  <2>2. proc[p].token \in Token /\ proc[p].token.pid = p
    BY <2>1 DEF Inv, OwnToken
  <2>3. ASSUME NEW q \in Pids \ {p}, proc[q].pc \in OwnPc
        PROVE  proc[q].token # proc[p].token
    BY <2>2, <2>3, OthersToken
  <2>4. CASE Return(p)
    BY <2>1, <2>3, <2>4, <1>r, UnlinkStep
  <2>5. CASE lock = NoOwner /\ Goto(p, "drop")
    <3>1. proc[p].pc \in OwnPc
      BY <2>1 DEF OwnPc
    <3>2. blind
      BY <2>5, <3>1 DEF Inv, OwnAtPath
    <3>3. "drop" \in Pc
      BY DEF Pc, OwnPc
    <3>4. QED
      BY ZenonT(40), <2>1, <2>3, <2>5, <3>1, <3>2, <3>3, <1>0, GotoEffect, UnlinkStep
  <2>6. QED
    BY <1>16, <2>4, <2>5 DEF Unlink
<1>17. CASE Kill(p)
  <2>1. /\ proc' \in [Pids -> Process]
        /\ \A q \in Pids \ {p} : proc'[q] = proc[q]
        /\ proc'[p].pc = "dead" /\ proc'[p].mode = "acquire" /\ proc'[p].seen = NoOwner
    BY <1>0, <1>17, BoundsAssumption DEF Kill, Ended, TypeOK, Process, Pc, Attempts
  <2>2. QED
    BY <1>17, <2>1, QuietEnd DEF Kill
<1>18. CASE Spawn(p)
  <2>1. "idle" \in Pc
    BY DEF Pc
  <2>2. proc[p].mode = "acquire"
    BY <1>18, <1>t DEF Spawn, Alive, ProbePc
  <2>3. QED
    BY <1>0, <1>18, <2>1, <2>2, GotoEffect, QuietEnd DEF Spawn
<1>19. QED
  BY <1>1, <1>2, <1>3, <1>4, <1>5, <1>6, <1>7, <1>8, <1>9, <1>10, <1>11,
     <1>12, <1>13, <1>14, <1>15, <1>16, <1>17, <1>18 DEF Step

-----------------------------------------------------------------------------
(* Inv is an invariant of the lock protocol, for any PIDs and bounds.      *)
THEOREM InvariantHolds == Spec => []Inv
<1>1. Inv /\ UNCHANGED vars => Inv'
  BY DEF vars, Inv, TypeOK, Issued, OwnToken, HasSeen, BeforeCreate, Fresh,
         OwnAtPath, DeadSeen, Exact
<1>2. Inv /\ [Next]_vars => Inv'
  BY <1>1, StepInv DEF Next
<1>3. QED
  BY InitInv, <1>2, PTL DEF Spec

(* Type correctness of the owner file and of every process's local state.  *)
THEOREM TypeCorrect == Spec => []TypeOK
<1>1. Inv => TypeOK
  BY DEF Inv
<1>2. QED
  BY <1>1, InvariantHolds, PTL

(* Two processes hold the operation lock at once only after an unlink or a *)
(* rename hit an owner file other than the one its process had verified.   *)
THEOREM ExclusionHolds == Spec => []ExclusiveUnlessBlind
<1>1. Inv => ExclusiveUnlessBlind
  <2>1. SUFFICES ASSUME Inv, ~blind PROVE
          /\ MutualExclusion
          /\ \A p \in Pids : Holding(p) => ReadsOwn(p)
    BY DEF ExclusiveUnlessBlind
  <2>2. ASSUME NEW p \in Pids, Holding(p)
        PROVE  ReadsOwn(p) /\ proc[p].token.pid = p
    <3>1. proc[p].pc \in OwnPc /\ proc[p].pc # "write"
      BY <2>2 DEF Holding, HeldPc, OwnPc
    <3>2. lock # NoOwner /\ lock.token = proc[p].token /\ lock.written
      BY <2>1, <3>1 DEF Inv, OwnAtPath
    <3>3. proc[p].mode = "acquire"
      BY <2>1, <3>1 DEF Inv, TypeOK, Process, OwnToken, OwnPc, HeldPc, ProbePc
    <3>4. QED
      BY <2>1, <3>1, <3>2, <3>3
      DEF Inv, OwnToken, ReadsOwn, Readable, OwnPc, HeldPc
  <2>3. QED
    BY <2>2 DEF MutualExclusion, ReadsOwn
<1>2. QED
  BY <1>1, InvariantHolds, PTL

(* No checkpoint of a dead owner is deleted without being in the receipt.  *)
THEOREM ReceiptHolds == Spec => []ReceiptIsExact
<1>1. Inv => ReceiptIsExact
  BY DEF Inv, Exact, ReceiptIsExact, At
<1>2. QED
  BY <1>1, InvariantHolds, PTL

-----------------------------------------------------------------------------

\* Where the checkpoint in memory is the one on disk; where it is about to be saved; where
\* an observation is on its way; and all of them.
LoadedPc == {"link", "step", "readback", "verify", "generation", "put", "reply", "get", "released"}
SavingPc == {"archive", "cursor"}
WatchPc == {"tip", "observe"}
BusyPc == LoadedPc \cup SavingPc \cup WatchPc

BeforeSubmission == {"planned", "locked"}
LockedPhases == {"locked", "submitting", "submitted"}

\* What a checkpoint says is true: nothing was sent before its marker, and a definite
\* result is the provider's.
Sound(c) ==
  /\ c.phase \in BeforeSubmission => puts[c.op] = 0
  /\ c.phase \notin {"terminal", "released"} => c.status = "none"
  /\ c.status = "merged" => plan[c.op].hi <= merged /\ HeadsExact(plan[c.op])
  /\ c.status = "failed" => req[c.op] = "failed" /\ \A i \in Entry : by[i] # c.op

\* What holds of operation o: its request was sent at most once and merges nothing outside
\* its plan; its archive claims nothing false; while its request can merge, the cursor is its own.
Outcomes(o) ==
  /\ archive[o] = "applied" => plan[o].hi <= merged /\ HeadsExact(plan[o])
  /\ archive[o] = "not_applied" => req[o] = "failed" /\ \A i \in Entry : by[i] # o
  /\ archive[o] \in {"not_attempted", "none"} => puts[o] = 0
OpOK(o) ==
  /\ plan[o].lo <= merged + 1 /\ puts[o] <= 1
  /\ puts[o] = 0 => req[o] = "none"
  /\ \A i \in Entry : by[i] = o => puts[o] # 0 /\ plan[o].lo <= i /\ i <= merged
  /\ Outcomes(o)
  /\ InFlight(o) => cursor # NoCursor /\ cursor.op = o

Counts == other <= outside /\ \A i \in Entry : head[i] <= outside

\* The checkpoint c has been written to its archive.
Archived(c) == /\ archive[c.op] # "none"
               /\ c.phase \notin BeforeSubmission => archive[c.op] # "not_attempted"
CursorOK == cursor # NoCursor => Sound(cursor) /\ Archived(cursor)

\* How the checkpoint in memory is related to the cursor.
LinkOK ==
  /\ pc \in {"idle", "drain"} => cp = NoCursor
  /\ pc \in BusyPc => cp # NoCursor /\ Sound(cp)
  /\ pc \in LoadedPc => cp = cursor
  /\ pc \in WatchPc => cursor # NoCursor /\ cp.op = cursor.op /\ cp.phase = cursor.phase /\ cp.status = cursor.status
  /\ pc \in SavingPc =>
       /\ IF cursor = NoCursor THEN cp.phase = "planned"
                               ELSE /\ cp.op = cursor.op
                                    /\ cursor.status \in Definite => cp.status = cursor.status
                                    /\ cursor.phase \notin BeforeSubmission => cp.phase \notin BeforeSubmission
       /\ cp.phase = "released" => rules = {}
       /\ cp.phase \in LockedPhases /\ ~foreign => cp.op \in rules
  /\ pc = "cursor" => Archived(cp)
\* Which phase is where.
PhaseOK ==
  /\ pc = "readback" => cp.phase = "planned"
  /\ pc = "verify" => cp.phase \in {"submitting", "submitted"}
  /\ pc \in {"generation", "put", "reply"} => cp.phase = "submitting"
  /\ pc = "get" => cp.phase \in {"submitted", "released"}
  /\ pc \in WatchPc => cp.phase \in {"submitting", "submitted", "released"}
  /\ pc \in WatchPc \cup {"get"} => cp.status \notin Definite /\ (cp.phase = "released" => ~draining)
  /\ pc = "released" => cp.phase = "released"
\* A submission that this tick may still send was marked by it and not sent before.
SubmitOK ==
  /\ pc \in {"idle", "link", "released", "cleanup"} => ~draining
  /\ marked => draining /\ pc # "drain"
  /\ pc = "drain" => draining
  /\ pc \in SavingPc \cup {"step", "readback"} /\ cp.phase \in BeforeSubmission => draining
  /\ pc \in {"generation", "put"} => puts[cp.op] = 0
  /\ pc = "verify" /\ cp.phase = "submitting" => puts[cp.op] = 0
  /\ pc \in SavingPc \cup {"step"} /\ cp.phase = "submitting" /\ marked => puts[cp.op] = 0
  /\ seen.answer = "failed" => pc \in WatchPc /\ req[cp.op] = "failed"
MemoryOK == LinkOK /\ PhaseOK /\ SubmitOK

LockOK == LocksAccounted /\ InFlightKeepsLock

LandInv == LandTypeOK /\ Counts /\ (\A o \in Ops : OpOK(o)) /\ CursorOK /\ MemoryOK /\ LockOK

-----------------------------------------------------------------------------
(* Steps that only change what the tick has in memory.                     *)

\* The tick's memory is well formed.
MemoryType ==
  /\ pc \in LandPc /\ cp \in Checkpoint \cup {NoCursor}
  /\ draining \in BOOLEAN /\ marked \in BOOLEAN /\ snap \in Pair /\ seen \in Seen

LEMMA MemoryStep ==
  ASSUME LandInv, UNCHANGED <<provider, rules, req, disk, puts, foreign, outside>>, faults' \in 0 .. MaxFaults,
         MemoryType', MemoryOK'
  PROVE  LandInv'
<1>0. UNCHANGED <<merged, by, head, other, tip, suffix, rules, req, cursor, archive, plan, puts, foreign, outside>>
  BY DEF provider, disk
<1>1. LandTypeOK'
  BY <1>0 DEF LandInv, LandTypeOK, MemoryType
<1>2. Counts' /\ CursorOK'
  BY <1>0 DEF LandInv, Counts, CursorOK, Sound, Archived, HeadsExact
<1>3. ASSUME NEW o \in Ops PROVE OpOK(o)'
  BY <1>0 DEF LandInv, OpOK, Outcomes, InFlight, HeadsExact
<1>4. LockOK'
  BY <1>0 DEF LandInv, LockOK, LocksAccounted, InFlightKeepsLock
<1> QED
  BY <1>1, <1>2, <1>3, <1>4 DEF LandInv

\* The types of what the invariant speaks of.
LEMMA LandTypes ==
  ASSUME LandInv
  PROVE  /\ merged \in 0 .. N /\ merged \in Nat /\ tip \in 0 .. N /\ suffix \in BOOLEAN
         /\ by \in [Entry -> Ops \cup {0}] /\ head \in [Entry -> 0 .. MaxOutside] /\ other \in 0 .. MaxOutside
         /\ rules \in SUBSET Ops /\ req \in [Ops -> Request]
         /\ cursor \in Checkpoint \cup {NoCursor} /\ archive \in [Ops -> Outcome] /\ plan \in [Ops -> Plan]
         /\ puts \in [Ops -> Nat] /\ foreign \in BOOLEAN
         /\ faults \in 0 .. MaxFaults /\ outside \in 0 .. MaxOutside /\ MemoryType
BY NAssumption DEF LandInv, LandTypeOK, MemoryType

LEMMA CheckpointFields ==
  ASSUME NEW c \in Checkpoint
  PROVE  c # NoCursor /\ c.op \in Ops /\ c.phase \in Phase /\ c.uuid \in BOOLEAN /\ c.status \in Status
BY NoCursorAssumption DEF Checkpoint

LEMMA FaultCount == ASSUME LandInv, NoFault \/ Fault PROVE faults' \in 0 .. MaxFaults
BY LandingBounds DEF LandInv, LandTypeOK, NoFault, Fault

\* The tick ends.
LEMMA EndInv ==
  ASSUME LandInv, EndTick, UNCHANGED <<provider, rules, req, disk, puts, foreign, outside>>, faults' \in 0 .. MaxFaults
  PROVE  LandInv'
<1>1. pc' = "idle" /\ cp' = NoCursor /\ draining' = FALSE /\ marked' = FALSE /\ seen'.answer = "none"
  BY DEF EndTick, Blank
<1>2. MemoryType'
  <2>1. [merged |-> 0, suffix |-> TRUE] \in Pair /\ Blank \in Seen
    BY NAssumption DEF Pair, Seen, Blank, Answer
  <2>2. snap' \in Pair /\ seen' \in Seen
    BY <2>1 DEF EndTick
  <2> QED
    BY <1>1, <2>2 DEF MemoryType, LandPc
<1>3. MemoryOK'
  BY <1>1 DEF MemoryOK, LinkOK, PhaseOK, SubmitOK, BusyPc, LoadedPc, SavingPc, WatchPc
<1> QED
  BY <1>2, <1>3, MemoryStep

\* What the invariant says of the checkpoint in memory, where there is one.
LEMMA InMemory ==
  ASSUME LandInv, pc \in BusyPc
  PROVE  cp \in Checkpoint /\ cp # NoCursor /\ cp.op \in Ops /\ cp.phase \in Phase /\ cp.uuid \in BOOLEAN
         /\ cp.status \in Status /\ Sound(cp) /\ OpOK(cp.op)
<1>1. cp # NoCursor /\ cp \in Checkpoint \cup {NoCursor} /\ Sound(cp)
  BY LandTypes DEF LandInv, MemoryOK, LinkOK, MemoryType
<1>2. cp \in Checkpoint
  BY <1>1
<1> QED
  BY <1>1, <1>2, CheckpointFields DEF LandInv

\* A step that stays with its checkpoint: the next place of the ladder.
LEMMA MoveInv ==
  ASSUME LandInv, pc \in LoadedPc, NEW l \in LoadedPc \cup {"cleanup"}, pc' = l,
         UNCHANGED <<cp, draining, marked>>, snap' \in Pair, seen' \in Seen, seen'.answer = seen.answer,
         UNCHANGED <<provider, rules, req, disk, puts, foreign, outside>>, faults' \in 0 .. MaxFaults,
         l = "readback" => cp.phase = "planned" /\ draining,
         l = "verify" => cp.phase = "submitted" \/ (cp.phase = "submitting" /\ puts[cp.op] = 0),
         l \in {"generation", "put"} => cp.phase = "submitting" /\ puts[cp.op] = 0,
         l = "reply" => cp.phase = "submitting",
         l = "get" => cp.phase \in {"submitted", "released"} /\ cp.status \notin Definite
                      /\ (cp.phase = "released" => ~draining),
         l = "released" => cp.phase = "released",
         l \in {"link", "released", "cleanup"} => ~draining,
         l = "step" => ~marked /\ cp.phase \notin BeforeSubmission
  PROVE  LandInv'
<1>0. UNCHANGED <<merged, by, head, other, tip, suffix, rules, req, cursor, archive, plan, puts, foreign, outside>>
  BY DEF provider, disk
<1>1. MemoryType'
  BY <1>0, LandTypes DEF MemoryType, LandPc, LoadedPc
<1>2. Sound(cp)' /\ cp # NoCursor /\ cp = cursor
  <2>1. Sound(cp)
    BY InMemory DEF BusyPc
  <2> QED
    BY <1>0, <2>1, InMemory DEF Sound, HeadsExact, BusyPc, LandInv, MemoryOK, LinkOK
<1>3. LinkOK'
  BY <1>0, <1>2 DEF LinkOK, LoadedPc, SavingPc, WatchPc, BusyPc
<1>4. PhaseOK'
  BY <1>0 DEF PhaseOK, WatchPc, LoadedPc
<1>5. SubmitOK'
  BY <1>0 DEF LandInv, MemoryOK, SubmitOK, WatchPc, SavingPc, LoadedPc
<1> QED
  BY <1>1, <1>3, <1>4, <1>5, MemoryStep DEF MemoryOK

LEMMA GotoInv ==
  ASSUME LandInv, pc \in LoadedPc, NEW l \in LoadedPc \cup {"cleanup"}, LandGoto(l),
         UNCHANGED <<provider, rules, req, disk, puts, foreign, outside>>, faults' \in 0 .. MaxFaults,
         l = "readback" => cp.phase = "planned" /\ draining,
         l = "verify" => cp.phase = "submitted" \/ (cp.phase = "submitting" /\ puts[cp.op] = 0),
         l \in {"generation", "put"} => cp.phase = "submitting" /\ puts[cp.op] = 0,
         l = "reply" => cp.phase = "submitting",
         l = "get" => cp.phase \in {"submitted", "released"} /\ cp.status \notin Definite
                      /\ (cp.phase = "released" => ~draining),
         l = "released" => cp.phase = "released",
         l \in {"link", "released", "cleanup"} => ~draining,
         l = "step" => ~marked /\ cp.phase \notin BeforeSubmission
  PROVE  LandInv'
<1>1. pc' = l /\ UNCHANGED <<cp, draining, marked, snap, seen>> /\ snap \in Pair /\ seen \in Seen
  BY LandTypes DEF LandGoto, tick, MemoryType
<1> QED
  BY <1>1, MoveInv

\* A new checkpoint is on its way to save_native.
LEMMA AdvanceInv ==
  ASSUME LandInv, pc \in LoadedPc \cup WatchPc, NEW c \in Checkpoint, Advance(c),
         UNCHANGED <<provider, rules, req, disk, puts, foreign, outside>>, faults' \in 0 .. MaxFaults,
         draining' = draining, marked' \in BOOLEAN, snap' \in Pair, seen' \in Seen,
         c.op = cp.op, Sound(c), cursor.status \in Definite => c.status = cursor.status,
         c.phase = "released" => cp.phase = "released",
         cp.phase \notin BeforeSubmission => c.phase \notin BeforeSubmission,
         c.phase \in LockedPhases /\ ~foreign => c.op \in rules,
         marked' => draining, seen'.answer # "failed", c.phase \in BeforeSubmission => draining,
         c.phase = "submitting" /\ marked' => puts[c.op] = 0
  PROVE  LandInv'
<1>0. UNCHANGED <<merged, by, head, other, tip, suffix, rules, req, cursor, archive, plan, puts, foreign, outside>>
      /\ pc' = "archive" /\ cp' = c
  BY DEF provider, disk, Advance
<1>1. MemoryType'
  BY <1>0, LandTypes DEF MemoryType, LandPc
<1>2. cursor # NoCursor /\ cp.op = cursor.op /\ cp.phase = cursor.phase
  BY InMemory DEF LandInv, MemoryOK, LinkOK, BusyPc
<1>3. c # NoCursor
  BY CheckpointFields
<1>4. LinkOK'
  <2>1. Sound(cp)'
    BY <1>0 DEF Sound, HeadsExact
  <2>2. c.phase = "released" => rules = {}
    BY <1>2 DEF LandInv, LockOK, LocksAccounted
  <2> QED
    BY <1>0, <1>2, <1>3, <2>1, <2>2 DEF LinkOK, LoadedPc, SavingPc, WatchPc
<1>5. PhaseOK' /\ SubmitOK'
  BY <1>0 DEF PhaseOK, SubmitOK, WatchPc, SavingPc
<1> QED
  BY <1>1, <1>4, <1>5, MemoryStep DEF MemoryOK

LEMMA TickStartInv == ASSUME LandInv, TickStart PROVE LandInv'
<1>0. UNCHANGED <<merged, by, head, other, tip, suffix, rules, req, cursor, archive, plan, puts, foreign, outside>>
      /\ pc = "idle" /\ pc' = (IF cursor = NoCursor THEN "cleanup" ELSE "link") /\ cp' = cursor
      /\ UNCHANGED <<draining, marked, seen, faults>> /\ snap' = [merged |-> merged, suffix |-> suffix]
      /\ UNCHANGED <<provider, rules, req, disk, puts, foreign, outside>>
  BY DEF TickStart, provider, disk
<1>1. MemoryType'
  <2>1. snap' \in Pair
    BY <1>0, LandTypes DEF Pair
  <2> QED
    BY <1>0, <2>1, LandTypes DEF MemoryType, LandPc
<1>2. ~draining /\ ~marked /\ (cursor # NoCursor => Sound(cursor)) /\ seen.answer # "failed"
  BY <1>0 DEF LandInv, MemoryOK, SubmitOK, CursorOK, WatchPc
<1>3. cursor # NoCursor => Sound(cp)'
  BY <1>0, <1>2 DEF Sound, HeadsExact
<1>4. MemoryOK'
  BY <1>0, <1>2, <1>3
     DEF MemoryOK, LinkOK, PhaseOK, SubmitOK, BusyPc, LoadedPc, SavingPc, WatchPc
<1>5. faults' \in 0 .. MaxFaults
  BY <1>0, LandTypes
<1> QED
  BY <1>0, <1>1, <1>4, <1>5, MemoryStep

LEMMA ResumeInv == ASSUME LandInv, Resume PROVE LandInv'
<1>0. UNCHANGED <<merged, by, head, other, tip, suffix, rules, req, cursor, archive, plan, puts, foreign, outside>>
      /\ pc = "drain" /\ pc' = "step" /\ cp' = cursor /\ cursor # NoCursor
      /\ UNCHANGED <<draining, marked, seen, snap, faults>>
      /\ UNCHANGED <<provider, rules, req, disk, puts, foreign, outside>>
  BY DEF Resume, provider, disk, tick
<1>1. MemoryType'
  BY <1>0, LandTypes DEF MemoryType, LandPc
<1>2. ~marked /\ draining /\ Sound(cursor) /\ seen.answer # "failed"
  BY <1>0 DEF LandInv, MemoryOK, SubmitOK, CursorOK, WatchPc
<1>3. Sound(cp)'
  BY <1>0, <1>2 DEF Sound, HeadsExact
<1>4. MemoryOK'
  BY <1>0, <1>2, <1>3
     DEF MemoryOK, LinkOK, PhaseOK, SubmitOK, BusyPc, LoadedPc, SavingPc, WatchPc
<1>5. faults' \in 0 .. MaxFaults
  BY <1>0, LandTypes
<1> QED
  BY <1>0, <1>1, <1>4, <1>5, MemoryStep

LEMMA WaitInv == ASSUME LandInv, Wait \/ Abort PROVE LandInv'
<1>1. EndTick /\ UNCHANGED <<provider, rules, req, disk, puts, foreign, outside>> /\ (NoFault \/ Fault)
  BY DEF Wait, Abort, NoFault
<1> QED
  BY <1>1, EndInv, FaultCount

\* Where the tick is at a step of the loop.
LEMMA AtStep == ASSUME LandInv, pc \in LoadedPc
                PROVE  pc \in BusyPc /\ cp = cursor /\ cp \in Checkpoint /\ cp.op \in Ops /\ Sound(cp) /\ OpOK(cp.op)
                       /\ faults \in 0 .. MaxFaults
<1>1. pc \in BusyPc
  BY DEF BusyPc
<1> QED
  BY <1>1, InMemory, LandTypes DEF LandInv, MemoryOK, LinkOK

LEMMA BeginSubmitInv == ASSUME LandInv, BeginSubmit \/ BeginPoll PROVE LandInv'
<1>0. pc = "step" /\ LandGoto("verify") /\ UNCHANGED <<provider, rules, req, disk, puts, foreign, outside>>
      /\ UNCHANGED faults /\ (cp.phase = "submitted" \/ (cp.phase = "submitting" /\ marked))
  BY DEF BeginSubmit, BeginPoll
<1>1. pc \in LoadedPc /\ faults' \in 0 .. MaxFaults /\ "verify" \in LoadedPc \cup {"cleanup"}
  BY <1>0, LandTypes DEF LoadedPc
<1>2. cp.phase = "submitting" /\ marked => puts[cp.op] = 0
  BY <1>0 DEF LandInv, MemoryOK, SubmitOK
<1> QED
  BY <1>0, <1>1, <1>2, GotoInv

LEMMA ReadGenerationInv == ASSUME LandInv, ReadGeneration PROVE LandInv'
<1>0. pc = "generation" /\ UNCHANGED <<provider, rules, req, disk, puts, foreign, outside>> /\ UNCHANGED faults
      /\ (LandGoto("put") \/ EndTick)
  BY DEF ReadGeneration
<1>1. pc \in LoadedPc /\ faults' \in 0 .. MaxFaults /\ "put" \in LoadedPc \cup {"cleanup"}
  BY <1>0, LandTypes DEF LoadedPc
<1>2. cp.phase = "submitting" /\ puts[cp.op] = 0
  BY <1>0 DEF LandInv, MemoryOK, PhaseOK, SubmitOK
<1> QED
  BY <1>0, <1>1, <1>2, GotoInv, EndInv

LEMMA ConvergencePendingInv == ASSUME LandInv, ConvergencePending PROVE LandInv'
<1>0. pc = "released" /\ UNCHANGED <<provider, rules, req, disk, puts, foreign, outside>> /\ UNCHANGED faults
      /\ LandGoto("cleanup")
  BY DEF ConvergencePending
<1>1. pc \in LoadedPc /\ faults' \in 0 .. MaxFaults
  BY <1>0, LandTypes DEF LoadedPc
<1>2. cp.phase = "released" /\ ~draining
  BY <1>0 DEF LandInv, MemoryOK, PhaseOK, SubmitOK
<1> QED
  BY <1>0, <1>1, <1>2, GotoInv

\* The provider's answer is on its way to observe_stack_merge.
LEMMA WatchInv ==
  ASSUME LandInv, pc \in LoadedPc, NEW c \in Checkpoint, cp' = c, pc' = "tip",
         UNCHANGED <<provider, rules, req, disk, puts, foreign, outside>>, faults' \in 0 .. MaxFaults,
         UNCHANGED <<draining, marked, snap>>, seen' \in Seen,
         c.op = cp.op, c.phase = cp.phase, c.status = cp.status, cp.status \notin Definite,
         cp.phase \in {"submitting", "submitted", "released"}, cp.phase = "released" => ~draining,
         seen'.answer = "failed" => req[cp.op] = "failed"
  PROVE  LandInv'
<1>0. UNCHANGED <<merged, by, head, other, tip, suffix, rules, req, cursor, archive, plan, puts, foreign, outside>>
  BY DEF provider, disk
<1>1. MemoryType'
  BY <1>0, LandTypes DEF MemoryType, LandPc
<1>2. cp # NoCursor /\ cp = cursor /\ Sound(cp) /\ c # NoCursor
  BY AtStep, CheckpointFields
<1>3. Sound(cp)'
  BY <1>0, <1>2 DEF Sound, HeadsExact
<1>4. LinkOK'
  BY <1>0, <1>2, <1>3 DEF LinkOK, LoadedPc, SavingPc, WatchPc, BusyPc
<1>5. PhaseOK' /\ SubmitOK'
  BY <1>0 DEF LandInv, MemoryOK, PhaseOK, SubmitOK, WatchPc, SavingPc, LoadedPc
<1> QED
  BY <1>1, <1>4, <1>5, MemoryStep DEF MemoryOK

LEMMA ObserveInv ==
  ASSUME LandInv, pc \in LoadedPc, NEW c \in Checkpoint, NEW a \in Answer, Observe(c, a),
         UNCHANGED <<provider, rules, req, disk, puts, foreign, outside>>, faults' \in 0 .. MaxFaults,
         c.op = cp.op, c.phase = cp.phase, c.status = cp.status, cp.status \notin Definite,
         cp.phase \in {"submitting", "submitted", "released"}, cp.phase = "released" => ~draining,
         a = "failed" => req[cp.op] = "failed"
  PROVE  LandInv'
<1>1. cp' = c /\ pc' = "tip" /\ UNCHANGED <<draining, marked, snap>> /\ seen' = [seen EXCEPT !.answer = a]
  BY DEF Observe
<1>2. seen' \in Seen /\ seen'.answer = a
  BY <1>1, LandTypes DEF MemoryType, Seen
<1> QED
  BY <1>1, <1>2, WatchInv

LEMMA ReobserveInv == ASSUME LandInv, Reobserve PROVE LandInv'
<1>0. pc = "released" /\ UNCHANGED <<provider, rules, req, disk, puts, foreign, outside>> /\ UNCHANGED faults
      /\ (LandGoto("get") \/ LandGoto("tip")) /\ cp.status = "indeterminate"
  BY DEF Reobserve
<1>1. pc \in LoadedPc /\ pc \notin WatchPc /\ faults' \in 0 .. MaxFaults /\ "get" \in LoadedPc \cup {"cleanup"}
      /\ cp \in Checkpoint
  BY <1>0, LandTypes, AtStep DEF LoadedPc, WatchPc
<1>2. cp.phase = "released" /\ ~draining /\ cp.status \notin Definite /\ seen.answer # "failed"
  BY <1>0, <1>1 DEF LandInv, MemoryOK, PhaseOK, SubmitOK, Definite
<1>3. CASE LandGoto("get")
  BY <1>0, <1>1, <1>2, <1>3, GotoInv
<1>4. CASE LandGoto("tip")
  <2>1. pc' = "tip" /\ cp' = cp /\ UNCHANGED <<draining, marked, snap>> /\ seen' = seen /\ seen \in Seen
    BY <1>4, LandTypes DEF LandGoto, tick, MemoryType
  <2> QED
    BY <1>0, <1>1, <1>2, <2>1, WatchInv
<1> QED
  BY <1>0, <1>3, <1>4

LEMMA Phases == Phase = {"planned", "locked", "submitting", "submitted", "terminal", "released"}
BY DEF Phase, Rank

LEMMA ReadbackLockInv == ASSUME LandInv, ReadbackLock PROVE LandInv'
<1> DEFINE c == [cp EXCEPT !.phase = "locked"]
<1>0. pc = "readback" /\ UNCHANGED <<provider, rules, req, disk, puts, foreign, outside>> /\ UNCHANGED faults
      /\ (EndTick \/ (cp.op \in rules /\ Advance(c) /\ UNCHANGED tick))
  BY DEF ReadbackLock
<1>1. pc \in LoadedPc /\ faults' \in 0 .. MaxFaults /\ cp \in Checkpoint /\ Sound(cp) /\ cp = cursor
  BY <1>0, LandTypes, AtStep DEF LoadedPc
<1>2. CASE EndTick
  BY <1>0, <1>1, <1>2, EndInv
<1>3. CASE cp.op \in rules /\ Advance(c) /\ UNCHANGED tick
  <2>1. c \in Checkpoint /\ c.op = cp.op /\ c.phase = "locked" /\ c.status = cp.status
    BY <1>1, Phases DEF Checkpoint
  <2>2. cp.phase = "planned" /\ cp.status = "none" /\ puts[cp.op] = 0
    BY <1>0, <1>1 DEF LandInv, MemoryOK, PhaseOK, Sound, BeforeSubmission
  <2>3. UNCHANGED <<draining, marked, snap, seen>> /\ marked \in BOOLEAN /\ snap \in Pair /\ seen \in Seen
        /\ (marked => draining) /\ seen.answer # "failed" /\ draining
    BY <1>0, <1>3, <2>2, LandTypes DEF tick, MemoryType, LandInv, MemoryOK, SubmitOK, WatchPc, BeforeSubmission
  <2>4. Sound(c) /\ c.status \notin Definite
    BY <2>1, <2>2 DEF Sound, BeforeSubmission, Definite
  <2> HIDE DEF c
  <2> QED
    BY <1>0, <1>1, <1>3, <2>1, <2>2, <2>3, <2>4, AdvanceInv DEF Definite, BeforeSubmission
<1> QED
  BY <1>0, <1>2, <1>3

LEMMA MarkSubmittingInv == ASSUME LandInv, MarkSubmitting PROVE LandInv'
<1> DEFINE c == [cp EXCEPT !.phase = "submitting"]
<1>0. pc = "step" /\ cp.phase = "locked" /\ UNCHANGED <<provider, rules, req, disk, puts, foreign, outside>>
      /\ UNCHANGED <<faults, draining, snap, seen>> /\ Advance(c) /\ marked' = TRUE
  BY DEF MarkSubmitting
<1>1. pc \in LoadedPc /\ faults' \in 0 .. MaxFaults /\ cp \in Checkpoint /\ Sound(cp) /\ cp = cursor /\ cp # NoCursor
  BY <1>0, LandTypes, AtStep, CheckpointFields DEF LoadedPc
<1>2. c \in Checkpoint /\ c.op = cp.op /\ c.phase = "submitting" /\ c.status = cp.status
  BY <1>1, Phases DEF Checkpoint
<1>3. cp.status = "none" /\ puts[cp.op] = 0
  BY <1>0, <1>1 DEF Sound, BeforeSubmission
<1>4. draining /\ snap \in Pair /\ seen \in Seen /\ seen.answer # "failed"
  BY <1>0, LandTypes DEF MemoryType, LandInv, MemoryOK, SubmitOK, WatchPc, BeforeSubmission
<1>5. ~foreign => cp.op \in rules
  BY <1>0, <1>1 DEF LandInv, LockOK, InFlightKeepsLock
<1>6. Sound(c) /\ c.status \notin Definite
  BY <1>2, <1>3 DEF Sound, BeforeSubmission, Definite
<1> HIDE DEF c
<1> QED
  BY <1>0, <1>1, <1>2, <1>3, <1>4, <1>5, <1>6, AdvanceInv DEF Definite, BeforeSubmission

LEMMA AbandonUncertainInv == ASSUME LandInv, AbandonUncertain PROVE LandInv'
<1> DEFINE c == [cp EXCEPT !.phase = "terminal", !.status = "indeterminate"]
<1>0. pc = "step" /\ cp.phase = "submitting" /\ UNCHANGED <<provider, rules, req, disk, puts, foreign, outside>>
      /\ UNCHANGED faults /\ UNCHANGED tick /\ Advance(c)
  BY DEF AbandonUncertain
<1>1. pc \in LoadedPc /\ faults' \in 0 .. MaxFaults /\ cp \in Checkpoint /\ Sound(cp) /\ cp = cursor
  BY <1>0, LandTypes, AtStep DEF LoadedPc
<1>2. c \in Checkpoint /\ c.op = cp.op /\ c.phase = "terminal" /\ c.status = "indeterminate"
  BY <1>1, Phases DEF Checkpoint, Status
<1>3. UNCHANGED <<draining, marked, snap, seen>> /\ marked \in BOOLEAN /\ snap \in Pair /\ seen \in Seen
      /\ (marked => draining) /\ seen.answer # "failed"
  BY <1>0, LandTypes DEF tick, MemoryType, LandInv, MemoryOK, SubmitOK, WatchPc
<1>4. Sound(c) /\ cp.status = "none"
  BY <1>0, <1>1, <1>2 DEF Sound, BeforeSubmission
<1> HIDE DEF c
<1> QED
  BY <1>0, <1>1, <1>2, <1>3, <1>4, AdvanceInv DEF Definite, LockedPhases, BeforeSubmission

LEMMA VerifyLockInv == ASSUME LandInv, VerifyLock PROVE LandInv'
<1>0. PICK ok \in BOOLEAN :
        /\ NoFault \/ Fault
        /\ IF cp.phase = "submitting" /\ ~ok
           THEN EndTick
           ELSE /\ pc' = IF cp.phase = "submitting" THEN "generation" ELSE "get"
                /\ seen' = [seen EXCEPT !.lock = ok]
                /\ UNCHANGED <<cp, draining, marked, snap>>
  BY DEF VerifyLock
<1>1. pc = "verify" /\ pc \in LoadedPc /\ UNCHANGED <<provider, rules, req, disk, puts, foreign, outside>>
      /\ faults' \in 0 .. MaxFaults /\ cp.phase \in {"submitting", "submitted"}
      /\ (cp.phase = "submitting" => puts[cp.op] = 0) /\ Sound(cp)
  <2>1. pc = "verify" /\ pc \in LoadedPc
    BY DEF VerifyLock, LoadedPc
  <2> QED
    BY <1>0, <2>1, FaultCount, AtStep DEF VerifyLock, LandInv, MemoryOK, PhaseOK, SubmitOK
<1>2. CASE EndTick
  BY <1>1, <1>2, EndInv
<1>3. CASE ~EndTick
  <2>1. pc' = (IF cp.phase = "submitting" THEN "generation" ELSE "get") /\ seen' = [seen EXCEPT !.lock = ok]
        /\ UNCHANGED <<cp, draining, marked, snap>>
    BY <1>0, <1>3
  <2>2. seen' \in Seen /\ seen'.answer = seen.answer /\ snap' \in Pair
    BY <2>1, LandTypes DEF MemoryType, Seen
  <2>3. cp.phase = "submitted" => cp.status \notin Definite
    BY <1>1 DEF Sound, Definite
  <2>4. {"generation", "get"} \subseteq LoadedPc \cup {"cleanup"}
    BY DEF LoadedPc
  <2> QED
    BY <1>1, <2>1, <2>2, <2>3, <2>4, MoveInv
<1> QED
  BY <1>2, <1>3

LEMMA ReplyInv == ASSUME LandInv, Reply PROVE LandInv'
<1> DEFINE c == [cp EXCEPT !.phase = "submitted", !.uuid = TRUE]
           d == [cp EXCEPT !.uuid = TRUE]
<1>0. pc = "reply" /\ UNCHANGED <<provider, rules, req, disk, puts, foreign, outside>> /\ (NoFault \/ Fault)
      /\ \/ Advance(c) /\ UNCHANGED tick
         \/ Observe(d, "merged")
         \/ req[cp.op] = "failed" /\ Observe(cp, "failed")
         \/ Observe(cp, "none")
  BY DEF Reply
<1>1. pc \in LoadedPc /\ faults' \in 0 .. MaxFaults /\ cp \in Checkpoint /\ Sound(cp) /\ cp = cursor /\ cp # NoCursor
  BY <1>0, FaultCount, AtStep, CheckpointFields DEF LoadedPc
<1>2. cp.phase = "submitting" /\ cp.status = "none"
  BY <1>0, <1>1 DEF LandInv, MemoryOK, PhaseOK, Sound
<1>3. c \in Checkpoint /\ c.op = cp.op /\ c.phase = "submitted" /\ c.status = cp.status
      /\ d \in Checkpoint /\ d.op = cp.op /\ d.phase = cp.phase /\ d.status = cp.status
  BY <1>1, Phases DEF Checkpoint
<1> HIDE DEF c, d
<1>4. CASE Advance(c) /\ UNCHANGED tick
  <2>1. UNCHANGED <<draining, marked, snap, seen>> /\ marked \in BOOLEAN /\ snap \in Pair /\ seen \in Seen
        /\ (marked => draining) /\ seen.answer # "failed"
    BY <1>0, <1>4, LandTypes DEF tick, MemoryType, LandInv, MemoryOK, SubmitOK, WatchPc
  <2>2. ~foreign => cp.op \in rules
    BY <1>1, <1>2 DEF LandInv, LockOK, InFlightKeepsLock
  <2>3. Sound(c)
    BY <1>2, <1>3 DEF Sound, BeforeSubmission
  <2> QED
    BY <1>0, <1>1, <1>2, <1>3, <1>4, <2>1, <2>2, <2>3, AdvanceInv DEF Definite, BeforeSubmission
<1>5. CASE Observe(d, "merged")
  BY <1>0, <1>1, <1>2, <1>3, <1>5, ObserveInv DEF Answer, Definite
<1>6. CASE req[cp.op] = "failed" /\ Observe(cp, "failed")
  BY <1>0, <1>1, <1>2, <1>6, ObserveInv DEF Answer, Definite
<1>7. CASE Observe(cp, "none")
  BY <1>0, <1>1, <1>2, <1>7, ObserveInv DEF Answer, Definite
<1> QED
  BY <1>0, <1>4, <1>5, <1>6, <1>7

LEMMA PollInv == ASSUME LandInv, Poll PROVE LandInv'
<1> DEFINE c == [cp EXCEPT !.phase = "terminal", !.status = "indeterminate"]
<1>0. pc = "get" /\ UNCHANGED <<provider, rules, req, disk, puts, foreign, outside>> /\ (NoFault \/ Fault)
      /\ \/ cp.phase = "submitted" /\ Advance(c) /\ UNCHANGED tick
         \/ EndTick
         \/ ~draining /\ LandGoto("cleanup")
         \/ Observe(cp, "merged")
         \/ req[cp.op] = "failed" /\ Observe(cp, "failed")
         \/ Observe(cp, "none")
  BY DEF Poll
<1>1. pc \in LoadedPc /\ faults' \in 0 .. MaxFaults /\ cp \in Checkpoint /\ Sound(cp) /\ cp = cursor
  BY <1>0, FaultCount, AtStep DEF LoadedPc
<1>2. cp.phase \in {"submitted", "released"} /\ cp.status \notin Definite /\ (cp.phase = "released" => ~draining)
  BY <1>0 DEF LandInv, MemoryOK, PhaseOK
<1>3. c \in Checkpoint /\ c.op = cp.op /\ c.phase = "terminal" /\ c.status = "indeterminate"
  BY <1>1, Phases DEF Checkpoint, Status
<1> HIDE DEF c
<1>4. CASE cp.phase = "submitted" /\ Advance(c) /\ UNCHANGED tick
  <2>1. UNCHANGED <<draining, marked, snap, seen>> /\ marked \in BOOLEAN /\ snap \in Pair /\ seen \in Seen
        /\ (marked => draining) /\ seen.answer # "failed"
    BY <1>0, <1>4, LandTypes DEF tick, MemoryType, LandInv, MemoryOK, SubmitOK, WatchPc
  <2>2. Sound(c)
    BY <1>3 DEF Sound, BeforeSubmission
  <2> QED
    BY <1>0, <1>1, <1>2, <1>3, <1>4, <2>1, <2>2, AdvanceInv DEF LockedPhases, BeforeSubmission
<1>5. CASE EndTick
  BY <1>0, <1>1, <1>5, EndInv
<1>6. CASE ~draining /\ LandGoto("cleanup")
  BY <1>0, <1>1, <1>6, GotoInv
<1>7. CASE Observe(cp, "merged")
  BY <1>0, <1>1, <1>2, <1>7, ObserveInv DEF Answer
<1>8. CASE req[cp.op] = "failed" /\ Observe(cp, "failed")
  BY <1>0, <1>1, <1>2, <1>8, ObserveInv DEF Answer
<1>9. CASE Observe(cp, "none")
  BY <1>0, <1>1, <1>2, <1>9, ObserveInv DEF Answer
<1> QED
  BY <1>0, <1>4, <1>5, <1>6, <1>7, <1>8, <1>9

LEMMA ObserveTipInv == ASSUME LandInv, ObserveTip PROVE LandInv'
<1>0. UNCHANGED <<merged, by, head, other, tip, suffix, rules, req, cursor, archive, plan, puts, foreign, outside>>
      /\ UNCHANGED <<provider, rules, req, disk, puts, foreign, outside>> /\ UNCHANGED <<cp, draining, marked, snap, faults>>
      /\ pc = "tip" /\ pc' = "observe" /\ seen' = [seen EXCEPT !.tip = tip]
  BY DEF ObserveTip, provider, disk
<1>1. seen' \in Seen /\ seen'.answer = seen.answer
  BY <1>0, LandTypes DEF MemoryType, Seen
<1>2. MemoryType' /\ faults' \in 0 .. MaxFaults
  BY <1>0, <1>1, LandTypes DEF MemoryType, LandPc
<1>3. MemoryOK'
  <2>1. LinkOK'
    BY <1>0 DEF LandInv, MemoryOK, LinkOK, LoadedPc, SavingPc, WatchPc, BusyPc, Sound, HeadsExact
  <2>2. PhaseOK' /\ SubmitOK'
    BY <1>0, <1>1 DEF LandInv, MemoryOK, PhaseOK, SubmitOK, WatchPc, SavingPc
  <2> QED
    BY <2>1, <2>2 DEF MemoryOK
<1> QED
  BY <1>0, <1>2, <1>3, MemoryStep

\* What the observation classifies as definite is so.
LEMMA ClassifySound ==
  ASSUME LandInv, pc = "observe", NEW c \in Checkpoint, c.op = cp.op, c.phase \in {"terminal", "released"},
         c.status \in {Classify, "indeterminate"}
  PROVE  Sound(c)
<1>0. cp.op \in Ops /\ OpOK(cp.op) /\ merged \in Nat /\ plan[cp.op] \in Plan
  BY InMemory, LandTypes DEF BusyPc, WatchPc
<1>1. ASSUME c.status = "merged" PROVE plan[c.op].hi <= merged /\ HeadsExact(plan[c.op])
  <2>1. merged = P.hi /\ HeadsExact(P)
    BY <1>1 DEF Classify
  <2> QED
    BY <1>0, <2>1 DEF P
<1>2. ASSUME c.status = "failed" PROVE req[c.op] = "failed" /\ \A i \in Entry : by[i] # c.op
  <2>1. merged < P.lo /\ seen.answer = "failed"
    BY <1>2 DEF Classify
  <2>2. req[c.op] = "failed"
    BY <2>1 DEF LandInv, MemoryOK, SubmitOK
  <2>a. P.lo \in Entry
    BY <1>0 DEF P, Plan
  <2>3. P.lo \in Nat
    BY <2>a, NAssumption DEF Entry
  <2>4. \A i \in Entry : i \in Nat
    BY NAssumption DEF Entry
  <2>5. \A i \in Entry : by[i] # c.op
    BY <1>0, <2>1, <2>3, <2>4 DEF OpOK, P
  <2> QED
    BY <2>2, <2>5
<1> QED
  BY <1>1, <1>2 DEF Sound, BeforeSubmission

LEMMA ObserveStackInv == ASSUME LandInv, ObserveStack PROVE LandInv'
<1>0. PICK s \in Status :
        /\ s \in {Classify, "indeterminate"} /\ (NoFault \/ Fault)
        /\ IF cp.phase = "released"
           THEN IF s \in Definite
                THEN Advance([cp EXCEPT !.status = s])
                ELSE pc' = "cleanup" /\ UNCHANGED cp
           ELSE Advance([cp EXCEPT !.phase = "terminal", !.status = IF seen.lock THEN s ELSE "indeterminate"])
  BY DEF ObserveStack
<1>1. pc = "observe" /\ UNCHANGED <<provider, rules, req, disk, puts, foreign, outside>> /\ seen' = Blank
      /\ UNCHANGED <<draining, marked, snap>>
  BY DEF ObserveStack
<1>2. pc \in BusyPc /\ pc \in WatchPc /\ pc # "drain" /\ faults' \in 0 .. MaxFaults
  BY <1>0, <1>1, FaultCount DEF BusyPc, WatchPc
<1>3. cp \in Checkpoint /\ cp # NoCursor /\ cursor # NoCursor /\ cursor.status = cp.status /\ cp.status \notin Definite
      /\ (cp.phase = "released" => ~draining)
  BY <1>2, InMemory DEF LandInv, MemoryOK, LinkOK, PhaseOK
<1>4. snap' \in Pair /\ seen' \in Seen /\ seen'.answer = "none" /\ marked' \in BOOLEAN /\ (marked' => draining)
  <2>1. Blank \in Seen /\ Blank.answer = "none"
    BY NAssumption DEF Seen, Blank, Answer
  <2>2. marked => draining
    BY DEF LandInv, MemoryOK, SubmitOK
  <2> QED
    BY <1>1, <2>1, <2>2, LandTypes DEF MemoryType
<1>5. ASSUME NEW c \in Checkpoint, Advance(c), c.op = cp.op, c.status \in {Classify, "indeterminate"},
             c.phase = "terminal" \/ (c.phase = "released" /\ cp.phase = "released")
      PROVE  LandInv'
  <2>1. Sound(c)
    BY <1>1, <1>5, ClassifySound
  <2>2. c.phase \notin LockedPhases /\ c.phase # "submitting" /\ c.phase \notin BeforeSubmission
    BY <1>5 DEF LockedPhases, BeforeSubmission
  <2> QED
    BY <1>1, <1>2, <1>3, <1>4, <1>5, <2>1, <2>2, AdvanceInv
<1>6. CASE cp.phase = "released" /\ s \in Definite
  <2> DEFINE c == [cp EXCEPT !.status = s]
  <2>1. c \in Checkpoint /\ c.op = cp.op /\ c.phase = cp.phase /\ c.status = s
    BY <1>3 DEF Checkpoint
  <2>2. Advance(c)
    BY <1>0, <1>6
  <2> HIDE DEF c
  <2> QED
    BY <1>0, <1>5, <1>6, <2>1, <2>2
<1>7. CASE cp.phase = "released" /\ s \notin Definite
  <2>0. UNCHANGED <<merged, by, head, other, tip, suffix, rules, req, cursor, archive, plan, puts, foreign, outside>>
        /\ pc' = "cleanup" /\ UNCHANGED cp
    BY <1>0, <1>1, <1>7 DEF provider, disk
  <2>1. MemoryType'
    BY <1>1, <1>3, <1>4, <2>0, LandTypes DEF MemoryType, LandPc
  <2>2. MemoryOK'
    BY <1>1, <1>3, <1>4, <1>7, <2>0
       DEF MemoryOK, LinkOK, PhaseOK, SubmitOK, BusyPc, LoadedPc, SavingPc, WatchPc
  <2> QED
    BY <1>1, <1>2, <2>1, <2>2, MemoryStep
<1>8. CASE cp.phase # "released"
  <2> DEFINE v == IF seen.lock THEN s ELSE "indeterminate"
             c == [cp EXCEPT !.phase = "terminal", !.status = v]
  <2>1. v \in Status /\ v \in {Classify, "indeterminate"}
    BY <1>0 DEF Status
  <2> HIDE DEF v
  <2>2. c \in Checkpoint /\ c.op = cp.op /\ c.phase = "terminal" /\ c.status = v
    BY <1>3, <2>1, Phases DEF Checkpoint
  <2>3. Advance(c)
    BY <1>0, <1>8 DEF v
  <2> HIDE DEF c
  <2> QED
    BY <1>5, <2>1, <2>2, <2>3
<1> QED
  BY <1>6, <1>7, <1>8

-----------------------------------------------------------------------------
(* Steps that write to disk.                                               *)

\* What save_native derives from a checkpoint that says the truth.
LEMMA OutcomeFacts ==
  ASSUME NEW c \in Checkpoint
  PROVE  /\ OutcomeOf(c) \in Outcome /\ OutcomeOf(c) # "none"
         /\ OutcomeOf(c) = "applied" => c.status = "merged"
         /\ OutcomeOf(c) = "not_applied" => c.status = "failed"
         /\ OutcomeOf(c) = "not_attempted" => c.phase \in BeforeSubmission
<1>1. Rank[c.phase] < Rank["submitting"] => c.phase \in BeforeSubmission
  BY CheckpointFields DEF Phase, Rank, BeforeSubmission
<1> QED
  BY <1>1, CheckpointFields DEF OutcomeOf, Outcome, Status, Definite

LEMMA ArchiveStep ==
  ASSUME LandInv, pc \in BusyPc, archive' = [archive EXCEPT ![cp.op] = OutcomeOf(cp)],
         UNCHANGED <<provider, rules, req, cursor, plan, puts, foreign, faults, outside>>,
         cursor # NoCursor => cp.op = cursor.op
           /\ (cursor.phase \notin BeforeSubmission => cp.phase \notin BeforeSubmission),
         MemoryType', MemoryOK'
  PROVE  LandInv'
<1>0. UNCHANGED <<merged, by, head, other, tip, suffix, rules, req, cursor, plan, puts, foreign, faults, outside>>
  BY DEF provider
<1>1. cp \in Checkpoint /\ cp.op \in Ops /\ Sound(cp)
  BY InMemory
<1>2. archive' \in [Ops -> Outcome] /\ archive'[cp.op] = OutcomeOf(cp)
      /\ \A o \in Ops : o # cp.op => archive'[o] = archive[o]
  BY <1>1, LandTypes, OutcomeFacts
<1>3. LandTypeOK'
  BY <1>0, <1>2 DEF LandInv, LandTypeOK, MemoryType
<1>4. Counts'
  BY <1>0 DEF LandInv, Counts
<1>5. ASSUME NEW o \in Ops PROVE OpOK(o)'
  <2>1. OpOK(o)
    BY DEF LandInv
  <2>2. Outcomes(o)'
    <3>1. CASE o = cp.op
      BY <1>0, <1>1, <1>2, <3>1, OutcomeFacts DEF Outcomes, Sound, HeadsExact
    <3>2. CASE o # cp.op
      BY <1>0, <1>2, <2>1, <3>2 DEF OpOK, Outcomes, HeadsExact
    <3> QED
      BY <3>1, <3>2
  <2> QED
    BY <1>0, <2>1, <2>2 DEF OpOK, InFlight
<1>6. CursorOK'
  <2>1. SUFFICES ASSUME cursor # NoCursor PROVE Sound(cursor)' /\ Archived(cursor)'
    BY <1>0 DEF CursorOK
  <2>2. Sound(cursor)'
    BY <1>0, <2>1 DEF LandInv, CursorOK, Sound, HeadsExact
  <2>3. Archived(cursor)'
    BY <1>0, <1>1, <1>2, <2>1, OutcomeFacts DEF Archived
  <2> QED
    BY <2>2, <2>3
<1>7. LockOK'
  BY <1>0 DEF LandInv, LockOK, LocksAccounted, InFlightKeepsLock
<1> QED
  BY <1>3, <1>4, <1>5, <1>6, <1>7 DEF LandInv

LEMMA LinkInv == ASSUME LandInv, Link PROVE LandInv'
<1>0. pc = "link" /\ archive' = [archive EXCEPT ![cp.op] = OutcomeOf(cp)] /\ UNCHANGED <<cp, tick>>
      /\ UNCHANGED <<provider, rules, req, cursor, plan, puts, foreign, faults, outside>>
      /\ \/ pc' = "released" /\ cp.phase = "released"
         \/ pc' = "cleanup"
         \/ pc' = "step" /\ cp.phase \notin BeforeSubmission
  BY DEF Link, LandGoto, BeforeSubmission
<1>1. pc \in LoadedPc /\ pc \in BusyPc /\ cp = cursor /\ cp \in Checkpoint /\ cp # NoCursor /\ Sound(cp)
  BY <1>0, AtStep, CheckpointFields DEF LoadedPc
<1>2. UNCHANGED <<merged, by, head, req, cursor, rules, plan, puts, foreign, draining, marked, snap, seen>>
  BY <1>0 DEF provider, tick
<1>3. ~draining /\ ~marked /\ seen.answer # "failed"
  BY <1>0 DEF LandInv, MemoryOK, SubmitOK, WatchPc
<1>4. MemoryType'
  BY <1>0, <1>2, LandTypes DEF MemoryType, LandPc
<1>5. MemoryOK'
  <2>1. Sound(cp)'
    BY <1>0, <1>1, <1>2 DEF Sound, HeadsExact
  <2>2. LinkOK'
    BY <1>0, <1>1, <1>2, <2>1 DEF LinkOK, BusyPc, LoadedPc, SavingPc, WatchPc
  <2>3. PhaseOK' /\ SubmitOK'
    BY <1>0, <1>1, <1>2, <1>3 DEF PhaseOK, SubmitOK, SavingPc, WatchPc
  <2> QED
    BY <2>2, <2>3 DEF MemoryOK
<1> QED
  BY <1>0, <1>1, <1>4, <1>5, ArchiveStep

LEMMA SaveArchiveInv == ASSUME LandInv, SaveArchive PROVE LandInv'
<1>0. pc = "archive" /\ archive' = [archive EXCEPT ![cp.op] = OutcomeOf(cp)] /\ UNCHANGED <<cp, tick>>
      /\ UNCHANGED <<provider, rules, req, cursor, plan, puts, foreign, faults, outside>> /\ pc' = "cursor"
  BY DEF SaveArchive, LandGoto
<1>1. pc \in BusyPc /\ pc \in SavingPc
  BY <1>0 DEF BusyPc, SavingPc
<1>2. cp \in Checkpoint /\ cp # NoCursor /\ Sound(cp) /\ cp.op \in Ops
  BY <1>1, InMemory
<1>3. UNCHANGED <<merged, by, head, req, cursor, rules, plan, puts, foreign, draining, marked, snap, seen>>
  BY <1>0 DEF provider, tick
<1>4. MemoryType'
  BY <1>0, <1>3, LandTypes DEF MemoryType, LandPc
<1>5. MemoryOK'
  <2>1. Sound(cp)'
    BY <1>0, <1>2, <1>3 DEF Sound, HeadsExact
  <2>2. Archived(cp)'
    BY <1>0, <1>2, LandTypes, OutcomeFacts DEF Archived
  <2>3. LinkOK'
    BY <1>0, <1>1, <1>2, <1>3, <2>1, <2>2 DEF LandInv, MemoryOK, LinkOK, BusyPc, LoadedPc, SavingPc, WatchPc
  <2>4. PhaseOK' /\ SubmitOK'
    BY <1>0, <1>1, <1>3 DEF LandInv, MemoryOK, PhaseOK, SubmitOK, SavingPc, WatchPc
  <2> QED
    BY <2>3, <2>4 DEF MemoryOK
<1>6. cursor # NoCursor => cp.op = cursor.op
           /\ (cursor.phase \notin BeforeSubmission => cp.phase \notin BeforeSubmission)
  BY <1>1 DEF LandInv, MemoryOK, LinkOK
<1> QED
  BY <1>0, <1>1, <1>4, <1>5, <1>6, ArchiveStep

LEMMA SaveCursorInv == ASSUME LandInv, SaveCursor PROVE LandInv'
<1>0. pc = "cursor" /\ cursor' = cp /\ UNCHANGED <<cp, tick>>
      /\ UNCHANGED <<provider, rules, req, archive, plan, puts, foreign, faults, outside>>
      /\ \/ pc' = "released" /\ cp.phase = "released" /\ ~draining
         \/ pc' = "step"
  BY DEF SaveCursor, LandGoto
<1>1. pc \in BusyPc /\ pc \in SavingPc
  BY <1>0 DEF BusyPc, SavingPc
<1>2. cp \in Checkpoint /\ cp # NoCursor /\ Sound(cp) /\ cp.op \in Ops /\ Archived(cp)
  BY <1>0, <1>1, InMemory DEF LandInv, MemoryOK, LinkOK
<1>3. UNCHANGED <<merged, by, head, other, tip, suffix, req, rules, archive, plan, puts, foreign, faults, outside>>
      /\ UNCHANGED <<draining, marked, snap, seen>>
  BY <1>0 DEF provider, tick
<1>4. /\ IF cursor = NoCursor THEN cp.phase = "planned" ELSE cp.op = cursor.op
      /\ cp.phase = "released" => rules = {}
      /\ cp.phase \in LockedPhases /\ ~foreign => cp.op \in rules
  BY <1>1 DEF LandInv, MemoryOK, LinkOK
<1>5. LandTypeOK'
  <2>1. cursor' \in Checkpoint \cup {NoCursor} /\ pc' \in LandPc
    BY <1>0, <1>2 DEF LandPc
  <2> QED
    BY <1>0, <1>3, <2>1 DEF LandInv, LandTypeOK
<1>6. Counts'
  BY <1>3 DEF LandInv, Counts
<1>7. ASSUME NEW o \in Ops PROVE OpOK(o)'
  <2>1. OpOK(o)
    BY DEF LandInv
  <2> QED
    BY <1>0, <1>2, <1>3, <1>4, <2>1 DEF OpOK, Outcomes, InFlight, HeadsExact
<1>8. Sound(cp)' /\ Archived(cp)'
  BY <1>0, <1>2, <1>3 DEF Sound, HeadsExact, Archived
<1>9. CursorOK'
  BY <1>0, <1>8 DEF CursorOK, Sound, Archived, HeadsExact
<1>10. LinkOK'
  BY <1>0, <1>2, <1>8 DEF LinkOK, BusyPc, LoadedPc, SavingPc, WatchPc
<1>11. PhaseOK' /\ SubmitOK'
  BY <1>0, <1>1, <1>3 DEF LandInv, MemoryOK, PhaseOK, SubmitOK, SavingPc, WatchPc
<1>12. LockOK'
  BY <1>0, <1>2, <1>3, <1>4 DEF LandInv, LockOK, LocksAccounted, InFlightKeepsLock, LockedPhases
<1> QED
  BY <1>5, <1>6, <1>7, <1>9, <1>10, <1>11, <1>12 DEF LandInv, MemoryOK

LEMMA BeginInv == ASSUME LandInv, NEW o \in Ops, NEW hi \in Entry, Begin(o, hi) PROVE LandInv'
<1> DEFINE p == [lo |-> merged + 1, hi |-> hi, heads |-> head, other |-> other]
           c == [op |-> o, phase |-> "planned", uuid |-> FALSE, status |-> "none"]
<1>0. pc = "drain" /\ cursor = NoCursor /\ archive[o] = "none" /\ merged < hi /\ plan' = [plan EXCEPT ![o] = p]
      /\ cp' = c /\ pc' = "archive" /\ UNCHANGED <<provider, rules, req, cursor, archive, tick, puts, foreign, faults, outside>>
  BY DEF Begin, Advance
<1>1. UNCHANGED <<merged, by, head, other, tip, suffix, rules, req, cursor, archive, puts, foreign, faults, outside>>
      /\ UNCHANGED <<draining, marked, snap, seen>>
  BY <1>0 DEF provider, tick
<1>2. p \in Plan /\ p.lo <= merged + 1
  <2>1. merged \in Nat /\ hi \in Nat /\ merged + 1 \in Entry
    BY <1>0, LandTypes, NAssumption DEF Entry
  <2> QED
    BY <2>1, LandTypes DEF Plan
<1>3. c \in Checkpoint /\ c.op = o /\ c.phase = "planned" /\ c.status = "none" /\ c # NoCursor
  <2>1. c \in Checkpoint
    BY Phases DEF Checkpoint, Status
  <2> QED
    BY <2>1, CheckpointFields
<1> HIDE DEF p, c
<1>4. plan' \in [Ops -> Plan] /\ plan'[o] = p /\ \A q \in Ops : q # o => plan'[q] = plan[q]
  BY <1>0, <1>2, LandTypes
<1>5. puts[o] = 0 /\ req[o] = "none" /\ \A i \in Entry : by[i] # o
  BY <1>0 DEF LandInv, OpOK, Outcomes
<1>6. LandTypeOK'
  <2>1. cp' \in Checkpoint \cup {NoCursor} /\ pc' \in LandPc
    BY <1>0, <1>3 DEF LandPc
  <2> QED
    BY <1>1, <1>4, <2>1 DEF LandInv, LandTypeOK
<1>7. Counts' /\ CursorOK'
  BY <1>0, <1>1 DEF LandInv, Counts, CursorOK
<1>8. ASSUME NEW q \in Ops PROVE OpOK(q)'
  <2>1. OpOK(q)
    BY DEF LandInv
  <2>2. CASE q = o
    BY <1>0, <1>1, <1>2, <1>4, <1>5, <2>2 DEF OpOK, Outcomes, InFlight
  <2>3. CASE q # o
    BY <1>1, <1>4, <2>1, <2>3 DEF OpOK, Outcomes, InFlight, HeadsExact
  <2> QED
    BY <2>2, <2>3
<1>9. LinkOK'
  <2>1. Sound(cp)'
    BY <1>0, <1>1, <1>3, <1>5 DEF Sound
  <2> QED
    BY <1>0, <1>1, <1>3, <2>1 DEF LinkOK, BusyPc, LoadedPc, SavingPc, WatchPc, LockedPhases
<1>10. PhaseOK' /\ SubmitOK'
  BY <1>0, <1>1, <1>3 DEF LandInv, MemoryOK, PhaseOK, SubmitOK, SavingPc, WatchPc
<1>11. LockOK'
  BY <1>1 DEF LandInv, LockOK, LocksAccounted, InFlightKeepsLock
<1> QED
  BY <1>6, <1>7, <1>8, <1>9, <1>10, <1>11 DEF LandInv, MemoryOK

-----------------------------------------------------------------------------
(* Steps that write to the provider.                                       *)

\* The operations do not depend on the rulesets or on what the tick has in memory.
LEMMA RulesStep ==
  ASSUME LandInv, rules' \in SUBSET Ops, UNCHANGED <<provider, req, disk, puts, foreign, faults, outside>>,
         MemoryType', MemoryOK', LockOK'
  PROVE  LandInv'
<1>0. UNCHANGED <<merged, by, head, other, tip, suffix, req, cursor, archive, plan, puts, foreign, faults, outside>>
  BY DEF provider, disk
<1>1. LandTypeOK'
  BY <1>0 DEF LandInv, LandTypeOK, MemoryType
<1>2. Counts' /\ CursorOK'
  BY <1>0 DEF LandInv, Counts, CursorOK, Sound, Archived, HeadsExact
<1>3. ASSUME NEW o \in Ops PROVE OpOK(o)'
  BY <1>0 DEF LandInv, OpOK, Outcomes, InFlight, HeadsExact
<1> QED
  BY <1>1, <1>2, <1>3 DEF LandInv

LEMMA AcquireLockInv == ASSUME LandInv, AcquireLock PROVE LandInv'
<1>0. pc = "step" /\ draining /\ cp.phase = "planned" /\ rules' = rules \cup {cp.op} /\ pc' = "readback"
      /\ UNCHANGED <<cp, tick>> /\ UNCHANGED <<provider, req, disk, puts, foreign, faults, outside>>
  BY DEF AcquireLock, LandGoto
<1>1. UNCHANGED <<merged, by, head, req, cursor, archive, plan, puts, foreign, draining, marked, snap, seen>>
  BY <1>0 DEF provider, disk, tick
<1>2. pc \in LoadedPc /\ cp = cursor /\ cp \in Checkpoint /\ cp # NoCursor /\ cp.op \in Ops /\ Sound(cp)
  BY <1>0, AtStep, CheckpointFields DEF LoadedPc
<1>3. rules' \in SUBSET Ops /\ rules' = {cp.op}
  BY <1>0, <1>2, LandTypes DEF LandInv, LockOK, LocksAccounted
<1>4. LockOK'
  BY <1>0, <1>1, <1>2, <1>3 DEF LockOK, LocksAccounted, InFlightKeepsLock
<1>5. MemoryType'
  BY <1>0, <1>1, LandTypes DEF MemoryType, LandPc
<1>6. LinkOK'
  <2>1. Sound(cp)'
    BY <1>0, <1>1, <1>2 DEF Sound, HeadsExact
  <2> QED
    BY <1>0, <1>1, <1>2, <2>1 DEF LinkOK, BusyPc, LoadedPc, SavingPc, WatchPc
<1>7. PhaseOK' /\ SubmitOK'
  BY <1>0, <1>1 DEF LandInv, MemoryOK, PhaseOK, SubmitOK, SavingPc, WatchPc
<1> QED
  BY <1>0, <1>3, <1>4, <1>5, <1>6, <1>7, RulesStep DEF MemoryOK

LEMMA ReleaseInv == ASSUME LandInv, Release PROVE LandInv'
<1> DEFINE c == [cp EXCEPT !.phase = "released"]
<1>0. pc = "step" /\ cp.phase = "terminal" /\ rules' = rules \ {cp.op} /\ pc' = "archive" /\ cp' = c
      /\ UNCHANGED tick /\ UNCHANGED <<provider, req, disk, puts, foreign, faults, outside>>
  BY DEF Release, Advance
<1>1. UNCHANGED <<merged, by, head, req, cursor, archive, plan, puts, foreign, draining, marked, snap, seen>>
  BY <1>0 DEF provider, disk, tick
<1>2. pc \in LoadedPc /\ cp = cursor /\ cp \in Checkpoint /\ cp # NoCursor /\ cp.op \in Ops /\ Sound(cp)
  BY <1>0, AtStep, CheckpointFields DEF LoadedPc
<1>3. c \in Checkpoint /\ c.op = cp.op /\ c.phase = "released" /\ c.status = cp.status /\ c # NoCursor
  <2>1. c \in Checkpoint /\ c.op = cp.op /\ c.phase = "released" /\ c.status = cp.status
    BY <1>2, Phases DEF Checkpoint
  <2> QED
    BY <2>1, CheckpointFields
<1> HIDE DEF c
<1>4. rules' = {}
  BY <1>0, <1>2 DEF LandInv, LockOK, LocksAccounted
<1>5. LockOK'
  BY <1>0, <1>1, <1>2, <1>4 DEF LockOK, LocksAccounted, InFlightKeepsLock
<1>6. MemoryType'
  BY <1>0, <1>1, <1>3, LandTypes DEF MemoryType, LandPc
<1>7. LinkOK'
  <2>1. Sound(cp)'
    BY <1>0, <1>1, <1>2, <1>3 DEF Sound, HeadsExact, BeforeSubmission
  <2> QED
    BY <1>0, <1>1, <1>2, <1>3, <1>4, <2>1 DEF LinkOK, BusyPc, LoadedPc, SavingPc, WatchPc, LockedPhases, BeforeSubmission
<1>8. PhaseOK' /\ SubmitOK'
  BY <1>0, <1>1, <1>3 DEF LandInv, MemoryOK, PhaseOK, SubmitOK, SavingPc, WatchPc, BeforeSubmission
<1>9. rules' \in SUBSET Ops
  BY <1>4
<1> QED
  BY <1>0, <1>5, <1>6, <1>7, <1>8, <1>9, RulesStep DEF MemoryOK

LEMMA CleanupOrphansInv == ASSUME LandInv, CleanupOrphans PROVE LandInv'
<1>0. pc = "cleanup" /\ rules' = rules \cap OutstandingLock /\ pc' = "drain" /\ cp' = NoCursor /\ draining' = TRUE
      /\ UNCHANGED <<marked, snap, seen>> /\ UNCHANGED <<provider, req, disk, puts, foreign, faults, outside>>
      /\ UNCHANGED <<cursor, foreign>>
  BY DEF CleanupOrphans, disk
<1>1. ~marked /\ seen.answer # "failed"
  BY <1>0 DEF LandInv, MemoryOK, SubmitOK, WatchPc
<1>2. MemoryType'
  BY <1>0, LandTypes DEF MemoryType, LandPc
<1>3. MemoryOK'
  BY <1>0, <1>1 DEF MemoryOK, LinkOK, PhaseOK, SubmitOK, BusyPc, LoadedPc, SavingPc, WatchPc
<1>4. LockOK'
  BY <1>0 DEF LandInv, LockOK, LocksAccounted, InFlightKeepsLock, OutstandingLock
<1>5. rules' \in SUBSET Ops
  BY <1>0, LandTypes
<1> QED
  BY <1>0, <1>2, <1>3, <1>4, <1>5, RulesStep

LEMMA PutInv == ASSUME LandInv, Put PROVE LandInv'
<1>0. pc = "put" /\ req' = [req EXCEPT ![cp.op] = "sent"] /\ puts' = [puts EXCEPT ![cp.op] = @ + 1] /\ pc' = "reply"
      /\ UNCHANGED <<cp, tick>> /\ UNCHANGED <<provider, rules, disk, foreign, faults, outside>>
  BY DEF Put, LandGoto
<1>1. UNCHANGED <<merged, by, head, other, tip, suffix, rules, cursor, archive, plan, foreign, faults, outside>>
      /\ UNCHANGED <<draining, marked, snap, seen>>
  BY <1>0 DEF provider, disk, tick
<1>2. pc \in LoadedPc /\ cp = cursor /\ cp \in Checkpoint /\ cp # NoCursor /\ cp.op \in Ops /\ Sound(cp) /\ OpOK(cp.op)
  BY <1>0, AtStep, CheckpointFields DEF LoadedPc
<1>3. cp.phase = "submitting" /\ puts[cp.op] = 0 /\ cp.status = "none" /\ Archived(cp)
  BY <1>0, <1>2 DEF LandInv, MemoryOK, PhaseOK, SubmitOK, Sound, CursorOK
<1>4. /\ req' \in [Ops -> Request] /\ puts' \in [Ops -> Nat]
      /\ req'[cp.op] = "sent" /\ puts'[cp.op] = 1
      /\ \A o \in Ops : o # cp.op => req'[o] = req[o] /\ puts'[o] = puts[o]
  BY <1>0, <1>2, <1>3, LandTypes DEF Request
<1>5. LandTypeOK'
  <2>1. pc' \in LandPc
    BY <1>0 DEF LandPc
  <2> QED
    BY <1>0, <1>1, <1>4, <2>1 DEF LandInv, LandTypeOK
<1>6. Counts'
  BY <1>1 DEF LandInv, Counts
<1>7. ASSUME NEW o \in Ops PROVE OpOK(o)'
  <2>1. OpOK(o)
    BY DEF LandInv
  <2>2. CASE o = cp.op
    <3>1. archive[o] \notin {"none", "not_attempted", "not_applied"}
      BY <1>2, <1>3, <2>1, <2>2 DEF OpOK, Outcomes, Archived, BeforeSubmission
    <3> QED
      BY <1>1, <1>2, <1>4, <2>1, <2>2, <3>1 DEF OpOK, Outcomes, InFlight, HeadsExact
  <2>3. CASE o # cp.op
    BY <1>1, <1>4, <2>1, <2>3 DEF OpOK, Outcomes, InFlight, HeadsExact
  <2> QED
    BY <2>2, <2>3
<1>8. Sound(cp)'
  BY <1>0, <1>3 DEF Sound, BeforeSubmission
<1>9. CursorOK'
  BY <1>0, <1>1, <1>2, <1>3, <1>8 DEF CursorOK, Archived
<1>10. LinkOK'
  BY <1>0, <1>1, <1>2, <1>8 DEF LinkOK, BusyPc, LoadedPc, SavingPc, WatchPc
<1>11. PhaseOK' /\ SubmitOK'
  BY <1>0, <1>1, <1>3 DEF LandInv, MemoryOK, PhaseOK, SubmitOK, SavingPc, WatchPc
<1>12. LockOK'
  BY <1>1 DEF LandInv, LockOK, LocksAccounted, InFlightKeepsLock
<1> QED
  BY <1>5, <1>6, <1>7, <1>9, <1>10, <1>11, <1>12 DEF LandInv, MemoryOK

LEMMA RetireInv == ASSUME LandInv, Retire PROVE LandInv'
<1>0. pc = "released" /\ cp.status \in Definite /\ cursor' = NoCursor /\ pc' = "cleanup" /\ cp' = NoCursor
      /\ UNCHANGED <<provider, rules, req, archive, plan, tick, puts, foreign, faults, outside>>
  BY DEF Retire, Converged
<1>1. UNCHANGED <<merged, by, head, other, tip, suffix, rules, req, archive, plan, puts, foreign, faults, outside>>
      /\ UNCHANGED <<draining, marked, snap, seen>>
  BY <1>0 DEF provider, tick
<1>2. pc \in LoadedPc /\ cp = cursor /\ cp \in Checkpoint /\ cp # NoCursor /\ cp.op \in Ops /\ Sound(cp)
      /\ cp.phase = "released" /\ ~draining /\ ~marked /\ seen.answer # "failed" /\ rules = {}
  <2>1. pc \in LoadedPc
    BY <1>0 DEF LoadedPc
  <2> QED
    BY <1>0, <2>1, AtStep, CheckpointFields
       DEF LandInv, MemoryOK, PhaseOK, SubmitOK, WatchPc, LockOK, LocksAccounted
<1>3. LandTypeOK'
  <2>1. pc' \in LandPc
    BY <1>0 DEF LandPc
  <2> QED
    BY <1>0, <1>1, <2>1 DEF LandInv, LandTypeOK
<1>4. Counts' /\ CursorOK'
  BY <1>0, <1>1 DEF LandInv, Counts, CursorOK
<1>5. ~InFlight(cp.op)
  <2>1. merged \in Nat /\ plan[cp.op].hi \in Nat
    BY <1>2, LandTypes, NAssumption DEF Plan, Entry
  <2> QED
    BY <1>0, <1>2, <2>1 DEF Sound, InFlight, Definite
<1>6. ASSUME NEW o \in Ops PROVE OpOK(o)'
  <2>1. OpOK(o) /\ ~InFlight(o)
    BY <1>2, <1>5 DEF LandInv, OpOK
  <2> QED
    BY <1>1, <2>1 DEF OpOK, Outcomes, InFlight, HeadsExact
<1>7. MemoryOK'
  BY <1>0, <1>1, <1>2 DEF MemoryOK, LinkOK, PhaseOK, SubmitOK, BusyPc, LoadedPc, SavingPc, WatchPc
<1>8. LockOK'
  BY <1>0, <1>1, <1>2 DEF LockOK, LocksAccounted, InFlightKeepsLock
<1> QED
  BY <1>3, <1>4, <1>6, <1>7, <1>8 DEF LandInv

-----------------------------------------------------------------------------
(* Steps of the provider and of the others who write to it.                *)

\* A new merge is of the next open entry, by hand or by a running request within its plan.
NewMerge(i, o) ==
  /\ i = merged + 1 /\ i <= merged'
  /\ o # 0 => req[o] = "running"

LEMMA ProviderStep ==
  ASSUME LandInv, UNCHANGED <<disk, pc, cp, tick, puts, faults>>,
         merged' \in 0 .. N, tip' \in 0 .. N, suffix' \in BOOLEAN, by' \in [Entry -> Ops \cup {0}],
         head' \in [Entry -> 0 .. MaxOutside], other' \in 0 .. MaxOutside, req' \in [Ops -> Request],
         outside' \in 0 .. MaxOutside, Counts', merged <= merged',
         \A i \in Entry : i <= merged => head'[i] = head[i],
         \A o \in Ops : req[o] \in {"none", "failed"} => req'[o] = req[o],
         \A o \in Ops : InFlight(o)' => InFlight(o),
         \A i \in Entry : by'[i] = by[i] \/ NewMerge(i, by'[i]),
         (rules' = rules /\ foreign' = foreign) \/ (rules' = {} /\ foreign' = TRUE)
  PROVE  LandInv'
<1>0. UNCHANGED <<cursor, archive, plan, pc, cp, draining, marked, snap, seen, puts, faults>>
  BY DEF disk, tick
<1>1. merged \in Nat /\ merged' \in Nat /\ \A o \in Ops : plan[o].lo \in 1 .. N /\ plan[o].hi \in 1 .. N
  <2>1. merged \in Nat /\ merged' \in Nat
    BY LandTypes, NAssumption
  <2>2. \A o \in Ops : plan[o] \in Plan
    BY LandTypes
  <2> QED
    BY <2>1, <2>2 DEF Plan, Entry
<1>2. LandTypeOK'
  BY <1>0 DEF LandInv, LandTypeOK
<1>3. ASSUME NEW o \in Ops, plan[o].hi <= merged, HeadsExact(plan[o])
      PROVE  plan[o].hi <= merged' /\ HeadsExact(plan[o])'
  <2>1. plan[o].hi <= merged'
    BY <1>1, <1>3
  <2>2. ASSUME NEW i \in plan[o].lo .. plan[o].hi PROVE head'[i] = plan[o].heads[i]
    <3>1. i \in Entry /\ i <= merged
      <4>1. plan[o].lo \in 1 .. N /\ plan[o].hi \in 1 .. N /\ plan[o].hi <= merged /\ merged \in Nat
        BY <1>1, <1>3
      <4>2. ASSUME NEW lo \in 1 .. N, NEW hi \in 1 .. N, NEW m \in Nat, hi <= m, NEW k \in lo .. hi
            PROVE  k \in 1 .. N /\ k <= m
        BY <4>2, NAssumption
      <4> QED
        BY <4>1, <4>2, Zenon DEF Entry
    <3> QED
      BY <1>3, <2>2, <3>1 DEF HeadsExact
  <2> QED
    BY <1>0, <2>1, <2>2 DEF HeadsExact
<1>4. ASSUME NEW o \in Ops, req[o] = "failed", \A i \in Entry : by[i] # o
      PROVE  req'[o] = "failed" /\ \A i \in Entry : by'[i] # o
  <2>1. o # 0
    BY DEF Ops
  <2>2. req'[o] = "failed"
    BY <1>4
  <2>3. ASSUME NEW i \in Entry, by'[i] = o PROVE FALSE
    BY <1>4, <2>1, <2>3 DEF NewMerge
  <2> QED
    BY <2>2, <2>3
<1>5. ASSUME NEW o \in Ops PROVE OpOK(o)'
  <2>1. OpOK(o)
    BY DEF LandInv
  <2>2. plan[o].lo <= merged' + 1 /\ puts[o] <= 1
    BY <1>1, <2>1 DEF OpOK
  <2>3. puts[o] = 0 => req'[o] = "none"
    BY <2>1 DEF OpOK
  <2>4. ASSUME NEW i \in Entry, by'[i] = o PROVE puts[o] # 0 /\ plan[o].lo <= i /\ i <= merged'
    <3>1. i \in Nat /\ o # 0
      BY NAssumption DEF Entry, Ops
    <3>2. CASE by[i] = o
      BY <1>1, <2>1, <3>1, <3>2 DEF OpOK
    <3>3. CASE NewMerge(i, o)
      BY <1>1, <2>1, <3>1, <3>3 DEF OpOK, NewMerge
    <3> QED
      BY <2>4, <3>2, <3>3
  <2>5. Outcomes(o)'
    BY <1>0, <1>3, <1>4, <2>1 DEF OpOK, Outcomes
  <2>6. InFlight(o)' => cursor # NoCursor /\ cursor.op = o
    BY <2>1 DEF OpOK
  <2> QED
    BY <1>0, <2>2, <2>3, <2>4, <2>5, <2>6 DEF OpOK
<1>6. ASSUME NEW c \in Checkpoint, Sound(c) PROVE Sound(c)'
  BY <1>0, <1>3, <1>4, <1>6, CheckpointFields DEF Sound
<1>7. CursorOK'
  <2>1. SUFFICES ASSUME cursor # NoCursor PROVE Sound(cursor)' /\ Archived(cursor)'
    BY <1>0 DEF CursorOK
  <2>2. cursor \in Checkpoint /\ Sound(cursor) /\ Archived(cursor)
    BY <2>1, LandTypes DEF LandInv, CursorOK
  <2>3. Sound(cursor)'
    BY <1>0, <1>3, <1>4, <2>2, CheckpointFields DEF Sound
  <2> QED
    BY <1>0, <2>2, <2>3 DEF Archived
<1>8. LinkOK'
  <2>1. pc \in BusyPc => Sound(cp)'
    BY <1>0, <1>3, <1>4, InMemory DEF Sound
  <2> QED
    BY <1>0, <2>1 DEF LandInv, MemoryOK, LinkOK, Archived, SavingPc
<1>9. PhaseOK'
  BY <1>0 DEF LandInv, MemoryOK, PhaseOK
<1>10. SubmitOK'
  <2>1. seen.answer = "failed" => pc \in WatchPc /\ req'[cp.op] = "failed"
    BY InMemory DEF LandInv, MemoryOK, SubmitOK, BusyPc
  <2> QED
    BY <1>0, <2>1 DEF LandInv, MemoryOK, SubmitOK
<1>11. LockOK'
  BY <1>0 DEF LandInv, LockOK, LocksAccounted, InFlightKeepsLock
<1> QED
  BY <1>2, <1>5, <1>7, <1>8, <1>9, <1>10, <1>11 DEF LandInv, MemoryOK

\* A request is answered or ends: nothing merges.
LEMMA RequestStep ==
  ASSUME LandInv, NEW o \in Ops, NEW r \in Request, req[o] \in {"sent", "running"}, req' = [req EXCEPT ![o] = r],
         UNCHANGED <<provider, rules, disk, pc, cp, tick, puts, foreign, faults, outside>>
  PROVE  LandInv'
<1>0. UNCHANGED <<merged, by, head, other, tip, suffix, rules, plan, foreign, outside>>
      /\ UNCHANGED <<disk, pc, cp, tick, puts, faults>>
  BY DEF provider, disk
<1>1. req' \in [Ops -> Request] /\ \A q \in Ops : q # o => req'[q] = req[q]
  BY LandTypes
<1>2. \A q \in Ops : InFlight(q)' => InFlight(q)
  BY <1>0, <1>1 DEF InFlight
<1>3. \A q \in Ops : req[q] \in {"none", "failed"} => req'[q] = req[q]
  BY <1>1
<1>4. Counts' /\ merged <= merged'
  BY <1>0, LandTypes DEF LandInv, Counts
<1> QED
  BY <1>0, <1>1, <1>2, <1>3, <1>4, ProviderStep, LandTypes

LEMMA AcceptInv == ASSUME LandInv, NEW o \in Ops, Accept(o) \/ FailRequest(o) PROVE LandInv'
<1>1. PICK r \in Request : req' = [req EXCEPT ![o] = r]
  <2>1. CASE Accept(o)
    BY <2>1 DEF Accept, Request
  <2>2. CASE FailRequest(o)
    BY <2>2 DEF FailRequest, Request
  <2> QED
    BY <2>1, <2>2
<1>2. req[o] \in {"sent", "running"} /\ UNCHANGED <<provider, rules, disk, pc, cp, tick, puts, foreign, faults, outside>>
  BY DEF Accept, FailRequest
<1> QED
  BY <1>1, <1>2, RequestStep

\* The next open entry is merged.
LEMMA LandStep ==
  ASSUME LandInv, merged < N, NEW o \in Ops \cup {0}, Land(merged + 1, o),
         o # 0 => req[o] = "running",
         UNCHANGED <<rules, disk, pc, cp, tick, puts, foreign, faults>>,
         outside' \in 0 .. MaxOutside, outside <= outside', req' \in [Ops -> Request],
         \A q \in Ops : req[q] \in {"none", "failed"} => req'[q] = req[q],
         \A q \in Ops : req'[q] \in {"sent", "running"} => req[q] \in {"sent", "running"}
  PROVE  LandInv'
<1>0. merged' = merged + 1 /\ tip' = merged + 1 /\ by' = [by EXCEPT ![merged + 1] = o] /\ suffix' = (merged + 1 = N)
      /\ UNCHANGED <<head, other, plan>> /\ UNCHANGED <<disk, pc, cp, tick, puts, faults>>
      /\ UNCHANGED <<rules, foreign>>
  BY DEF Land, disk
<1>1. merged \in Nat /\ merged + 1 \in Entry /\ merged' \in 0 .. N /\ tip' \in 0 .. N /\ suffix' \in BOOLEAN
      /\ merged <= merged' /\ merged + 1 <= merged'
  BY <1>0, LandTypes, NAssumption DEF Entry
<1> DEFINE m == merged + 1
<1>2. by' \in [Entry -> Ops \cup {0}] /\ \A i \in Entry : IF i = m THEN by'[i] = o ELSE by'[i] = by[i]
  <2>1. m \in Entry /\ by' = [by EXCEPT ![m] = o]
    BY <1>0, <1>1
  <2> HIDE DEF m
  <2> QED
    BY <2>1, LandTypes
<1>3. \A i \in Entry : by'[i] = by[i] \/ NewMerge(i, by'[i])
  BY <1>1, <1>2 DEF NewMerge
<1>4. ASSUME NEW q \in Ops, InFlight(q)' PROVE InFlight(q)
  <2>1. plan[q].hi \in Nat
    BY LandTypes, NAssumption DEF Plan, Entry
  <2> QED
    BY <1>0, <1>1, <1>4, <2>1 DEF InFlight
<1>5. Counts'
  <2>1. outside \in Nat /\ outside' \in Nat /\ other \in Nat /\ \A i \in Entry : head[i] \in Nat
    BY LandTypes, LandingBounds
  <2> QED
    BY <1>0, <2>1 DEF LandInv, Counts
<1> HIDE DEF m
<1> QED
  BY <1>0, <1>1, <1>2, <1>3, <1>4, <1>5, ProviderStep, LandTypes

LEMMA MergeEntryInv == ASSUME LandInv, NEW o \in Ops, MergeEntry(o) PROVE LandInv'
<1>0. req[o] = "running" /\ merged < plan[o].hi /\ Land(merged + 1, o)
      /\ req' = [req EXCEPT ![o] = IF merged + 1 = plan[o].hi THEN "done" ELSE @]
      /\ UNCHANGED <<rules, disk, pc, cp, tick, puts, foreign, faults>> /\ UNCHANGED outside
  BY DEF MergeEntry
<1>1. merged < N
  BY SMTT(30), <1>0, LandTypes, NAssumption DEF Plan, Entry
<1>2. req' \in [Ops -> Request] /\ req'[o] \in {"done", "running"} /\ \A q \in Ops : q # o => req'[q] = req[q]
  BY <1>0, LandTypes DEF Request
<1>3. outside' \in 0 .. MaxOutside /\ outside <= outside'
  BY <1>0, LandTypes, LandingBounds
<1> QED
  BY <1>0, <1>1, <1>2, <1>3, LandStep

LEMMA OutsideCount ==
  ASSUME LandInv, Outside
  PROVE  outside' \in 0 .. MaxOutside /\ outside \in Nat /\ outside' = outside + 1 /\ outside <= outside'
         /\ outside + 1 <= MaxOutside
BY LandTypes, LandingBounds DEF Outside

LEMMA ManualMergeInv == ASSUME LandInv, ManualMerge PROVE LandInv'
<1>0. merged < N /\ Outside /\ Land(merged + 1, 0) /\ UNCHANGED req
      /\ UNCHANGED <<rules, disk, pc, cp, tick, puts, foreign, faults>>
  BY DEF ManualMerge
<1>1. req' \in [Ops -> Request]
  BY <1>0, LandTypes
<1> QED
  BY <1>0, <1>1, OutsideCount, LandStep

\* A step that merges nothing and changes no request.
LEMMA QuietStep ==
  ASSUME LandInv, UNCHANGED <<merged, by, req, disk, pc, cp, tick, puts, faults>>,
         tip' \in 0 .. N, suffix' \in BOOLEAN,
         head' \in [Entry -> 0 .. MaxOutside], other' \in 0 .. MaxOutside, outside' \in 0 .. MaxOutside, Counts',
         \A i \in Entry : i <= merged => head'[i] = head[i],
         (rules' = rules /\ foreign' = foreign) \/ (rules' = {} /\ foreign' = TRUE)
  PROVE  LandInv'
<1>1. \A q \in Ops : InFlight(q)' => InFlight(q)
  BY DEF InFlight, disk
<1>2. merged <= merged' /\ merged' \in 0 .. N /\ req' \in [Ops -> Request] /\ by' \in [Entry -> Ops \cup {0}]
  BY LandTypes
<1> QED
  BY <1>1, <1>2, ProviderStep

LEMMA PushInv == ASSUME LandInv, NEW i \in Entry, Push(i) PROVE LandInv'
<1>0. i > merged /\ Outside /\ head' = [head EXCEPT ![i] = @ + 1]
      /\ UNCHANGED <<merged, by, req, disk, pc, cp, tick, puts, faults>> /\ UNCHANGED <<other, tip, suffix, rules, foreign>>
  BY DEF Push
<1>1. head[i] \in Nat /\ head[i] <= outside /\ \A j \in Entry : head[j] \in Nat /\ head[j] <= outside
  BY LandTypes, LandingBounds DEF LandInv, Counts
<1> DEFINE h == head[i] + 1
<1>2. h \in 0 .. MaxOutside /\ h <= outside'
  BY <1>0, <1>1, OutsideCount, LandingBounds
<1>3. head' = [head EXCEPT ![i] = h]
  BY <1>0
<1> HIDE DEF h
<1>4. head' \in [Entry -> 0 .. MaxOutside] /\ \A j \in Entry : IF j = i THEN head'[j] = h ELSE head'[j] = head[j]
  BY <1>2, <1>3, LandTypes
<1>5. Counts'
  <2>1. other \in Nat /\ other <= outside
    BY LandTypes, LandingBounds DEF LandInv, Counts
  <2>2. other' <= outside'
    BY <1>0, <2>1, OutsideCount
  <2>3. \A j \in Entry : head'[j] <= outside'
    BY <1>0, <1>1, <1>2, <1>4, OutsideCount
  <2> QED
    BY <2>2, <2>3 DEF Counts
<1>6. \A j \in Entry : j <= merged => head'[j] = head[j]
  <2>1. merged \in Nat /\ i \in Nat
    BY LandTypes, NAssumption DEF Entry
  <2> QED
    BY <1>0, <1>4, <2>1
<1> QED
  BY <1>0, <1>4, <1>5, <1>6, OutsideCount, QuietStep, LandTypes

LEMMA OtherLandingInv == ASSUME LandInv, OtherLanding PROVE LandInv'
<1>0. Outside /\ other' = other + 1 /\ tip' = 0 /\ UNCHANGED <<head, suffix, rules, foreign>>
      /\ UNCHANGED <<merged, by, req, disk, pc, cp, tick, puts, faults>>
  BY DEF OtherLanding
<1>1. other \in Nat /\ other <= outside /\ \A j \in Entry : head[j] \in Nat /\ head[j] <= outside
  BY LandTypes, LandingBounds DEF LandInv, Counts
<1>2. other' \in 0 .. MaxOutside /\ Counts' /\ tip' \in 0 .. N
  BY <1>0, <1>1, OutsideCount, LandingBounds, NAssumption DEF Counts
<1> QED
  BY <1>0, <1>2, OutsideCount, QuietStep, LandTypes

LEMMA ForeignCleanupInv == ASSUME LandInv, ForeignCleanup \/ RepairSuffix PROVE LandInv'
<1>0. UNCHANGED <<merged, by, req, disk, pc, cp, tick, puts, faults>> /\ UNCHANGED <<head, other, tip>>
      /\ (Outside \/ UNCHANGED outside) /\ (suffix' = suffix \/ suffix' = TRUE)
      /\ ((rules' = rules /\ foreign' = foreign) \/ (rules' = {} /\ foreign' = TRUE))
  BY DEF ForeignCleanup, RepairSuffix, provider
<1>1. other \in Nat /\ other <= outside /\ \A j \in Entry : head[j] \in Nat /\ head[j] <= outside
  BY LandTypes, LandingBounds DEF LandInv, Counts
<1>2. outside' \in 0 .. MaxOutside /\ outside \in Nat /\ outside' \in Nat /\ outside <= outside'
  BY <1>0, OutsideCount, LandTypes, LandingBounds
<1>3. Counts'
  BY <1>0, <1>1, <1>2 DEF Counts
<1>4. suffix' \in BOOLEAN
  BY <1>0, LandTypes
<1> QED
  BY <1>0, <1>2, <1>3, <1>4, QuietStep, LandTypes

-----------------------------------------------------------------------------
LEMMA LandInitInv == ASSUME LandInit PROVE LandInv
<1>1. Blank \in Seen /\ Blank.answer = "none" /\ [merged |-> 0, suffix |-> TRUE] \in Pair
  BY NAssumption DEF Seen, Blank, Answer, Pair
<1>2. 0 \in 0 .. N /\ 0 \in 0 .. MaxOutside /\ 0 \in 0 .. MaxFaults /\ 1 \in Entry
  BY NAssumption, LandingBounds DEF Entry
<1> DEFINE p == [lo |-> 1, hi |-> 1, other |-> 0, heads |-> [i \in Entry |-> 0]]
<1>3. p \in Plan /\ p.lo = 1
  BY <1>2 DEF Plan
<1> HIDE DEF p
<1>4. plan = [o \in Ops |-> p]
  BY DEF LandInit, p
<1>5. plan \in [Ops -> Plan] /\ \A o \in Ops : plan[o].lo = 1
  BY <1>3, <1>4
<1>6. merged = 0 /\ head = [i \in Entry |-> 0] /\ other = 0 /\ tip = 0 /\ by = [i \in Entry |-> 0] /\ suffix = TRUE
      /\ rules = {} /\ req = [o \in Ops |-> "none"] /\ cursor = NoCursor /\ archive = [o \in Ops |-> "none"]
      /\ pc = "idle" /\ cp = NoCursor /\ draining = FALSE /\ marked = FALSE
      /\ snap \in Pair /\ seen \in Seen /\ seen.answer = "none" /\ puts = [o \in Ops |-> 0] /\ foreign = FALSE
      /\ faults = 0 /\ outside = 0
  BY <1>1 DEF LandInit
<1>7. LandTypeOK
  BY <1>2, <1>5, <1>6 DEF LandTypeOK, LandPc, Request, Outcome
<1>8. Counts /\ CursorOK /\ LockOK
  BY <1>6 DEF Counts, CursorOK, LockOK, LocksAccounted, InFlightKeepsLock
<1>9. ASSUME NEW o \in Ops PROVE OpOK(o)
  <2>1. o # 0
    BY DEF Ops
  <2> QED
    BY <1>5, <1>6, <2>1 DEF OpOK, Outcomes, InFlight
<1>10. MemoryOK
  BY <1>6 DEF MemoryOK, LinkOK, PhaseOK, SubmitOK, BusyPc, LoadedPc, SavingPc, WatchPc
<1> QED
  BY <1>7, <1>8, <1>9, <1>10 DEF LandInv

LEMMA LandNextInv == ASSUME LandInv, [LandNext]_landVars PROVE LandInv'
<1>1. CASE UNCHANGED landVars
  <2>1. UNCHANGED <<provider, rules, req, disk, pc, cp, tick, puts, foreign, faults, outside>>
        /\ UNCHANGED <<cp, draining, marked, snap, seen, puts, req, merged, by, head, cursor, archive, plan, rules, foreign>>
    BY <1>1 DEF landVars, provider, disk, tick
  <2>2. MemoryType' /\ faults' \in 0 .. MaxFaults
    BY <2>1, LandTypes DEF MemoryType
  <2>3. MemoryOK'
    BY <2>1 DEF LandInv, MemoryOK, LinkOK, PhaseOK, SubmitOK, Sound, HeadsExact, Archived
  <2> QED
    BY <2>1, <2>2, <2>3, MemoryStep
<1>2. CASE Tick
  BY <1>2, TickStartInv, LinkInv, SaveArchiveInv, SaveCursorInv, BeginInv, ResumeInv, WaitInv, AcquireLockInv,
     ReadbackLockInv, MarkSubmittingInv, BeginSubmitInv, AbandonUncertainInv, VerifyLockInv, ReadGenerationInv,
     PutInv, ReplyInv, PollInv, ObserveTipInv, ObserveStackInv, ReleaseInv, ReobserveInv, RetireInv,
     ConvergencePendingInv, CleanupOrphansInv DEF Tick
<1>3. CASE Abort
  BY <1>3, WaitInv
<1>4. CASE Provider
  BY <1>4, AcceptInv, MergeEntryInv, ForeignCleanupInv DEF Provider
<1>5. CASE Environment
  BY <1>5, ManualMergeInv, PushInv, OtherLandingInv, ForeignCleanupInv DEF Environment
<1> QED
  BY <1>1, <1>2, <1>3, <1>4, <1>5 DEF LandNext

(* The inductive invariant, for every Stack and every number of landings,  *)
(* crashes, failed calls, pushes and merges by hand.                       *)
THEOREM LandInvariant == LandSpec => []LandInv
<1>1. LandInit => LandInv
  BY LandInitInv
<1>2. LandInv /\ [LandNext]_landVars => LandInv'
  BY LandNextInv
<1> QED
  BY <1>1, <1>2, PTL DEF LandSpec

(* What a tick sends and claims: drain_native_stack sends a transaction's  *)
(* merge PUT at most once, never while another request of the Stack can    *)
(* still merge, and receipt::save_native archives no outcome that is not   *)
(* the provider's, wherever ticks are killed and resumed.                  *)
THEOREM Requests == LandSpec => []RequestsSound
<1>1. LandInv => RequestsSound
  <2>1. SUFFICES ASSUME LandInv PROVE RequestsSound
    OBVIOUS
  <2>2. AtMostOneSubmission /\ OneRequestAtATime
    BY <2>1 DEF LandInv, OpOK, AtMostOneSubmission, OneRequestAtATime
  <2>3. OutcomeSound
    BY <2>1 DEF LandInv, OpOK, Outcomes, OutcomeSound
  <2> QED
    BY <2>2, <2>3 DEF RequestsSound
<1> QED
  BY <1>1, LandInvariant, PTL

(* The ruleset lock: every active ruleset is the cursor's own, none is     *)
(* left after a saved release, and from locked to submitted the lock is in *)
(* force unless another clone's cleanup deleted it.                        *)
THEOREM Locks == LandSpec => []LockSound
<1>1. LandInv => LockSound
  BY DEF LandInv, LockOK, LockSound
<1> QED
  BY <1>1, LandInvariant, PTL

(* A definite result in land-<stack>.json is never rewritten: save_native  *)
(* and the retirement of the cursor are the only steps that write it.      *)
THEOREM Final == LandSpec => TerminalIsFinal
<1> DEFINE A == \/ cursor = NoCursor \/ cursor' = NoCursor
                \/ cursor.op # cursor'.op \/ cursor.status \notin Definite
                \/ cursor'.status = cursor.status
<1>1. LandInv /\ [LandNext]_landVars => [A]_cursor
  <2>1. SUFFICES ASSUME LandInv, [LandNext]_landVars, cursor' # cursor PROVE A
    OBVIOUS
  <2>2. SaveCursor \/ Retire
    <3>1. ~ UNCHANGED landVars
      BY <2>1 DEF landVars, disk
    <3>2. LandNext
      BY <2>1, <3>1
    <3>3. CASE Tick
      BY <2>1, <3>3 DEF Tick, disk, TickStart, Link, SaveArchive, Begin, Resume, Wait, AcquireLock, ReadbackLock,
         MarkSubmitting, BeginSubmit, AbandonUncertain, VerifyLock, ReadGeneration, Put, Reply, BeginPoll, Poll,
         ObserveTip, ObserveStack, Release, Reobserve, ConvergencePending, CleanupOrphans
    <3>4. ~Abort
      BY <2>1 DEF Abort, disk
    <3>5. ~Provider
      BY <2>1 DEF Provider, Accept, MergeEntry, FailRequest, RepairSuffix, disk
    <3>6. ~Environment
      BY <2>1 DEF Environment, ManualMerge, Push, OtherLanding, ForeignCleanup, disk
    <3> QED
      BY <3>2, <3>3, <3>4, <3>5, <3>6 DEF LandNext
  <2>3. CASE Retire
    BY <2>3 DEF Retire
  <2>4. CASE SaveCursor
    <3>1. cursor' = cp /\ pc \in SavingPc
      BY <2>4 DEF SaveCursor, SavingPc
    <3> QED
      BY <2>1, <3>1 DEF LandInv, MemoryOK, LinkOK
  <2> QED
    BY <2>2, <2>3, <2>4
<1> QED
  BY <1>1, LandInvariant, PTL DEF LandSpec, TerminalIsFinal

=============================================================================
