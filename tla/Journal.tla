------------------------------ MODULE Journal -------------------------------
(***************************************************************************)
(* The event journal of one clone (journal.rs), the hook dispatcher that   *)
(* writes to it (hooks.rs), and `cara log -f`, which polls it.             *)
(*                                                                         *)
(* An append holds the file lock from the recovery of a torn tail to its   *)
(* own write, and every rename of a rotation is a step of its own, because *)
(* a writer may die, or fail with an I/O error, after each of them.  A     *)
(* reader holds the lock shared for one complete read, which changes       *)
(* nothing, so a read is one step that is enabled while no writer has the  *)
(* lock.  Records have unit size.                                          *)
(***************************************************************************)
EXTENDS Naturals, Sequences, FiniteSets, SequencesExt

CONSTANTS Writers,       \* processes that dispatch events
          Events,        \* event identifiers
          Batches,       \* the event sequences a command may dispatch
          Hooked,        \* events of a kind with a configured hook
          Blocking,      \* those whose hook is blocking
          Oversized,     \* events above MAX_RECORD_BYTES
          MaxArchives,   \* journal.max_archives
          MaxBytes,      \* journal.max_bytes, in records
          Limit,         \* newest records a follower polls (MAX_LIMIT)
          TailLimit,     \* newest records a follower prints first
          MaxClock,      \* bound: the latest delivery timestamp
          MaxDispatches, \* bound: dispatches begun
          MaxFaults,     \* bound: deaths and I/O errors
          Nobody         \* the lock is free

ASSUME SetsAssumption ==
  /\ Events # {} /\ Batches \subseteq Seq(Events) /\ Hooked \subseteq Events
  /\ Blocking \subseteq Hooked /\ Oversized \subseteq Events
ASSUME BoundsAssumption ==
  /\ MaxArchives \in Nat /\ MaxBytes \in Nat \ {0} /\ Limit \in Nat \ {0}
  /\ TailLimit \in Nat /\ MaxClock \in Nat
  /\ MaxDispatches \in Nat /\ MaxFaults \in Nat
ASSUME NobodyAssumption == Nobody \notin Writers

(* JournalRecord.  A delivery carries the time it is written at, so no two *)
(* are equal; an event is the same record whenever it is appended.         *)
EventRecord(e) == [type |-> "event", id |-> e, at |-> 0]
Delivery(e, at) == [type |-> "hook_delivery", id |-> e, at |-> at]
Record == {EventRecord(e) : e \in Events} \cup {Delivery(e, at) : e \in Events, at \in 0 .. MaxClock}

(* What follows the last newline of the active file: nothing, part of a    *)
(* record, or a record that lacks only its newline.                        *)
NoPart == <<>>
Part == {NoPart} \cup ({"torn", "whole"} \X Record)

Files == 0 .. MaxArchives       \* 0 is the active file

VARIABLES
  file,      \* the complete lines of each file; an absent archive has none
  part,      \* the incomplete last line of the active file
  lock,      \* who holds events-v1.lock exclusively
  writer,    \* per writer: where it is in dispatch_events and append
  follower,  \* `cara log -f`: whether it runs and what it saw last
  written,   \* history: every complete line ever written, in order
  torn,      \* history: records whose line lacked its newline
  hooked,    \* history: events whose hook was started
  emitted,   \* history: what the follower has printed
  dispatches, faults

journal == <<file, part, lock>>
history == <<written, torn, hooked>>
bounds == <<dispatches, faults>>
vars == <<journal, writer, follower, history, emitted, bounds>>

IdleWriter ==
  [pc |-> "idle", queue |-> <<>>, journaled |-> {}, rec |-> EventRecord(CHOOSE e \in Events : TRUE),
   index |-> 0, failed |-> FALSE]

Init ==
  /\ file = [i \in Files |-> <<>>] /\ part = NoPart /\ lock = Nobody
  /\ writer = [w \in Writers |-> IdleWriter]
  /\ follower = [on |-> FALSE, seen |-> <<>>]
  /\ written = <<>> /\ torn = {} /\ hooked = {} /\ emitted = <<>>
  /\ dispatches = 0 /\ faults = 0

-----------------------------------------------------------------------------
(* Reading.                                                                *)

(* The lines of file i and of the newer ones, oldest first.                *)
JoinedAt(f, i, from) == IF i = 0 THEN f[0] ELSE f[i] \o from[i - 1]
Joined(f) == LET from[i \in Files] == JoinedAt(f, i, from) IN from

(* read_all_locked over complete lines: oldest archive first.              *)
Lines == Joined(file)[MaxArchives]

(* What a reader gets: read_file also accepts a last line that parses and  *)
(* lacks only its newline, and drops one that does not parse.              *)
Unfinished == IF part # NoPart /\ part[1] = "whole" THEN <<part[2]>> ELSE <<>>
Snapshot == Lines \o Unfinished

Newest(s, n) == SubSeq(s, IF Len(s) > n THEN Len(s) - n + 1 ELSE 1, Len(s))

Occurrences(s, r) == Cardinality({i \in DOMAIN s : s[i] = r})

(* The records of a poll that occur more often than in the previous one.   *)
Fresh(s, seen) ==
  LET new == {i \in DOMAIN s :
                Occurrences(SubSeq(s, 1, i), s[i]) > Occurrences(seen, s[i])}
  IN  [k \in 1 .. Cardinality(new) |->
         s[CHOOSE i \in new : Cardinality({j \in new : j <= i}) = k]]

Readable == lock = Nobody

(* A clock that moves with what happens here; deliveries of one event that *)
(* two processes write in the same millisecond are equal records.          *)
Now == Len(written) + faults

-----------------------------------------------------------------------------
(* Appending and dispatching.                                              *)

At(w, pc) == writer[w].pc = pc
Goto(w, pc) == writer' = [writer EXCEPT ![w].pc = pc]
Current(w) == Head(writer[w].queue)

(* dispatch_events returns, with success or an error.                      *)
Return(w) == writer' = [writer EXCEPT ![w] = IdleWriter]

(* A command dispatches its events; a failed tick may dispatch an event    *)
(* that an earlier dispatch has journaled (events_from_error).             *)
Dispatch(w) ==
  /\ At(w, "idle") /\ dispatches < MaxDispatches
  /\ \E q \in Batches :
       writer' = [writer EXCEPT ![w] = [IdleWriter EXCEPT !.pc = "next", !.queue = q]]
  /\ dispatches' = dispatches + 1
  /\ UNCHANGED <<journal, follower, history, emitted, faults>>

(* The head of the loop: append the event unless this dispatch has done so.*)
NextEvent(w) ==
  /\ At(w, "next")
  /\ UNCHANGED <<journal, follower, history, emitted, bounds>>
  /\ IF writer[w].queue = <<>> THEN Return(w)
     ELSE IF Current(w) \in writer[w].journaled THEN Goto(w, "hook")
     ELSE IF Current(w) \in Oversized THEN Return(w)
     ELSE writer' = [writer EXCEPT ![w].pc = "lock", ![w].rec = EventRecord(Current(w)),
                                   ![w].journaled = @ \cup {Current(w)}]

(* lock_exclusive, then recover_truncated_tail, whose set_len is atomic.   *)
LockAndRecover(w) ==
  /\ At(w, "lock") /\ Readable
  /\ lock' = w /\ part' = NoPart /\ Goto(w, "dedup")
  /\ UNCHANGED <<file, follower, history, emitted, bounds>>

(* Mutant: event identifiers are not compared.                             *)
KnownNever(r) == FALSE

(* An event that is still retained is not written again.                   *)
Known(r) == r.type = "event" /\ Contains(Lines, r)

(* The append has returned Ok to dispatch_events: after the event its hook *)
(* is run, if one is configured; after the delivery a blocking failure     *)
(* stops the dispatch, and otherwise the next event follows.               *)
Appended(w) ==
  /\ lock' = Nobody
  /\ LET after == [writer[w] EXCEPT !.pc = "next", !.queue = Tail(@)]
     IN  writer' =
           [writer EXCEPT ![w] =
              IF writer[w].rec.type = "event"
              THEN IF Current(w) \in Hooked THEN [@ EXCEPT !.pc = "hook"] ELSE after
              ELSE IF writer[w].failed /\ Current(w) \in Blocking THEN IdleWriter ELSE after]

Deduplicate(w) ==
  /\ At(w, "dedup") /\ Known(writer[w].rec) /\ Appended(w)
  /\ UNCHANGED <<file, part, follower, history, emitted, bounds>>

(* A new record: rotate first if it would not fit behind what is there.    *)
Overflows == Len(file[0]) > 0 /\ Len(file[0]) + 1 > MaxBytes

Proceed(w) ==
  /\ At(w, "dedup") /\ ~Known(writer[w].rec)
  /\ Goto(w, IF Overflows THEN "rotate" ELSE "write")
  /\ UNCHANGED <<journal, follower, history, emitted, bounds>>

(* Mutants: the two oldest archives go; the loop starts one too high.      *)
RemoveTwoOldest(w) ==
  /\ At(w, "rotate")
  /\ file' = [i \in Files |-> IF i \in {MaxArchives, MaxArchives - 1} THEN <<>> ELSE file[i]]
  /\ writer' = [writer EXCEPT ![w].index = MaxArchives,
                              ![w].pc = IF MaxArchives = 0 THEN "write" ELSE "shift"]
  /\ UNCHANGED <<part, lock, follower, history, emitted, bounds>>

(* rotate: remove the oldest archive (with no archives, the active file);  *)
(* the loop index is the next archive to be renamed.                       *)
RemoveOldest(w) ==
  /\ At(w, "rotate")
  /\ file' = [file EXCEPT ![MaxArchives] = <<>>]
  /\ writer' = [writer EXCEPT ![w].index = MaxArchives,
                              ![w].pc = IF MaxArchives = 0 THEN "write" ELSE "shift"]
  /\ UNCHANGED <<part, lock, follower, history, emitted, bounds>>

(* One rename, from the second oldest file down to the active one.  A file *)
(* that does not exist is skipped.                                         *)
Shift(w) ==
  /\ At(w, "shift")
  /\ LET i == writer[w].index IN
       /\ file' = IF file[i - 1] = <<>> THEN file
                  ELSE [file EXCEPT ![i] = file[i - 1], ![i - 1] = <<>>]
       /\ writer' = [writer EXCEPT ![w].index = i - 1,
                                   ![w].pc = IF i = 1 THEN "write" ELSE "shift"]
  /\ UNCHANGED <<part, lock, follower, history, emitted, bounds>>

(* write_all of the whole line and sync_data.                              *)
Write(w) ==
  /\ At(w, "write")
  /\ file' = [file EXCEPT ![0] = Append(@, writer[w].rec)]
  /\ written' = Append(written, writer[w].rec)
  /\ Goto(w, "written")
  /\ UNCHANGED <<part, lock, follower, torn, hooked, emitted, bounds>>

(* Only part of the line is written, and the writer fails or dies.         *)
WriteTorn(w) ==
  /\ At(w, "write") /\ faults < MaxFaults
  /\ \E kind \in {"torn", "whole"} :
       /\ part' = <<kind, writer[w].rec>>
       /\ torn' = IF kind = "whole" THEN torn \cup {writer[w].rec} ELSE torn
  /\ lock' = Nobody /\ Return(w) /\ faults' = faults + 1
  /\ UNCHANGED <<file, follower, written, hooked, emitted, dispatches>>

Unlock(w) ==
  /\ At(w, "written") /\ Appended(w)
  /\ UNCHANGED <<file, part, follower, history, emitted, bounds>>

(* dispatch_event: the hook runs and succeeds, fails or times out; its     *)
(* receipt is then appended like an event, without the search for it.      *)
RunHook(w) ==
  /\ At(w, "hook") /\ Now <= MaxClock
  /\ hooked' = hooked \cup {Current(w)}
  /\ \E failed \in BOOLEAN :
       writer' = [writer EXCEPT ![w].pc = "lock", ![w].failed = failed,
                                ![w].rec = Delivery(Current(w), Now)]
  /\ UNCHANGED <<journal, follower, written, torn, emitted, bounds>>

(* The writer dies, or a file operation fails and dispatch_events returns  *)
(* the error; both release the lock and leave the files as they are.       *)
Die(w) ==
  /\ ~At(w, "idle") /\ faults < MaxFaults
  /\ lock' = IF lock = w THEN Nobody ELSE lock
  /\ Return(w) /\ faults' = faults + 1
  /\ UNCHANGED <<file, part, follower, history, emitted, dispatches>>

-----------------------------------------------------------------------------
(* Following.                                                              *)

Follow ==
  /\ ~follower.on /\ Readable
  /\ follower' = [on |-> TRUE, seen |-> Newest(Snapshot, Limit)]
  /\ emitted' = Newest(Snapshot, TailLimit)
  /\ UNCHANGED <<journal, writer, history, bounds>>

Poll ==
  /\ follower.on /\ Readable
  /\ LET s == Newest(Snapshot, Limit) IN
       /\ s # follower.seen
       /\ emitted' = emitted \o Fresh(s, follower.seen)
       /\ follower' = [follower EXCEPT !.seen = s]
  /\ UNCHANGED <<journal, writer, history, bounds>>

Next ==
  \/ \E w \in Writers :
       \/ Dispatch(w) \/ NextEvent(w) \/ LockAndRecover(w) \/ Deduplicate(w)
       \/ Proceed(w) \/ RemoveOldest(w) \/ Shift(w) \/ Write(w) \/ WriteTorn(w)
       \/ Unlock(w) \/ RunHook(w) \/ Die(w)
  \/ Follow \/ Poll

Spec == Init /\ [][Next]_vars

-----------------------------------------------------------------------------
(* The shape of the state; a rotation's index stays within the archives.   *)
TypeOK ==
  /\ file \in [Files -> Seq(Record)] /\ part \in Part
  /\ lock \in Writers \cup {Nobody}
  /\ writer \in [Writers ->
       [pc : {"idle", "next", "lock", "dedup", "rotate", "shift", "write", "written", "hook"},
        queue : Seq(Events), journaled : SUBSET Events, rec : Record,
        index : Files, failed : BOOLEAN]]
  /\ follower \in [on : BOOLEAN, seen : Seq(Record)]
  /\ written \in Seq(Record) /\ torn \subseteq Record /\ hooked \subseteq Events
  /\ emitted \in Seq(Record)
  /\ dispatches \in 0 .. MaxDispatches /\ faults \in 0 .. MaxFaults

(* The journal is the log that JournalView promises its readers: it grows  *)
(* at the end and forgets from the start, whatever rename of a rotation a  *)
(* crash follows, and no event that is retained is written twice.          *)
View ==
  INSTANCE JournalView WITH
    Record <- Record, IsEvent <- LAMBDA r : r.type = "event",
    KeepNewest <- MaxArchives > 0, retained <- Lines, unfinished <- Unfinished
ImplementsView == View!ViewSpec

(* A record is forgotten only by age: as many of the newest lines stay as  *)
(* max_archives files hold, one file less for each rotation or write that  *)
(* a death or an I/O error cut short.                                      *)
RetentionFloor ==
  LET floor == IF faults < MaxArchives THEN (MaxArchives - faults) * MaxBytes ELSE 0 IN
    Len(Lines) >= IF Len(written) < floor THEN Len(written) ELSE floor

(* A hook is started only for an event whose line is completely written,   *)
(* by this dispatch or an earlier one.                                     *)
HookAfterJournal == \A e \in hooked : Contains(written, EventRecord(e))

(* `cara log -f` prints no line more often than it was written, through    *)
(* rotations and lines written again, except one that lacked its newline.  *)
FollowedOnce ==
  \A r \in ToSet(emitted) \ torn : Occurrences(emitted, r) <= Occurrences(written, r)

(* What a reader of the journal relies on, whatever died while writing it: *)
(* the newest lines are there, a hook runs only for an event among the     *)
(* written ones, and `cara log -f` repeats nothing.                        *)
JournalSound == TypeOK /\ RetentionFloor /\ HookAfterJournal /\ FollowedOnce

=============================================================================
