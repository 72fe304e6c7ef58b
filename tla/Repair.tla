------------------------------- MODULE Repair -------------------------------
(***************************************************************************)
(* A repair session of one pull request (repair.rs, repair/non_force.rs):  *)
(* a workspace in which an agent merges the pull request's head with its   *)
(* target, and a manifest that every command reads and writes.  Start      *)
(* materializes the workspace in resumable phases; grant, revoke and       *)
(* authorize widen what the agent may change; continue verifies, commits   *)
(* and publishes; abort removes the session.                               *)
(*                                                                         *)
(* Every command takes the writer's lock, but most read the manifest       *)
(* before they have it.  A killed command frees the lock (OperationLock    *)
(* shows how).  Three paths stand for all: "c" is the one in conflict, "g" *)
(* one for which there is a reviewed change, "x" any other.                *)
(***************************************************************************)
EXTENDS Naturals, FiniteSets

CONSTANTS Budgets  \* commands of a second person, changes from outside, deaths

ASSUME RepairBounds == Budgets \subseteq [commands : Nat, outside : Nat, deaths : Nat]

VARIABLES force,   \* sessions publish with a lease; otherwise by fast-forward only
          remote,  \* the provider: the head, the target, the pull request's other facts
          man,     \* session.json
          ws,      \* the workspace
          lock, proc, now, left,
          pushes,  \* history: the publications that were sent
          blind    \* history: a grant, a revocation or an authorization replaced a
                   \* manifest that it had not read

vars == <<force, remote, man, ws, lock, proc, now, left, pushes, blind>>

Nothing == [none |-> TRUE]
Owner == "owner"      \* runs start and continue until the session is done
Other == "other"      \* runs any command
Procs == {Owner, Other}
Nobody == "nobody"
Paths == {"c", "g", "x"}

\* A commit: the author's n-th, or a repair of it with a target, the paths it changes and
\* (history) the paths that were open to change.
Authored(n) == [n |-> n, with |-> 0, changed |-> {}, opened |-> Paths]
Merged(head, target, stage, opened) ==
    [n |-> head.n, with |-> target, changed |-> {p \in Paths : stage[p] # "base"}, opened |-> opened]
ExactParents(c, m) == c # Nothing /\ c.n = m.head.n /\ c.with = m.target

Session(seen) ==
    [head |-> seen.head, target |-> seen.target, meta |-> seen.meta, state |-> "preparing",
     grant |-> "none", granted |-> 0, auth |-> "none", authorized |-> 0,
     made |-> Nothing, attempted |-> FALSE]

Workspace == [ready |-> FALSE, merge |-> "none", commit |-> Nothing,
              stage |-> [p \in Paths |-> "base"], dirty |-> FALSE]

Idle == [pc |-> "idle", m |-> Nothing, seen |-> Nothing]
At(p, pc) == proc[p].pc = pc
Go(p, pc) == proc' = [proc EXCEPT ![p].pc = pc]
Read(p, pc, m) == proc' = [proc EXCEPT ![p].pc = pc, ![p].m = m]

\* The command ends, and with it its lock.
Ends(p) == /\ proc' = [proc EXCEPT ![p] = Idle]
           /\ lock' = IF lock = p THEN Nobody ELSE lock
Refuses(p) == Ends(p) /\ UNCHANGED <<remote, man, ws, pushes, blind>>

\* Write the command's own copy over whatever is there.
Writes(p, m) == man' = m /\ UNCHANGED blind
Changes(p, m) == man' = m /\ blind' = (blind \/ man # proc[p].m)

Same == UNCHANGED <<force, now, left>>
Spend(what) == left[what] > 0 /\ left' = [left EXCEPT ![what] = @ - 1]

VerifyHead(m) == remote.head = m.head
VerifyTarget(m) == remote.target = m.target

------------------------------------------------------------------------------
(* Start.                                                                    *)

Start(p) ==
    /\ At(p, "idle") /\ lock = Nobody
    /\ lock' = p /\ proc' = [proc EXCEPT ![p].pc = "decide", ![p].seen = remote]
    /\ UNCHANGED <<remote, man, ws, pushes, blind>>

\* An existing session of the same generation is resumed or reported, any other refused.
SameGeneration(m, seen) ==
    m.head = seen.head /\ m.target = seen.target /\ (force \/ m.meta = seen.meta)

Decide(p) ==
    /\ At(p, "decide")
    /\ LET fresh == Session(proc[p].seen) IN
       \/ /\ man = Nothing
          /\ man' = fresh /\ ws' = Nothing /\ Read(p, "seed", fresh)
          /\ UNCHANGED <<remote, lock, pushes, blind>>
       \/ /\ man # Nothing /\ SameGeneration(man, proc[p].seen) /\ man.state = "preparing"
          /\ LET reuse == ws # Nothing /\ ws.ready IN
               /\ ws' = IF reuse THEN ws ELSE Nothing
               /\ Read(p, IF reuse THEN "fetch" ELSE "seed", man)
          /\ UNCHANGED <<remote, man, lock, pushes, blind>>
       \/ /\ man # Nothing /\ ~(SameGeneration(man, proc[p].seen) /\ man.state = "preparing")
          /\ Refuses(p)
    /\ Same

\* Clone from the object cache, then bind the provider's remote.
Seed(p) ==
    /\ At(p, "seed") /\ ws' = Workspace /\ Go(p, "configure")
    /\ UNCHANGED <<remote, man, lock, pushes, blind>> /\ Same

Configure(p) ==
    /\ At(p, "configure") /\ ws' = [ws EXCEPT !.ready = TRUE] /\ Go(p, "fetch")
    /\ UNCHANGED <<remote, man, lock, pushes, blind>> /\ Same

\* Both branches are fetched at exactly the recorded commits.
Fetch(p) ==
    /\ At(p, "fetch")
    /\ IF VerifyHead(proc[p].m) /\ VerifyTarget(proc[p].m)
       THEN Go(p, "checkout") /\ UNCHANGED <<remote, man, ws, lock, pushes, blind>>
       ELSE Refuses(p)
    /\ Same

\* Git refuses to check out over unmerged entries.
Checkout(p) ==
    /\ At(p, "checkout")
    /\ IF ws.merge = "none"
       THEN Go(p, "merge") /\ UNCHANGED <<remote, man, ws, lock, pushes, blind>>
       ELSE Refuses(p)
    /\ Same

\* A head that contains its target has nothing to merge, which ends the command.
Merge(p) ==
    /\ At(p, "merge")
    /\ IF proc[p].m.head.with = proc[p].m.target THEN Refuses(p)
       ELSE /\ \E conflict \in BOOLEAN :
                 ws' = [ws EXCEPT !.merge = "merging",
                                  !.stage["c"] = IF conflict THEN "conflict" ELSE "base"]
            /\ Go(p, "resolving")
            /\ UNCHANGED <<remote, man, lock, pushes, blind>>
    /\ Same

Resolving(p) ==
    /\ At(p, "resolving")
    /\ Writes(p, [proc[p].m EXCEPT !.state = "resolving"])
    /\ Ends(p) /\ UNCHANGED <<remote, ws, pushes>> /\ Same

------------------------------------------------------------------------------
(* The agent, and what it may change.                                        *)

\* Edits are staged between the commands.
Stage(path) ==
    /\ ws # Nothing /\ man # Nothing /\ man.state = "resolving" /\ ws.merge = "merging"
    /\ lock = Nobody
    /\ \/ path = "c" /\ ws.stage["c"] = "conflict" /\ UNCHANGED left
       \/ path # "c" /\ left.outside > 0 /\ left' = [left EXCEPT !.outside = @ - 1]
    /\ ws' = [ws EXCEPT !.stage[path] = "edited"]
    /\ UNCHANGED <<force, now, remote, man, lock, proc, pushes, blind>>

\* The manifest is read, and only then the lock is taken.
ReadForChange(p, cmd) ==
    /\ At(p, "idle") /\ man # Nothing /\ ws # Nothing /\ man.state = "resolving"
    /\ Read(p, cmd, man)
    /\ UNCHANGED <<remote, man, ws, lock, pushes, blind>>

Lock(p, before, after, unless) ==
    /\ At(p, before)
    /\ IF lock = Nobody /\ ~unless
       THEN lock' = p /\ Go(p, after) /\ UNCHANGED <<remote, man, ws, pushes, blind>>
       ELSE Refuses(p)
    /\ Same

Provable(p) == VerifyHead(proc[p].m) /\ VerifyTarget(proc[p].m)
GrantValid(m) == m.granted = now
AuthValid(m) == m.auth = "agent" /\ m.authorized = now

\* The grant is recorded before its result is staged, and again after it.
Grant(p) ==
    /\ At(p, "grant")
    /\ LET m == proc[p].m
           at == ws.stage["g"]
           new == m.grant = "none" /\ at = "base"
           again == m.grant = "recorded" /\ GrantValid(m) /\ at = "base"
           done == m.grant # "none" /\ GrantValid(m) /\ at = "granted"
           record == IF new THEN [m EXCEPT !.grant = "recorded", !.granted = now]
                     ELSE IF done THEN [m EXCEPT !.grant = "applied"] ELSE m
       IN IF Provable(p) /\ ws.stage["c"] # "conflict" /\ (new \/ again \/ done)
          THEN /\ Changes(p, record) /\ Read(p, IF done THEN "granted" ELSE "apply", record)
               /\ UNCHANGED <<remote, ws, lock, pushes>>
          ELSE Refuses(p)
    /\ Same

Apply(p) ==
    /\ At(p, "apply")
    /\ ws' = [ws EXCEPT !.stage["g"] = "granted", !.dirty = ws.merge = "none"] /\ Go(p, "granted")
    /\ UNCHANGED <<remote, man, lock, pushes, blind>> /\ Same

Granted(p) ==
    /\ At(p, "granted")
    /\ Changes(p, [proc[p].m EXCEPT !.grant = "applied"])
    /\ Ends(p) /\ UNCHANGED <<remote, ws, pushes>> /\ Same

\* The staged result is taken back before the receipt is.
Revoke(p) ==
    /\ At(p, "revoke")
    /\ IF Provable(p) /\ proc[p].m.grant # "none" /\ ws.stage["g"] \in {"granted", "base"}
       THEN /\ ws' = [ws EXCEPT !.stage["g"] = "base",
                                !.dirty = @ \/ (ws.merge = "none" /\ ws.stage["g"] = "granted")]
            /\ Go(p, "revoked") /\ UNCHANGED <<remote, man, lock, pushes, blind>>
       ELSE Refuses(p)
    /\ Same

Revoked(p) ==
    /\ At(p, "revoked")
    /\ Changes(p, [proc[p].m EXCEPT !.grant = "none", !.granted = 0])
    /\ Ends(p) /\ UNCHANGED <<remote, ws, pushes>> /\ Same

Authorize(p) ==
    /\ At(p, "authorize")
    /\ IF Provable(p) /\ ~AuthValid(proc[p].m)
       THEN /\ Changes(p, [proc[p].m EXCEPT !.auth = "agent", !.authorized = now])
            /\ Ends(p) /\ UNCHANGED <<remote, ws, pushes>>
       ELSE Refuses(p)
    /\ Same

------------------------------------------------------------------------------
(* Continue.                                                                 *)

Continue(p) ==
    /\ At(p, "idle") /\ man # Nothing /\ ws # Nothing /\ man.state # "preparing"
    /\ Read(p, IF man.state = "published" THEN "resume" ELSE "continue", man)
    /\ UNCHANGED <<remote, man, ws, lock, pushes, blind>>

\* Mutant: a fast-forward session is not read again under the lock.
NeverChanged(p) == FALSE

SessionChanged(p) == ~force /\ man # proc[p].m

\* Everything that changed is in conflict, granted or covered by an authorization.
Broad(m) == {q \in Paths : ws.stage[q] # "base"}
            \ ({"c"} \cup (IF m.grant = "applied" THEN {"g"} ELSE {}))
Verified(m) ==
    /\ ws.stage["c"] # "conflict"
    /\ m.grant # "none" => m.grant = "applied" /\ GrantValid(m) /\ ws.stage["g"] = "granted"
    /\ Broad(m) # {} => AuthValid(m)

\* What the manifest on disk opens to change.
Opened == {"c"} \cup (IF man.grant = "applied" THEN {"g"} ELSE {})
                \cup (IF man.auth = "agent" THEN Paths ELSE {})

\* Mutant: a commit that its continue did not live to record is not recognized.
NothingLeft(m) == FALSE

\* Exact parents recover the boundary between the commit and its record.
LeftBehind(m) == m.state = "resolving" /\ ws.merge = "none" /\ ExactParents(ws.commit, m)

\* One commit, or the one an earlier attempt has left.
Commit(p) ==
    /\ At(p, "commit")
    /\ LET m == proc[p].m IN
       \/ /\ m.state = "resolving" /\ ws.merge = "merging" /\ Verified(m) /\ VerifyHead(m)
          /\ ws' = [ws EXCEPT !.merge = "none", !.commit = Merged(m.head, m.target, ws.stage, Opened)]
          /\ Go(p, "mark") /\ UNCHANGED <<remote, man, lock, pushes, blind>>
       \/ /\ LeftBehind(m)
          /\ Go(p, "mark") /\ UNCHANGED <<remote, man, ws, lock, pushes, blind>>
       \/ /\ m.state = "committed" /\ ws.commit = m.made /\ ExactParents(ws.commit, m)
          /\ Go(p, "check") /\ UNCHANGED <<remote, man, ws, lock, pushes, blind>>
       \/ /\ ~(m.state = "resolving" /\ ws.merge = "merging" /\ Verified(m) /\ VerifyHead(m))
          /\ ~LeftBehind(m)
          /\ ~(m.state = "committed" /\ ws.commit = m.made /\ ExactParents(ws.commit, m))
          /\ Refuses(p)
    /\ Same

Mark(p) ==
    /\ At(p, "mark")
    /\ LET m == [proc[p].m EXCEPT !.state = "committed", !.made = ws.commit] IN
       Writes(p, m) /\ Read(p, "check", m)
    /\ UNCHANGED <<remote, ws, lock, pushes>> /\ Same

\* What is left to do, by what the provider has.  An attempt that was recorded is only
\* ever read back.
Check(p) ==
    /\ At(p, "check")
    /\ LET m == proc[p].m
           clean == force \/ ~ws.dirty
           current == VerifyTarget(m)
       IN \/ /\ clean /\ remote.head = m.head /\ ~m.attempted /\ current
             /\ force \/ m.meta = remote.meta
             /\ Go(p, IF force THEN "push" ELSE "intend")
             /\ UNCHANGED <<remote, man, ws, lock, pushes, blind>>
          \/ /\ clean /\ remote.head = m.made
             /\ IF force THEN current ELSE m.attempted
             /\ Go(p, "confirm") /\ UNCHANGED <<remote, man, ws, lock, pushes, blind>>
          \/ /\ ~(/\ clean /\ remote.head = m.head /\ ~m.attempted /\ current
                  /\ force \/ m.meta = remote.meta)
             /\ ~(clean /\ remote.head = m.made /\ IF force THEN current ELSE m.attempted)
             /\ Refuses(p)
    /\ Same

Intend(p) ==
    /\ At(p, "intend")
    /\ LET m == [proc[p].m EXCEPT !.attempted = TRUE] IN Writes(p, m) /\ Read(p, "push", m)
    /\ UNCHANGED <<remote, ws, lock, pushes>> /\ Same

\* The lease, and likewise a fast-forward of the repair commit, needs the very head.
PushAccepted(m) == remote.head = m.head

\* Sent; the answer may be lost whether or not it had an effect.
Push(p) ==
    /\ At(p, "push")
    /\ \E landed, answered \in BOOLEAN :
         LET m == proc[p].m IN
         /\ landed => PushAccepted(m)
         /\ IF (~landed /\ PushAccepted(m)) \/ (landed /\ ~answered) THEN Spend("deaths") ELSE UNCHANGED left
         /\ pushes' = pushes \cup {[commit |-> m.made, from |-> m.head, over |-> remote.head,
                                   landed |-> landed, again |-> \E s \in pushes : s.commit = m.made]}
         /\ remote' = IF landed THEN [remote EXCEPT !.head = m.made, !.meta = @ + 1] ELSE remote
         /\ IF landed /\ answered THEN Go(p, "confirm") /\ UNCHANGED lock ELSE Ends(p)
    /\ UNCHANGED <<man, ws, blind, force, now>>

Confirm(p) ==
    /\ At(p, "confirm")
    /\ IF remote.head = proc[p].m.made
       THEN LET m == [proc[p].m EXCEPT !.state = "published"] IN
            /\ Writes(p, m)
            /\ proc' = [proc EXCEPT ![p].pc = "resume", ![p].m = m]
            /\ lock' = Nobody /\ UNCHANGED <<remote, ws, pushes>>
       ELSE Refuses(p)
    /\ Same

\* Sessions that publish by fast-forward end here; others go on with a sync, which
\* takes the lock again, and are cleaned up when it has converged.
Resume(p) ==
    /\ At(p, "resume")
    /\ \/ Refuses(p)
       \/ /\ force /\ Writes(p, proc[p].m) /\ Go(p, "sync")
          /\ UNCHANGED <<remote, ws, lock, pushes>>
    /\ Same

Sync(p) ==
    /\ At(p, "sync")
    /\ \/ lock = Nobody /\ ws # Nothing /\ Go(p, "completed")
          /\ UNCHANGED <<remote, man, ws, lock, pushes, blind>>
       \/ Refuses(p)
    /\ Same

Completed(p) ==
    /\ At(p, "completed") /\ Writes(p, proc[p].m) /\ Go(p, "cleanup")
    /\ UNCHANGED <<remote, ws, lock, pushes>> /\ Same

Cleanup(p) ==
    /\ At(p, "cleanup") /\ Writes(p, Nothing) /\ ws' = Nothing /\ Ends(p)
    /\ UNCHANGED <<remote, pushes>> /\ Same

------------------------------------------------------------------------------
(* Abort reads again under the lock, and keeps an unresolved publication.    *)

Abort(p) ==
    /\ At(p, "idle") /\ man # Nothing /\ lock = Nobody
    /\ man.attempted => man.state = "published"
    /\ man' = Nothing /\ ws' = Nothing
    /\ UNCHANGED <<remote, lock, proc, pushes, blind>>

------------------------------------------------------------------------------
(* The world.                                                                *)

AuthorPushes == remote' = [remote EXCEPT !.head = Authored(@.n + 1), !.meta = @ + 1]
TargetMoves == remote' = [remote EXCEPT !.target = @ + 1]
Relabelled == remote' = [remote EXCEPT !.meta = @ + 1]

Outside ==
    /\ Spend("outside")
    /\ \/ (AuthorPushes \/ TargetMoves \/ Relabelled) /\ UNCHANGED now
       \/ now' = now + 1 /\ UNCHANGED remote
    /\ UNCHANGED <<force, man, ws, lock, proc, pushes, blind>>

Dies(p) ==
    /\ ~At(p, "idle") /\ Spend("deaths") /\ Ends(p)
    /\ UNCHANGED <<force, now, remote, man, ws, pushes, blind>>

------------------------------------------------------------------------------

Init ==
    /\ force \in BOOLEAN
    /\ remote = [head |-> Authored(1), target |-> 1, meta |-> 1]
    /\ man = Nothing /\ ws = Nothing /\ lock = Nobody /\ now = 1
    /\ proc = [p \in Procs |-> Idle] /\ left \in Budgets
    /\ pushes = {} /\ blind = FALSE

\* Git fails in a workspace that a cleanup has removed under the command.
InWorkspace == {"configure", "fetch", "checkout", "merge", "resolving", "grant", "apply",
                "revoke", "authorize", "commit", "mark", "check", "push", "confirm"}
Gone(p) == proc[p].pc \in InWorkspace /\ ws = Nothing
Fails(p) == Gone(p) /\ Refuses(p) /\ Same

Materializes(p) == Decide(p) \/ Seed(p) \/ Configure(p) \/ Fetch(p) \/ Checkout(p) \/ Merge(p) \/ Resolving(p)

ChangesScope(p) ==
    \/ Lock(p, "lock_grant", "grant", FALSE) \/ Lock(p, "lock_revoke", "revoke", FALSE)
    \/ Lock(p, "lock_authorize", "authorize", FALSE)
    \/ Grant(p) \/ Apply(p) \/ Granted(p) \/ Revoke(p) \/ Revoked(p) \/ Authorize(p)

Publishes(p) ==
    \/ Lock(p, "continue", "commit", SessionChanged(p))
    \/ Commit(p) \/ Mark(p) \/ Check(p) \/ Intend(p) \/ Push(p) \/ Confirm(p)
    \/ Resume(p) \/ Sync(p) \/ Completed(p) \/ Cleanup(p)

Steps(p) == \/ Fails(p)
            \/ ~Gone(p) /\ (Materializes(p) \/ ChangesScope(p) \/ Publishes(p))

\* The owner runs what the last command told him to run next.
Work == /\ \/ (man # Nothing => man.state = "preparing") /\ Start(Owner)
           \/ Continue(Owner)
        /\ Same

Command ==
    /\ Spend("commands") /\ UNCHANGED <<force, now>>
    /\ \/ Start(Other) \/ Continue(Other) \/ Abort(Other)
       \/ ReadForChange(Other, "lock_grant") \/ ReadForChange(Other, "lock_revoke")
       \/ ReadForChange(Other, "lock_authorize")

Next == \/ \E p \in Procs : Steps(p) \/ Dies(p)
        \/ Work \/ Command \/ Outside
        \/ \E path \in Paths : Stage(path)

\* Commands end, the owner goes on, and the agent resolves the conflict between two of
\* them.
Fairness == /\ \A p \in Procs : WF_vars(Steps(p))
            /\ WF_vars(Work) /\ SF_vars(Stage("c"))

Spec == Init /\ [][Next]_vars /\ Fairness

------------------------------------------------------------------------------
(* Properties.                                                               *)

Commits == [n : Nat, with : Nat, changed : SUBSET Paths, opened : SUBSET Paths]

TypeOK ==
    /\ remote.head \in Commits /\ lock \in Procs \cup {Nobody}
    /\ man # Nothing => /\ man.state \in {"preparing", "resolving", "committed", "published"}
                       /\ man.grant \in {"none", "recorded", "applied"}
                       /\ man.made \in Commits \cup {Nothing}
    /\ ws # Nothing => ws.merge \in {"none", "merging"}

\* A session that may not force sends its commit once; an attempt whose answer was lost is
\* only ever read back, unless a stale grant has overwritten the record of it.
PublishedOnce == ~force /\ ~blind => \A s \in pushes : ~s.again

\* However grants, revocations, authorizations, continuations and restarts of two people
\* interleave and die, a publication replaces exactly the head it repairs; one that may not
\* force carries no path that the session on disk did not open to change (verify_resolution
\* runs on the copy read before the lock), and it is sent once.
RepairSound ==
    /\ TypeOK
    /\ \A s \in pushes : /\ s.commit.n = s.from.n /\ (s.landed => s.over = s.from)
                         /\ ~force => s.commit.changed \subseteq s.commit.opened
    /\ PublishedOnce

\* The same without the exception.
EvidenceKept == ~force => \A s \in pushes : ~s.again

\* What only a person can get a session out of.
Moved == \/ remote.target # man.target
         \/ remote.head \notin {man.head, man.made}
         \/ ~force /\ remote.meta # man.meta
Unresolved == man.attempted /\ remote.head = man.head
InterruptedMerge == ws # Nothing /\ ws.merge = "merging" /\ man.state = "preparing"
Unapproved == ws # Nothing /\ (ws.dirty \/ ~Verified(man))
Contained == man.head.with = man.target
LostWorkspace == ws = Nothing /\ man.state # "preparing"

\* A session whose owner keeps running what he is told to is published, whatever died on
\* the way, unless it needs a person: its generation moved, its publication is unresolved,
\* the merge was interrupted before it was recorded, or the agent went beyond its paths.
SessionFinishes ==
    <>[](\/ man # Nothing /\ \/ man.state = "published" \/ Moved \/ Unresolved
                              \/ InterruptedMerge \/ Unapproved \/ Contained \/ LostWorkspace
         \/ man = Nothing /\ remote.head.with # 0)
=============================================================================
