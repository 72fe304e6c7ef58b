----------------------------- MODULE CloneCache -----------------------------
(***************************************************************************)
(* The clones of hosted workers (hosted_clone_cache.rs).  Workers share a  *)
(* directory of mirrors, of job clones and of quarantined leftovers.  The  *)
(* quota lock serializes everything that builds, publishes, evicts or      *)
(* cleans; a job clone belongs to the worker that holds its lease, and is  *)
(* given back outside that lock.  Workers die, the default branch moves.   *)
(*                                                                         *)
(* Every directory takes one unit of storage and is named by the number of *)
(* directories made before it, which is also the order of modification.    *)
(* A mirror's own lock is only taken inside the quota lock, so nobody ever *)
(* waits for it and it is not state.                                       *)
(***************************************************************************)
EXTENDS Naturals, SequencesExt

CONSTANTS Workers,
          Repos,
          MaxJobs, MaxEntries, MaxBytes,   \* the bounds of HostedCloneCacheConfig
          Works                            \* what may be asked, and happen, in a history

Slugs == Repos \union {"invalid"}

\* HostedCloneCacheConfig::validate.
ValidLimits == {MaxJobs, MaxEntries, MaxBytes} \subseteq Nat \ {0}

ASSUME CloneBounds ==
  /\ ValidLimits
  /\ {"free", "missing"} \cap Workers = {}
  /\ Works \subseteq [lists : SUBSET Seq(Slugs), starts : Nat, kills : Nat, moves : Nat, harm : Nat]

VARIABLES remote,   \* the default branch of each repository and its head
          mirrors,  \* cache/: published mirrors and builds in progress
          clones,   \* jobs/
          trash,    \* quarantine/
          quota,    \* who holds locks/quota.lock
          made,     \* directories made so far
          worker,   \* where each worker is, and what it has read
          work      \* what may still happen

cloneVars == <<remote, mirrors, clones, trash, quota, made, worker, work>>
storage == <<mirrors, clones, trash, made>>

None == [none |-> TRUE]
NewWorker == [at |-> "down", todo |-> <<>>, seen |-> {}, proof |-> None, dir |-> 0, scan |-> {}, mine |-> {}]

Ids(dirs) == {d.id : d \in dirs}
Dir(dirs, i) == CHOOSE d \in dirs : d.id = i
Size == Cardinality(mirrors) + Cardinality(clones) + Cardinality(trash)

\* cache_key: the repository, the installation and the default branch.
CacheKey(proof) == <<proof.repo, proof.branch>>
Mirror(w) == {m \in mirrors : ~m.building /\ m.key = CacheKey(worker[w].proof)}

Set(w, r) == worker' = [worker EXCEPT ![w] = r]
Enter(w, place) == Set(w, [worker[w] EXCEPT !.at = place])

\* Quarantine keeps the age of what it is given.
Quarantined(dirs) == {[id |-> d.id, old |-> d.old] : d \in dirs}

OverBounds(entries, bytes) == entries > MaxEntries \/ bytes > MaxBytes

\* The oldest directories go first, each that is too old or still one too many.
Trim(dirs, keep, size) ==
  LET order == SetToSortSeq(dirs, LAMBDA a, b : a.id < b.id)
      Over(gone) == OverBounds(Cardinality(dirs) - Cardinality(gone), size - Cardinality(gone))
      Take(gone, d) == IF d \notin keep /\ (d.old \/ Over(gone)) THEN gone \union {d} ELSE gone
  IN dirs \ FoldLeft(Take, {}, order)

CleanupQuarantine(bin, size) == Trim(bin, {}, size)
EnforceCacheBounds(cache, keep) == Trim(cache, keep, Cardinality(cache))

\* An error returns through every caller: the quota lock is dropped, then the clones
\* that this worker was already given.
Fail(w) ==
  /\ Set(w, [worker[w] EXCEPT !.at = "drop", !.proof = None, !.dir = 0, !.scan = {}, !.todo = <<>>])
  /\ quota' = IF quota = w THEN "free" ELSE quota

-----------------------------------------------------------------------------
(* materialize_with_runner, and materialize_one up to the quota lock.        *)

\* What is asked of a worker that starts; configuration and environment were refused
\* before any directory is touched.
Start(w) ==
  /\ worker[w].at = "down" /\ work.starts > 0
  /\ \E list \in work.lists : Set(w, [NewWorker EXCEPT !.at = "next", !.todo = list])
  /\ work' = [work EXCEPT !.starts = @ - 1]
  /\ UNCHANGED <<remote, storage, quota>>

\* The slug must be valid and new; the default branch and its head are then read.
ReadRemoteDefault(w) ==
  /\ worker[w].at = "next" /\ worker[w].todo # <<>>
  /\ LET slug == Head(worker[w].todo) IN
     IF slug \notin Repos \/ slug \in worker[w].seen THEN Fail(w)
     ELSE \/ /\ Set(w, [worker[w] EXCEPT !.at = "quota", !.seen = worker[w].seen \union {slug}, !.todo = Tail(worker[w].todo),
                        !.proof = [repo |-> slug, branch |-> remote[slug].branch, head |-> remote[slug].head]])
             /\ UNCHANGED quota
          \/ Fail(w)
  /\ UNCHANGED <<remote, storage, work>>

TakeQuota(w) ==
  /\ worker[w].at = "quota" /\ quota = "free"
  /\ quota' = w
  /\ Enter(w, "ensure")
  /\ UNCHANGED <<remote, storage, work>>

LockTimeout(w) ==
  /\ worker[w].at \in {"quota", "next"} /\ quota # "free"
  /\ worker[w].at = "next" => worker[w].todo = <<>>
  /\ Fail(w)
  /\ UNCHANGED <<remote, storage, work>>

-----------------------------------------------------------------------------
(* ensure_cache.                                                             *)

\* verify_cache on a mirror: its receipt, its symbolic HEAD and its configuration.
Verified(m, proof) == m.sound /\ m.branch = proof.branch

EnsureCache(w) ==
  /\ worker[w].at = "ensure"
  /\ LET hit == {m \in Mirror(w) : ~m.old /\ Verified(m, worker[w].proof)} IN
     /\ Enter(w, IF hit # {} THEN "sweep" ELSE "build")
     /\ mirrors' = IF hit # {} THEN mirrors ELSE mirrors \ Mirror(w)
     /\ trash' = IF hit # {} THEN trash ELSE trash \union Quarantined(Mirror(w))
  /\ UNCHANGED <<remote, clones, made, quota, work>>

\* The mirror is cloned beside the published ones, with the HEAD the remote has now.
BuildCache(w) ==
  /\ worker[w].at = "build"
  /\ \/ /\ made' = made + 1
        /\ mirrors' = mirrors \union {[id |-> made', key |-> CacheKey(worker[w].proof), building |-> TRUE,
                                       branch |-> remote[worker[w].proof.repo].branch, sound |-> TRUE, old |-> FALSE]}
        /\ Set(w, [worker[w] EXCEPT !.at = "publish", !.dir = made'])
        /\ UNCHANGED <<clones, trash, quota>>
     \/ Fail(w) /\ UNCHANGED storage
  /\ UNCHANGED <<remote, work>>

\* The receipt is written, the build verified and renamed; when one of the two writes
\* fails, the build is left behind.
PublishCache(w) ==
  /\ worker[w].at = "publish"
  /\ LET built == Dir(mirrors, worker[w].dir)
         ok == Verified(built, worker[w].proof)
     IN \/ /\ IF ok THEN Set(w, [worker[w] EXCEPT !.at = "sweep", !.dir = 0]) /\ UNCHANGED quota ELSE Fail(w)
           /\ mirrors' = (mirrors \ {built}) \union (IF ok THEN {[built EXCEPT !.building = FALSE]} ELSE {})
        \/ Fail(w) /\ UNCHANGED mirrors
  /\ UNCHANGED <<remote, clones, trash, made, work>>

-----------------------------------------------------------------------------
(* prepare_job_quota: holderless jobs one by one, then partial builds and    *)
(* bounds.                                                                   *)

ScanJobs(w) ==
  /\ worker[w].at = "sweep"
  /\ Set(w, [worker[w] EXCEPT !.at = "clean", !.scan = Ids(clones)])
  /\ UNCHANGED <<remote, storage, quota, work>>

\* Mutant: a lease that somebody holds is not respected.
CleanAnyJob(w) ==
  /\ worker[w].at = "clean"
  /\ \E i \in worker[w].scan : Set(w, [worker[w] EXCEPT !.at = "remove", !.dir = i, !.scan = worker[w].scan \ {i}])
  /\ UNCHANGED <<remote, storage, quota, work>>

\* A job without a lease file, or gone by now, is quarantined; a held one is left
\* alone; one whose lease could be taken will be removed.
CleanJob(w) ==
  /\ worker[w].at = "clean"
  /\ \E i \in worker[w].scan :
       LET unleased == {c \in clones : c.id = i /\ c.lease = "missing"}
           holderless == \E c \in clones : c.id = i /\ c.lease = "free"
       IN /\ Set(w, [worker[w] EXCEPT !.at = IF holderless THEN "remove" ELSE "clean", !.dir = IF holderless THEN i ELSE 0,
                     !.scan = worker[w].scan \ {i}])
          /\ clones' = clones \ unleased
          /\ trash' = trash \union Quarantined(unleased)
  /\ UNCHANGED <<remote, mirrors, made, quota, work>>

\* Its owner may have been removing it too, which is an error here.
RemoveJob(w) ==
  /\ worker[w].at = "remove"
  /\ IF worker[w].dir \in Ids(clones)
     THEN /\ clones' = {c \in clones : c.id # worker[w].dir}
          /\ Set(w, [worker[w] EXCEPT !.at = "clean", !.dir = 0])
          /\ UNCHANGED quota
     ELSE Fail(w) /\ UNCHANGED clones
  /\ UNCHANGED <<remote, mirrors, trash, made, work>>

\* What a build that ended early left in the cache.
PartialBuilds == {m \in mirrors : m.building}
ActiveJobs == Cardinality(clones)

JobQuota(w) ==
  /\ worker[w].at = "clean" /\ worker[w].scan = {}
  /\ LET cache == EnforceCacheBounds(mirrors \ PartialBuilds, Mirror(w))
         bin == CleanupQuarantine(trash \union Quarantined(PartialBuilds), Size)
         size == Cardinality(cache) + Cardinality(clones) + Cardinality(bin)
     IN /\ mirrors' = cache /\ trash' = bin
        /\ IF OverBounds(Cardinality(cache), Cardinality(cache)) \/ size > MaxBytes \/ ActiveJobs >= MaxJobs
           THEN Fail(w) ELSE Enter(w, "job") /\ UNCHANGED quota
  /\ UNCHANGED <<remote, clones, made, work>>

-----------------------------------------------------------------------------
(* create_job_clone.                                                         *)

CreateJob(w) ==
  /\ worker[w].at = "job"
  /\ made' = made + 1
  /\ clones' = clones \union {[id |-> made', lease |-> "missing", old |-> FALSE, head |-> 0]}
  /\ Set(w, [worker[w] EXCEPT !.at = "lease", !.dir = made'])
  /\ UNCHANGED <<remote, mirrors, trash, quota, work>>

JobChanged(w, c) == (clones \ {Dir(clones, worker[w].dir)}) \union {c}

\* The lease and the receipt; an error leaves the directory, with or without a lease.
CreateLease(w) ==
  /\ worker[w].at = "lease"
  /\ \/ /\ clones' = JobChanged(w, [Dir(clones, worker[w].dir) EXCEPT !.lease = w])
        /\ Enter(w, "clone")
        /\ UNCHANGED quota
     \/ /\ \E lease \in {"missing", "free"} :
             clones' = JobChanged(w, [Dir(clones, worker[w].dir) EXCEPT !.lease = lease])
        /\ Fail(w)
  /\ UNCHANGED <<remote, mirrors, trash, made, work>>

\* git clone of the branch that was proved, with the mirror as a hint: it gets the
\* head the branch has now, or fails and the job is removed.
CloneJob(w) ==
  /\ worker[w].at = "clone"
  /\ LET now == remote[worker[w].proof.repo] IN
     \/ /\ now.branch = worker[w].proof.branch
        /\ clones' = JobChanged(w, [Dir(clones, worker[w].dir) EXCEPT !.head = now.head])
        /\ Enter(w, "verify")
        /\ UNCHANGED quota
     \/ clones' = clones \ {Dir(clones, worker[w].dir)} /\ Fail(w)
  /\ UNCHANGED <<remote, mirrors, trash, made, work>>

\* verify_job, the last look at the size, and the worktree is returned.
VerifyJob(w) ==
  /\ worker[w].at = "verify"
  /\ LET job == Dir(clones, worker[w].dir)
         exact == job.head = worker[w].proof.head
         ok == exact /\ Size <= MaxBytes
     IN /\ IF ok THEN /\ Set(w, [worker[w] EXCEPT !.at = "next", !.dir = 0, !.proof = None,
                                 !.mine = worker[w].mine \union {[id |-> job.id, proof |-> worker[w].proof]}])
                      /\ quota' = "free"
                 ELSE Fail(w)
        /\ clones' = IF ok THEN clones ELSE clones \ {job}
        /\ trash' = IF exact THEN trash ELSE CleanupQuarantine(trash \union Quarantined({job}), Size)
  /\ UNCHANGED <<remote, mirrors, made, work>>

\* After the last repository the bounds are enforced once more, for every mirror; what
\* cannot be scanned or removed is an error.
Serve(w) ==
  /\ worker[w].at = "next" /\ worker[w].todo = <<>> /\ quota = "free"
  /\ mirrors' = EnforceCacheBounds(mirrors \ PartialBuilds, {})
  /\ trash' = CleanupQuarantine(trash \union Quarantined(PartialBuilds), Size)
  /\ Fail(w) \/ (Enter(w, "serve") /\ UNCHANGED quota)
  /\ UNCHANGED <<remote, clones, made, work>>

-----------------------------------------------------------------------------
(* Drop for HostedCloneWorktree: the lease first, then the directory, with no *)
(* lock held.                                                                *)

Shutdown(w) ==
  /\ worker[w].at = "serve"
  /\ Enter(w, "drop")
  /\ UNCHANGED <<remote, storage, quota, work>>

Unlock(w) ==
  /\ worker[w].at = "drop" /\ worker[w].dir = 0
  /\ \E m \in worker[w].mine :
       /\ Set(w, [worker[w] EXCEPT !.dir = m.id, !.mine = worker[w].mine \ {m}])
       /\ clones' = {IF c.id = m.id THEN [c EXCEPT !.lease = "free"] ELSE c : c \in clones}
  /\ UNCHANGED <<remote, mirrors, trash, made, quota, work>>

RemoveOwn(w) ==
  /\ worker[w].at = "drop" /\ worker[w].dir # 0
  /\ clones' = {c \in clones : c.id # worker[w].dir}
  /\ Set(w, [worker[w] EXCEPT !.dir = 0])
  /\ UNCHANGED <<remote, mirrors, trash, made, quota, work>>

Down(w) ==
  /\ worker[w].at = "drop" /\ worker[w].dir = 0 /\ worker[w].mine = {}
  /\ Enter(w, "down")
  /\ UNCHANGED <<remote, storage, quota, work>>

-----------------------------------------------------------------------------
(* Everyone else.                                                            *)

\* The operating system frees the locks of a process that dies.
Kill(w) ==
  /\ worker[w].at # "down" /\ work.kills > 0
  /\ worker' = [worker EXCEPT ![w] = NewWorker]
  /\ quota' = IF quota = w THEN "free" ELSE quota
  /\ clones' = {IF c.lease = w THEN [c EXCEPT !.lease = "free"] ELSE c : c \in clones}
  /\ work' = [work EXCEPT !.kills = @ - 1]
  /\ UNCHANGED <<remote, mirrors, trash, made>>

\* Somebody pushes to the default branch, or makes another branch the default.
MoveDefault ==
  /\ work.moves > 0
  /\ \E r \in Repos, renamed \in BOOLEAN :
       remote' = [remote EXCEPT ![r].head = @ + 1, ![r].branch = IF renamed THEN @ + 1 ELSE @]
  /\ work' = [work EXCEPT !.moves = @ - 1]
  /\ UNCHANGED <<storage, quota, worker>>

\* Time makes a mirror too old; an outside write makes one fail its verification.
Decay ==
  /\ work.harm > 0
  /\ \E m \in mirrors, aged \in BOOLEAN :
       mirrors' = (mirrors \ {m}) \union {IF aged THEN [m EXCEPT !.old = TRUE] ELSE [m EXCEPT !.sound = FALSE]}
  /\ work' = [work EXCEPT !.harm = @ - 1]
  /\ UNCHANGED <<remote, clones, trash, made, quota, worker>>

CloneInit ==
  /\ remote = [r \in Repos |-> [branch |-> 0, head |-> 1]]
  /\ mirrors = {} /\ clones = {} /\ trash = {} /\ quota = "free" /\ made = 0
  /\ worker = [w \in Workers |-> NewWorker]
  /\ work \in Works

Materialize(w) ==
  \/ Start(w) \/ ReadRemoteDefault(w) \/ TakeQuota(w) \/ LockTimeout(w) \/ EnsureCache(w) \/ BuildCache(w)
  \/ PublishCache(w) \/ ScanJobs(w) \/ CleanJob(w) \/ RemoveJob(w) \/ JobQuota(w) \/ CreateJob(w)
  \/ CreateLease(w) \/ CloneJob(w) \/ VerifyJob(w) \/ Serve(w)
Release(w) == Shutdown(w) \/ Unlock(w) \/ RemoveOwn(w) \/ Down(w)

CloneNext == (\E w \in Workers : Materialize(w) \/ Release(w) \/ Kill(w)) \/ MoveDefault \/ Decay

CloneSpec == CloneInit /\ [][CloneNext]_cloneVars

-----------------------------------------------------------------------------
(* A worktree that a worker was given stays there, under its lease and at the   *)
(* head that was proved, until that worker gives it back or dies, whatever      *)
(* other workers clean up; jobs stay within their bound, dead workers' included; *)
(* and what is published under a key is one mirror of that key's branch.        *)
ClonesSound ==
  /\ \A w \in Workers : \A m \in worker[w].mine :
       \E c \in clones : c.id = m.id /\ c.lease = w /\ c.head = m.proof.head
  /\ Cardinality(clones) <= MaxJobs
  /\ \A m, n \in {x \in mirrors : ~x.building} : m.branch = m.key[2] /\ (m.key = n.key => m = n)
=============================================================================
