---------------------------- MODULE MCMembership ----------------------------
(***************************************************************************)
(* Membership and concat on four pull requests, the admission that names   *)
(* the candidate on three, and one enrolment in detail: parts of one run,  *)
(* of which one moves.                                                     *)
(***************************************************************************)
EXTENDS Concat, Admission

CONSTANT Lags

VARIABLES part, repo, checkpoint, enrolling, others, mishaps

enrolmentVars == <<repo, checkpoint, enrolling, others, mishaps>>
mcVars == <<vars, job, reviewed, journaled, authored, admissionVars, enrolmentVars, part>>

(* Joins behind the tail and new roots: rewritten, in metadata only, and   *)
(* native; bound to reviewed facts, and of a pull request to be created.   *)
Q(join, create, bound, mode, arm) ==
  [join |-> join, create |-> create, bound |-> bound, mode |-> mode, arm |-> arm]
MCRequests ==
  {Q(TRUE, FALSE, TRUE, "physical", FALSE), Q(FALSE, FALSE, TRUE, "physical", TRUE), Q(TRUE, TRUE, FALSE, "physical", FALSE),
   Q(FALSE, TRUE, FALSE, "metadata", TRUE), Q(TRUE, FALSE, FALSE, "metadata", FALSE),
   Q(TRUE, FALSE, TRUE, "native", FALSE), Q(FALSE, TRUE, FALSE, "native", FALSE)}

(* A head on an old default branch, one on the tail already, a branch that *)
(* has no pull request yet, and one without any work of its own.           *)
MCArrivals ==
  LET c(open, onto, work, labels, auto) ==
        [open |-> open, rev |-> 1, content |-> 1, work |-> work, onto |-> onto,
         base |-> <<"main", 1>>, labels |-> labels, auto |-> auto]
  IN  {c(TRUE, <<"main", 0>>, TRUE, {"skipped"}, FALSE), c(TRUE, <<"tail", 1>>, TRUE, {}, TRUE),
       c(FALSE, <<"main", 1>>, TRUE, {}, FALSE), c(FALSE, <<"main", 0>>, FALSE, {}, FALSE)}

Enrol == INSTANCE Enrolment WITH Requests <- MCRequests, Arrivals <- MCArrivals,
                                 op <- enrolling, outside <- others, faults <- mishaps

ASSUME AdmissionBounds /\ Enrol!EnrolmentBounds

(* A part that rests keeps one of its initial states, enrolment none. *)
NoAdmission == clash = {} /\ pulls = [p \in Prs |-> Plain]
NoEnrolment == repo = 0 /\ enrolling = 0 /\ checkpoint = FALSE /\ others = 0 /\ mishaps = 0
MCInit ==
  /\ AdmissionInit /\ ConcatBegins
  /\ \/ part = "membership" /\ Init /\ NoAdmission /\ NoEnrolment
     \/ part = "concat" /\ ConcatInit /\ NoAdmission /\ NoEnrolment
     \/ part = "admission" /\ Init /\ pull = [p \in PRs |-> Unqueued(p)] /\ NoEnrolment
     \/ part = "enrolment" /\ Init /\ pull = [p \in PRs |-> Unqueued(p)] /\ NoAdmission /\ Enrol!EnrolmentInit

MCNext ==
  \/ part = "membership" /\ Next /\ UNCHANGED <<job, reviewed, journaled, authored, admissionVars, enrolmentVars, part>>
  \/ part = "concat" /\ ConcatNext /\ UNCHANGED <<admissionVars, enrolmentVars, part>>
  \/ part = "admission" /\ AdmissionNext /\ UNCHANGED <<vars, job, reviewed, journaled, authored, enrolmentVars, part>>
  \/ part = "enrolment" /\ Enrol!EnrolmentNext /\ UNCHANGED <<vars, job, reviewed, journaled, authored, admissionVars, part>>

(* The loop of ticks goes on, as in AdmissionSpec. *)
MCSpec == /\ MCInit /\ [][MCNext]_mcVars
          /\ []<><<Turn>>_admissionVars \/ []<>(part # "admission")

(* What Membership promises, where its commands run: the fleet is chains   *)
(* with their predecessors' patches (ChainSound), and a command's report   *)
(* is true (ReportSound).  What labels and receipts say of admission       *)
(* agrees, wherever a command dies (AdmissionShape), and so does what an   *)
(* admission tells its caller (EnrolmentSound).                            *)
MCFleetSound == /\ part = "membership" => ChainSound /\ ReportSound
                /\ part = "admission" => AdmissionShape
                /\ part = "enrolment" => Enrol!EnrolmentSound

\* Admission's liveness, on its part.
MCCandidateProceeds == part = "admission" => CandidateProceeds
=============================================================================
