------------------------------- MODULE MCLocks -------------------------------
(***************************************************************************)
(* The two locks of a landing for TLC, in halves that share no state: the  *)
(* repository's operation lock, which processes of one clone compete for,  *)
(* and the ruleset lock of a native Stack, which the landing transaction   *)
(* takes on the provider.                                                  *)
(***************************************************************************)
EXTENDS OperationLock, StackLanding, TLC

VARIABLE half

\* PIDs only name processes, so they may be permuted; no process is in the half whose
\* liveness is checked.
PidSymmetry == Permutations(Pids)

MCInit == half \in {"operation", "landing"} /\ Init /\ LandInit

MCNext == /\ UNCHANGED half
          /\ \/ half = "operation" /\ Next /\ UNCHANGED landVars
             \/ half = "landing" /\ LandNext /\ UNCHANGED vars

\* No behaviour of the first half is fair to the landing's tick: the liveness is the second's.
MCSpec == MCInit /\ [][MCNext]_<<half, vars, landVars>> /\ LandFairness

=============================================================================
