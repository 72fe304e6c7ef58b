------------------------------ MODULE MCRepair ------------------------------
(***************************************************************************)
(* What is done about a red head, for TLC, in halves that share no state:  *)
(* a repair session, with an owner who works it and a second person with a *)
(* few commands; and CI, with one workflow whose gate and test jobs are    *)
(* required.                                                               *)
(***************************************************************************)
EXTENDS Repair, CI, TLC

VARIABLE half

MCBudgets == {[commands |-> 1, outside |-> 1, deaths |-> 1],
              [commands |-> 2, outside |-> 0, deaths |-> 1],
              [commands |-> 2, outside |-> 1, deaths |-> 0]}

MCInit == /\ half \in {"repair", "ci"} /\ Init /\ CIInit
          /\ half # "ci" => member = TRUE
          /\ (half # "repair" => ~force /\ left = [commands |-> 1, outside |-> 1, deaths |-> 1])

MCNext == /\ UNCHANGED half
          /\ \/ half = "repair" /\ Next /\ UNCHANGED ciVars
             \/ half = "ci" /\ CINext /\ UNCHANGED vars

\* Repair's fairness and that of CI, whose ticks begin and end without end, each on its half.
MCFairness == /\ \A p \in Procs : WF_vars(half = "repair" /\ Steps(p))
              /\ WF_vars(half = "repair" /\ Work) /\ SF_vars(half = "repair" /\ Stage("c"))
              /\ []<>(half = "repair" \/ tick.pc = "idle") /\ []<>(half = "repair" \/ tick.pc # "idle")

MCSpec == MCInit /\ [][MCNext]_<<half, vars, ciVars>> /\ MCFairness

\* Repair's liveness, on its half.
MCSessionFinishes == half = "repair" => SessionFinishes
=============================================================================
