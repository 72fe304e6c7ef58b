--------------------------- MODULE MCStackRebuild ---------------------------
(* Stack rebuilding and the mutation adapter for TLC, in halves that share no   *)
(* state. Every budget of the first lets one kind of history be long: commands  *)
(* after one another, commands against people, and one of each. Of the second   *)
(* every operation is tried and tried again, and transitions follow another.    *)
EXTENDS StackRebuild, Mutations

Budget(commands, outside, cuts) == [commands |-> commands, outside |-> outside, cuts |-> cuts]
MCBudgets == {Budget(1, 1, 1), Budget(2, 1, 0), Budget(3, 0, 1)}

MCPlans == {<<k, k>> : k \in Kinds} \cup {<<"audit_on", "audit_off", "audit_on">>, <<"disable_auto", "arm">>}

VARIABLE half

MCInit == /\ Init /\ MutationInit
          /\ \/ half = "stacks" /\ todo = <<"arm", "arm">> /\ subject.defined /\ subject.labels = {"caravan"} /\ subject.auto = "off"
             \/ half = "mutations" /\ left = Budget(1, 1, 1) /\ stacks = {}
MCNext == /\ UNCHANGED half
          /\ \/ half = "stacks" /\ Next /\ UNCHANGED mutationVars
             \/ half = "mutations" /\ MutationNext /\ UNCHANGED vars

\* Ticks go on for ever in the first half; in the second its Stacks are settled.
MCSpec == MCInit /\ [][MCNext]_<<half, vars, mutationVars>> /\ WF_vars(half = "stacks" /\ (Progress \/ Tick))
=============================================================================
