-------------------------- MODULE MCHoldsDiscovery --------------------------
(* The holds of a caravan, and the discovery that every command begins with, for *)
(* TLC in halves that share no state.                                            *)
EXTENDS MCHolds, MCDiscovery

ASSUME DiscoveryBounds

VARIABLE half

MCInit ==
  /\ Init /\ DiscoveryInit
  /\ \/ half = "holds" /\ pass.opt = CHOOSE o \in Passes : TRUE
     \/ half = "discovery" /\ actor = "cara" /\ left = CHOOSE b \in Budgets : TRUE

MCNext == /\ UNCHANGED half
          /\ \/ half = "holds" /\ Next /\ UNCHANGED discoveryVars
             \/ half = "discovery" /\ DiscoveryNext /\ UNCHANGED vars

\* Ticks go on for ever in the first half only, whose liveness is checked.
MCSpec == MCInit /\ [][MCNext]_<<half, vars, discoveryVars>> /\ WF_vars(Progress) /\ WF_vars(ProviderAutoMerge)
=============================================================================
