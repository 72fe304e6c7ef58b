--------------------------- MODULE MCRemoteLease ---------------------------
(***************************************************************************)
(* The writer lease and the tick that runs under it, for TLC, in two       *)
(* halves that share no state: hosts that compete for the lease, and the   *)
(* ticks of a host that has it.                                            *)
(***************************************************************************)
EXTENDS RemoteLease, Tick, TLC

VARIABLE half

C(native, rewrite, github, park, all, authority) ==
  [native |-> native, rewrite |-> rewrite, github |-> github, park |-> park, all |-> all, authority |-> authority]

\* Native Stacks with and without parking; rewrites with Cara's merges and with GitHub's; and
\* one caravan alone, without a fetched policy.
MCConfigs == {C(TRUE, FALSE, FALSE, TRUE, TRUE, TRUE), C(TRUE, FALSE, FALSE, FALSE, TRUE, TRUE),
              C(FALSE, TRUE, FALSE, TRUE, TRUE, TRUE), C(FALSE, TRUE, TRUE, FALSE, TRUE, TRUE),
              C(FALSE, FALSE, FALSE, FALSE, FALSE, FALSE)}

MCInit == half \in {"lease", "tick"} /\ Init /\ TickInit
          /\ (half = "lease" => config = C(TRUE, FALSE, FALSE, TRUE, TRUE, TRUE))

MCNext == /\ UNCHANGED half
          /\ \/ half = "lease" /\ Next /\ UNCHANGED tickVars
             \/ half = "tick" /\ TickNext /\ UNCHANGED vars

\* Tick's fairness, on its half, said of states: ticks begin and end without end, and what
\* CI and GitHub have to do does not stay undone (doing it once leaves nothing to do).
MCFairness ==
  /\ []<>(half = "lease" \/ tick.pc = "idle")
  /\ []<>(half = "lease" \/ tick.pc = "discover")
  /\ \A c \in Caravans : /\ []<>(half = "lease" \/ ~Pending(c))
                        /\ []<>(half = "lease" \/ fleet[c].landing # "submitted")
                        /\ []<>(half = "lease" \/ ~AutoMergeable(c))

MCSpec == MCInit /\ [][MCNext]_<<half, vars, tickVars>> /\ MCFairness

\* Tick, on its half: caravans land in the end (sync_with_lock, over many ticks).
Drains == half = "tick" => FleetDrains

\* Tick, on its half: whoever has to act is woken (sync/decision.rs).
Woken == half = "tick" => OwnersWoken
=============================================================================
