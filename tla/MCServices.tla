----------------------------- MODULE MCServices -----------------------------
(***************************************************************************)
(* What runs for a long time beside the commands, for TLC, in parts that   *)
(* share no state.  The dashboard: a hosted worker whose access is         *)
(* withdrawn while it polls or is restarted, an operator's dashboard whose *)
(* repository changes meanwhile, webhooks that start syncs, and one that   *)
(* may only read.  The loop with the recovery ledger: two hosts at a time  *)
(* and two kinds of failure; a refusal and a terminal failure are recorded *)
(* alike, so receipts report one of them.  The clones of two hosted        *)
(* workers: one dies, a list of repositories is refused half way, the      *)
(* default branch moves, a mirror becomes unusable.  Two status passes one *)
(* after the other, of a repository that is sound for some time.  And the  *)
(* generation judgement of three pull requests: the first one is sound,    *)
(* the second may share its slot, stand on it or be of another agent, and  *)
(* the third shares a bead with one of them or joins them into one stream. *)
(***************************************************************************)
EXTENDS Dashboard, Recovery, CloneCache, Reads

VARIABLE half

B(polls, requests, views, restarts, changes, grants) ==
  [polls |-> polls, requests |-> requests, views |-> views, restarts |-> restarts, changes |-> changes, grants |-> grants]

MCStarts == {[mode |-> "hosted", left |-> B(1, 1, 0, 0, 0, 1)], [mode |-> "hosted", left |-> B(0, 2, 0, 1, 0, 1)],
             [mode |-> "local", left |-> B(1, 1, 1, 0, 1, 0)], [mode |-> "local", left |-> B(0, 2, 1, 1, 1, 0)],
             [mode |-> "local_sync", left |-> B(0, 3, 0, 0, 0, 0)], [mode |-> "read_only", left |-> B(0, 2, 1, 0, 0, 0)]}

MCErrors == {[disposition |-> "absent", transientCode |-> TRUE, plan |-> TRUE],
             [disposition |-> "external_decision", transientCode |-> FALSE, plan |-> FALSE]}
MCReported == {"acknowledged", "transient_failure", "terminal_failure", "success"}

W(lists, starts, kills, moves, harm) ==
  [lists |-> lists, starts |-> starts, kills |-> kills, moves |-> moves, harm |-> harm]
MCWorks == {W({<<"a">>, <<"a", "b">>}, 2, 1, 0, 0), W({<<"a", "a">>, <<"a", "invalid">>, <<"b">>}, 2, 0, 0, 0),
            W({<<"a">>}, 2, 0, 1, 1)}

S(agent, beads, parent) == [agent |-> agent, beads |-> beads, parent |-> parent]
MCSlots == <<{S("x", {1}, 0)}, {S("x", {1, 2}, 0), S("y", {1}, 0), S("x", {1}, 1)},
             {S("x", {1}, 0), S("x", {2}, 0)}>>
MCSources == {{1}, {2}, {1, 2}}

MCInit == /\ half \in {"dashboard", "ledger", "clones", "status", "generation"}
          /\ DashboardInit /\ LedgerInit /\ CloneInit /\ StatusInit
          /\ half # "dashboard" => [mode |-> mode, left |-> left] = CHOOSE start \in Starts : TRUE
          /\ half # "clones" => work = CHOOSE w \in Works : TRUE
          /\ half # "status" => faulty = [g \in 0 .. LastGen |-> IF g = 0 THEN "nothing" ELSE "graph"]
          /\ IF half = "generation"
             THEN /\ GenerationInit /\ row[1].meta = "valid" /\ 1 \in row[1].source
                  /\ row[2].slot.agent = "y" => row[2].source = {1}
                  /\ row[2].slot.parent = 1 => row[2].source = {1, 2}
                  /\ row[3].meta # "none"
             ELSE row = <<>> /\ comment = <<>> /\ pass = NoPass /\ edits = 0

MCNext == /\ UNCHANGED half
          /\ \/ half = "dashboard" /\ DashboardNext /\ UNCHANGED <<ledgerVars, cloneVars, statusVars, generationVars>>
             \/ half = "ledger" /\ LedgerNext /\ UNCHANGED <<dashboardVars, cloneVars, statusVars, generationVars>>
             \/ half = "clones" /\ CloneNext /\ UNCHANGED <<dashboardVars, ledgerVars, statusVars, generationVars>>
             \/ half = "status" /\ StatusNext /\ UNCHANGED <<dashboardVars, ledgerVars, cloneVars, generationVars>>
             \/ half = "generation" /\ GenerationNext /\ UNCHANGED <<dashboardVars, ledgerVars, cloneVars, statusVars>>

\* The hosts of the loop are alike.
Alike == Permutations(Hosts)

MCSpec == MCInit /\ [][MCNext]_<<half, dashboardVars, ledgerVars, cloneVars, statusVars, generationVars>>
=============================================================================
