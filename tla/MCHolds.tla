------------------------------- MODULE MCHolds -------------------------------
(* Budgets: a recovery takes five commands and two moves of its owner; two      *)
(* parkings of one caravan take four CI results; a retried unpark takes three   *)
(* commands; people interfere with the shorter histories.                       *)
EXTENDS Holds
B(r, o, c, k, m) == [runs |-> r, outside |-> o, commands |-> c, cuts |-> k, may |-> m]
Parks == {"review", "unpark", "restore"}
Force == {"review", "arm", "revoke", "apply", "reviewed_revoke"}
MCBudgets == {B(0, 2, 6, 1, {"pause", "recovery"}), B(1, 1, 3, 1, {"pause", "resume"}),
              B(4, 0, 3, 1, Parks), B(3, 1, 3, 0, Parks), B(2, 1, 2, 0, Force),
              B(3, 1, 1, 0, {"pause"})}
=============================================================================
