-------------------------- MODULE MCOperationLock --------------------------
(* OperationLock alone, for TLC.  Token sequence numbers order operations   *)
(* and PIDs only name processes, so Pids may be permuted.                   *)
EXTENDS OperationLock, TLC

PidSymmetry == Permutations(Pids)
=============================================================================
