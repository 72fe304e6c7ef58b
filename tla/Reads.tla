-------------------------------- MODULE Reads --------------------------------
(***************************************************************************)
(* The two reads that decide for others: the status of a repository, and   *)
(* the generation judgement that a status and an admission are made by.    *)
(***************************************************************************)
EXTENDS Status, Generation

\* What a read says rests on what it read: the answer of a status, and who is current and who superseded.
ReadsSound == StatusSound /\ GenerationSound
=============================================================================
