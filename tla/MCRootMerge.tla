---------------------------- MODULE MCRootMerge ----------------------------
(* Instances of RootMerge for TLC; the constants are in the configurations. *)
EXTENDS RootMerge
=============================================================================
