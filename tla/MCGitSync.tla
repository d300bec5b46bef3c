---------------------------- MODULE MCGitSync ----------------------------
(* Instances of GitSync. *)
EXTENDS GitSync

CONSTANTS a, b, n

MCValues == 0..MaxWrites
=============================================================================
