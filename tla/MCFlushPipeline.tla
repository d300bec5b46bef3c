---------------------------- MODULE MCFlushPipeline ----------------------------
(* Instances of FlushPipeline; the constants are in the .cfg files. *)
EXTENDS FlushPipeline
=============================================================================
