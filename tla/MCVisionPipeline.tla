-------------------------- MODULE MCVisionPipeline --------------------------
(***************************************************************************)
(* VisionPipeline for TLC: two clients that share one event, and one frame *)
(* more than inference has time for.                                       *)
(***************************************************************************)
EXTENDS VisionPipeline

=============================================================================
