------------------------- MODULE MCMjpegBroadcaster -------------------------
(***************************************************************************)
(* MjpegBroadcaster for TLC: two viewers of one camera.                    *)
(***************************************************************************)
EXTENDS MjpegBroadcaster

=============================================================================
