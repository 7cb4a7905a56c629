--------------------------- MODULE MCEventStream ----------------------------
(***************************************************************************)
(* EventStream for TLC: one device beside the log, and LIMIT below the     *)
(* number of rows, so that a batch is left over for the next poll.         *)
(***************************************************************************)
EXTENDS EventStream

=============================================================================
