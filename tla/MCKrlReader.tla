---------------------------- MODULE MCKrlReader ----------------------------
(***************************************************************************)
(* KrlReader for TLC: a system variable, which may live under R1 or under  *)
(* System.                                                                 *)
(***************************************************************************)
EXTENDS KrlReader

KrlNodes == <<"R1", "System">>

=============================================================================
