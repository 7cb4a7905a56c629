---------------------------- MODULE MCLiveFollow ----------------------------
(***************************************************************************)
(* LiveFollow for TLC: two jobs and two points.  Limits of one point for   *)
(* 50000 and 2000 make both the first answer and the live one fall short.  *)
(***************************************************************************)
EXTENDS LiveFollow

=============================================================================
