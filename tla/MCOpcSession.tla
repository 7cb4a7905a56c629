---------------------------- MODULE MCOpcSession ----------------------------
(***************************************************************************)
(* OpcSession for TLC: two nodes with two values each, so that one can take*)
(* a value, leave it and take it again while the other is read.            *)
(***************************************************************************)
EXTENDS OpcSession

=============================================================================
