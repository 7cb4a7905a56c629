--------------------------- MODULE MCToolpathJobs ---------------------------
(***************************************************************************)
(* ToolpathJobs for TLC: two programs, and the snapshots that tell the     *)
(* branches of _tick apart.                                                *)
(***************************************************************************)
EXTENDS ToolpathJobs

CONSTANTS A, B  \* two programs

Active(p, x) == [active |-> TRUE, prog |-> p, pos |-> x]

\* Program A, its next position under no name, program B, and a snapshot that is not
\* P_Active, which is never looked into.
MCPrograms == {A, B}
MCSnapshots ==
    {Active(A, 0), Active(NoProgram, 1), Active(B, 1), [active |-> FALSE, prog |-> A, pos |-> 0]}

=============================================================================
