-------------------------- MODULE MCTelemetryStore --------------------------
(***************************************************************************)
(* TelemetryStore for TLC: the repository's own statement that a run       *)
(* refutes.                                                                *)
(***************************************************************************)
EXTENDS TelemetryStore

\* storage/spool.py:5: "A background retry task drains the spool when connectivity
\* recovers": with process and database up for good, the rows the table accepts are
\* replayed, also those spooled beside one it rejects.
HealthyRowsDrain ==
    Steady => \A r \in Record \ Poison : r \in RecsOf(spool) ~> r \notin RecsOf(spool)

=============================================================================
