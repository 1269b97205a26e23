--------------------------- MODULE MCHealthChecker ---------------------------
(* HealthChecker for TLC: its constants need no definitions.                *)
EXTENDS HealthChecker
=============================================================================
