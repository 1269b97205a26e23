---------------------------- MODULE MCTrustLedger ----------------------------
(* TrustLedger for TLC: the clock gives two readings that fit the column's  *)
(* precision and one that does not.  One zone is UTC, the other has its     *)
(* clocks forward in summer.                                               *)
EXTENDS TrustLedger

MCReadings == {2, 3, 4}
MCZones == {[t \in 0..4 |-> M!UTC], [t \in 0..4 |-> IF t < 4 THEN M!UTC ELSE 1]}
==============================================================================
