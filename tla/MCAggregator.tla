----------------------------- MODULE MCAggregator -----------------------------
(* One node's merges against resets, correlation and detection. *)
EXTENDS Aggregator

CONSTANTS n1, n2
==============================================================================
