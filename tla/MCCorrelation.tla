---------------------------- MODULE MCCorrelation -----------------------------
(* Two nodes, so that half of them is one. *)
EXTENDS Correlation

CONSTANTS n1, n2
==============================================================================
