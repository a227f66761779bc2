----------------------------- MODULE MCSparseList -----------------------------
(***************************************************************************)
(* Registers of precision 4 under indices of six bits: indices 4 and 8     *)
(* have a rank in their codes, 5 and 1 do not; the hashes 16 and 19 share  *)
(* index 4 with ranks 3 and 1.                                             *)
(***************************************************************************)
EXTENDS SparseList

CONSTANTS s1, s2

Mixed == {{16, 19, 20, 33, 4}}
==============================================================================
