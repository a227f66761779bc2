----------------------------- MODULE MCComponents ------------------------------
(* Components of a size that can be checked. *)
EXTENDS Components, TLC

CONSTANTS ip1, ip2

\* Two addresses that share a counter in the first row and not in the second.
MCIp == {ip1, ip2}
MCRow == {0, 1}
MCCol == {0, 1}
MCColOf == (0 :> [ip \in MCIp |-> 0]) @@ (1 :> ((ip1 :> 0) @@ (ip2 :> 1)))

(* Registers of precision 4 under indices of six bits.  In the mixed       *)
(* stream indices 4 and 8 have a rank in their codes, 5 and 1 do not; 16   *)
(* and 19 share index 4 with ranks 3 and 1.  The pairs are there so that   *)
(* every hash arrives in some stream.                                      *)
MCStreams == {{16, 19, 20, 33, 4}} \cup {{x, x + 128} : x \in 0 .. 127}

(* Four registers in three bytes; rank 3 is in the low two bits, rank 4 above. *)
Empty == [i \in 0 .. 3 |-> 0]
Sparsely == (0 :> 0) @@ (1 :> 3) @@ (2 :> 0) @@ (3 :> 4)
MCStored == {Empty, Sparsely}

(* Detectors: a calm window, one source, and a flood; five counts          *)
(* remembered.  The threshold is one that so short a history can pass.     *)
(* Ingest: channels of one packet overflow.                                *)

(* Attacks of none, one or two windows, the last of them after the end. *)
MCAttackLists == {<<>>, <<1>>, <<0, 1>>, <<2, 3>>}

\* What the theorem about the moving average assumes.
ASSUME UnitIsFine == Deviation > 0 /\ Detector!FineUnit
==============================================================================
