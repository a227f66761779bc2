-------------------------- MODULE MCPackedRegisters ---------------------------
(* Four registers in three bytes; rank 3 is in the low two bits, rank 4 above. *)
EXTENDS PackedRegisters, TLC

CONSTANTS g1, g2

Empty == [i \in Reg |-> 0]
Sparsely == (0 :> 0) @@ (1 :> 3) @@ (2 :> 0) @@ (3 :> 4)
MCStored == {Empty, Sparsely}
==============================================================================
