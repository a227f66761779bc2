------------------------------- MODULE Sketch --------------------------------
(***************************************************************************)
(* What a cardinality sketch promises, with no representation and no       *)
(* locks: its registers only ever absorb hashes, one call at a time, until *)
(* a reset clears them.  Hllpp implements this module.                     *)
(***************************************************************************)
EXTENDS RegisterMap

VARIABLE regs

Init == regs = Zero

\* Insert and MergeSets: some hashes take effect, none that is in is lost.
Absorb(S) == regs' = Join(regs, RegsOf(S))

\* Reset.
Clear == regs' = Zero

Next == Clear \/ \E S \in SUBSET Hash : Absorb(S)

Spec == Init /\ [][Next]_regs
==============================================================================
