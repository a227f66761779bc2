----------------------------- MODULE RegisterMap -----------------------------
(***************************************************************************)
(* The register array of a HyperLogLog sketch and the hashes that fill it. *)
(*                                                                         *)
(* A hash is an opaque value.  The dense representation places it in       *)
(* register IdxOf[h] with rank RhoOf[h]; a register keeps the largest rank *)
(* it was offered.  Register values are what the estimate is computed      *)
(* from, so two sketches with the same registers are the same sketch.      *)
(***************************************************************************)
EXTENDS Integers, FiniteSets, FiniteSetsExt

CONSTANTS
  Hash,    \* the hash values the model inserts
  Idx,     \* register numbers, 0 .. m-1 in the code
  MaxRho,  \* largest rank a register can hold
  IdxOf,   \* hash -> register
  RhoOf    \* hash -> rank, at least 1

ASSUME RegisterMapAssumption ==
  /\ IsFiniteSet(Hash)
  /\ MaxRho \in Nat \ {0}
  /\ IdxOf \in [Hash -> Idx]
  /\ RhoOf \in [Hash -> 1 .. MaxRho]

RegMap == [Idx -> 0 .. MaxRho]

\* Registers of a sketch nothing was inserted into.
Zero == [i \in Idx |-> 0]

\* hllSet.SetRegisterMax: raise the register of h to the rank of h.
SetRegisterMax(regs, h) ==
  [regs EXCEPT ![IdxOf[h]] = IF RhoOf[h] > @ THEN RhoOf[h] ELSE @]

\* The registers that the hashes of S fill: the loops over a sparse list.
RegsOf(S) ==
  [i \in Idx |-> Max({0} \cup {RhoOf[h] : h \in {g \in S : IdxOf[g] = i}})]

\* Pointwise maximum, the union of two sketches.
Join(r, s) == [i \in Idx |-> IF r[i] >= s[i] THEN r[i] ELSE s[i]]

\* The hashes of S that decide a register: what S looks like once its
\* registers were built and only the largest rank of each is left.
Deciding(S) ==
  {h \in S : \A g \in S : IdxOf[g] = IdxOf[h] => RhoOf[g] <= RhoOf[h]}
==============================================================================
