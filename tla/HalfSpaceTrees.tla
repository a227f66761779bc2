----------------------------- MODULE HalfSpaceTrees ----------------------------
(***************************************************************************)
(* HSTDetector (ddos/detector/hst.go), one tree of it: samples are counted *)
(* along their path from the root, the counts of a window become the       *)
(* reference of the next, and the score of a sample is how far the two are *)
(* apart on its path.                                                      *)
(*                                                                         *)
(* Node 1 is the root and 2n, 2n + 1 are the children of n.  The splits    *)
(* are fixed, so that a sample is given by the leaf it falls into.  Scores *)
(* are in units of 1/Unit.                                                 *)
(***************************************************************************)
EXTENDS Integers, FiniteSets

CONSTANTS
  MaxDepth,    \* hstMaxDepth, 5
  WindowSize,  \* samples in a window, 50
  Unit

HalfSpaceTreesAssumption == MaxDepth \in Nat /\ WindowSize \in Nat \ {0} /\ Unit \in Nat

VARIABLES
  mass, refMass,  \* of the nodes
  samplesSeen,    \* since the last swap
  trained,
  \* History variables
  seen, refSeen   \* the leaves the samples of the two windows fell into

vars == <<mass, refMass, samplesSeen, trained, seen, refSeen>>

Node == 1 .. 2^(MaxDepth + 1) - 1
Leaf == 2^MaxDepth .. 2^(MaxDepth + 1) - 1

\* The node at a depth on the way to a leaf.
NodeAt(leaf, depth) == leaf \div 2^(MaxDepth - depth)
Path(leaf) == {NodeAt(leaf, depth) : depth \in 0 .. MaxDepth}

Init ==
  /\ mass = [n \in Node |-> 0]
  /\ refMass = [n \in Node |-> 0]
  /\ samplesSeen = 0
  /\ trained = FALSE
  /\ seen = {} /\ refSeen = {}

\* insertHST
Inserted(leaf) == [n \in Node |-> IF n \in Path(leaf) THEN mass[n] + 1 ELSE mass[n]]

\* Mutant of Full: the window is a sample longer.
FullLater(n) == n > WindowSize

Full(n) == n >= WindowSize

\* A sample; the last one of a window swaps the masses (swapHST).
Update(leaf) ==
  IF Full(samplesSeen + 1)
  THEN /\ refMass' = Inserted(leaf)
       /\ mass' = [n \in Node |-> 0]
       /\ samplesSeen' = 0
       /\ trained' = TRUE
       /\ refSeen' = seen \cup {leaf}
       /\ seen' = {}
  ELSE /\ mass' = Inserted(leaf)
       /\ samplesSeen' = samplesSeen + 1
       /\ seen' = seen \cup {leaf}
       /\ UNCHANGED <<refMass, trained, refSeen>>

Next == \E leaf \in Leaf : Update(leaf)

Spec == Init /\ [][Next]_vars

Abs(x) == IF x < 0 THEN -x ELSE x

\* Relative deviation of a node, at most Unit.
NodeScore(n) ==
  IF refMass[n] + mass[n] = 0 THEN 0
  ELSE (Unit * Abs(mass[n] - refMass[n])) \div (refMass[n] + mass[n])

\* Score: the nodes of the path, twice as heavy with each level.
Score(leaf) ==
  LET upTo[d \in 0 .. MaxDepth] ==
        2^d * NodeScore(NodeAt(leaf, d)) + (IF d = 0 THEN 0 ELSE upTo[d - 1])
  IN IF trained THEN upTo[MaxDepth] ELSE 0

------------------------------------------------------------------------------
(* Properties *)

Largest == 2^(MaxDepth + 1) - 1

\* Traffic that never changes is scored by the age of the window alone: as
\* high as anything can be right after a swap, and lower with each sample
\* until the next.
SteadyScore ==
  \A leaf \in Leaf :
    /\ Score(leaf) <= Largest * Unit
    /\ trained /\ refSeen = {leaf} /\ seen \subseteq {leaf} =>
         Score(leaf) = Largest * ((Unit * (WindowSize - samplesSeen)) \div (WindowSize + samplesSeen))
==============================================================================
