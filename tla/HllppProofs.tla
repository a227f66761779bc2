------------------------------ MODULE HllppProofs ------------------------------
(***************************************************************************)
(* Theorems of Hllpp for every set of hashes and goroutines, every trigger *)
(* and conversion length, and every usage; where a goroutine inserts, that *)
(* nobody else does is assumed by name (OneInserter).                      *)
(***************************************************************************)
EXTENDS Hllpp, Counting, TLAPS

------------------------------------------------------------------------------
(* The invariants *)

Converting == {"convMerge", "convCopy", "convFormat", "convDense", "convDrop"}

\* The steps that are taken with h.mu held.
Holding ==
  Converting \cup {"expMerge", "expCopy", "mergeBoth", "mergeRegs", "resetSparse", "resetDense"}

LockInv == \A t \in Threads : pc[t] \in Holding <=> hMu = t

\* What the holder of h.mu knows of format and pointers, and what the format
\* tells everybody else.
FormatInv ==
  /\ \A t \in Threads :
       /\ pc[t] \in {"convMerge", "convCopy", "convFormat", "mergeBoth",
                     "expMerge", "expCopy", "resetSparse"} => format = "sparse"
       /\ pc[t] = "convDense" => format = "dense" /\ dense = Nil /\ ~sparseNil
       /\ pc[t] = "convDrop" => format = "dense" /\ dense # Nil /\ ~sparseNil
       /\ pc[t] \in {"mergeRegs", "resetDense"} => format = "dense" /\ dense # Nil /\ sparseNil
  /\ format = "sparse" => dense = Nil /\ ~sparseNil
  /\ format = "dense" =>
       \/ dense # Nil /\ sparseNil
       \/ \E t \in Threads : pc[t] \in {"convDense", "convDrop"}

\* A merge of dense registers has them to place from the moment it has the lock.
TodoInv ==
  \A t \in Threads :
    /\ todo[t] \subseteq arg[t]
    /\ todo[t] # {} => pc[t] = "mergeRegs" \/ (pc[t] \in Converting /\ source[t] = "dense")

\* Every register that is not empty holds the rank of a hash of S.
OnlyFrom(r, S) == \A i \in Idx : r[i] = 0 \/ \E h \in S : IdxOf[h] = i /\ RhoOf[h] = r[i]

\* What calls have brought in since the last reset is all there is.
ForeignInv ==
  /\ \A t \in Threads : arg[t] \subseteq may
  /\ dense = Nil => temp \cup sorted \subseteq may
  /\ \A t \in Threads : pc[t] \in {"convFormat", "convDense"} => snap[t] \subseteq may
  /\ dense # Nil => OnlyFrom(dense, may)

------------------------------------------------------------------------------
(* With one inserter *)

Inserting == {"loadSparse", "insertSparse", "checkLen", "lockConvert", "insertDense"}
Merging == {"mergeLock", "mergeBoth", "mergeRegs"}

\* Calls are made by those that make them.
CallerInv ==
  \A t \in Threads :
    /\ pc[t] \in Inserting => "insert" \in usage.roles[t] /\ \E h \in Hash : arg[t] = {h}
    /\ pc[t] \in Merging \/ source[t] # "none" => "merge" \in usage.roles[t]
    /\ pc[t] \in Converting => {"insert", "merge"} \cap usage.roles[t] # {}
    /\ pc[t] \notin Inserting \cup Merging \cup Converting => arg[t] = {}
    /\ pc[t] \in {"loadSparse", "insertSparse"} => format = "sparse"

\* A hash is in the list until there are registers, and then in these.
Present(h) == IF dense = Nil THEN h \in temp \cup sorted ELSE dense[IdxOf[h]] >= RhoOf[h]

Covers(g, h) == IdxOf[g] = IdxOf[h] /\ RhoOf[g] >= RhoOf[h]

\* From here on an insert or merge has done its part, but for what is in todo.
Placed == {"checkLen", "lockConvert", "mergeRegs"} \cup Converting

PlacedInv ==
  \A t \in Threads : pc[t] \in Placed /\ fresh[t] =>
    \A h \in arg[t] : Present(h) \/ \E g \in todo[t] : Covers(g, h)

\* The registers are built from a list that no insert has added to since.
CopyInv ==
  \A t \in Threads :
    /\ pc[t] \in {"convCopy", "convFormat", "convDense"} => temp = {}
    /\ pc[t] \in {"convFormat", "convDense"} => snap[t] = sorted

MustInv == \A h \in must : Present(h)

ReadInv ==
  \A t \in Threads :
    /\ need[t] \subseteq must
    /\ pc[t] \in {"elemLoad", "elemSparse", "expLock", "expMerge", "expCopy"} =>
         need[t] \subseteq temp \cup sorted
    /\ pc[t] = "expCopy" => need[t] \subseteq sorted

------------------------------------------------------------------------------
(* Registers *)

LEMMA Constants ==
  /\ MaxRho \in Nat /\ MaxRho >= 1
  /\ IdxOf \in [Hash -> Idx] /\ RhoOf \in [Hash -> 1 .. MaxRho]
  /\ NoThread \notin Threads /\ Nil \notin RegMap
BY RegisterMapAssumption, HllppAssumption

\* r is what the hashes of S leave in an empty array.
Filled(r, S) ==
  /\ r \in RegMap
  /\ \A h \in S : r[IdxOf[h]] >= RhoOf[h]
  /\ OnlyFrom(r, S)

LEMMA RegsOfFilled ==
  ASSUME NEW S \in SUBSET Hash
  PROVE  Filled(RegsOf(S), S)
<1> DEFINE Ranks(i) == {0} \cup {RhoOf[h] : h \in {g \in S : IdxOf[g] = i}}
<1>1. ASSUME NEW i \in Idx
      PROVE  /\ RegsOf(S)[i] = Max(Ranks(i))
             /\ Max(Ranks(i)) \in Ranks(i)
             /\ Ranks(i) \in SUBSET (0 .. MaxRho)
             /\ \A x \in Ranks(i) : x <= Max(Ranks(i))
  <2>1. RegsOf(S)[i] = Max(Ranks(i))
    BY DEF RegsOf
  <2>2. Ranks(i) \in SUBSET (0 .. MaxRho)
    <3>1. ASSUME NEW h \in S
          PROVE  RhoOf[h] \in 0 .. MaxRho
      BY Constants
    <3>2. 0 \in 0 .. MaxRho
      BY Constants
    <3>3. QED
      BY <3>1, <3>2
  <2>3. Ranks(i) # {}
    OBVIOUS
  <2>4. MaxRho \in Nat
    BY Constants
  <2> HIDE DEF Ranks
  <2>5. QED
    BY <2>1, <2>2, <2>3, <2>4, LargestOf
<1>2. RegsOf(S) \in RegMap
  <2>1. \A i \in Idx : RegsOf(S)[i] \in 0 .. MaxRho
    <3> HIDE DEF Ranks
    <3>1. QED
      BY <1>1
  <2>2. RegsOf(S) = [i \in Idx |-> RegsOf(S)[i]]
    BY DEF RegsOf
  <2> QED
    BY <2>1, <2>2 DEF RegMap
<1>3. ASSUME NEW h \in S
      PROVE  RegsOf(S)[IdxOf[h]] >= RhoOf[h]
  <2>1. IdxOf[h] \in Idx
    BY Constants
  <2>2. RhoOf[h] \in Ranks(IdxOf[h])
    OBVIOUS
  <2> HIDE DEF Ranks
  <2>3. QED
    BY <1>1, <2>1, <2>2
<1>4. ASSUME NEW i \in Idx
      PROVE  RegsOf(S)[i] = 0 \/ \E h \in S : IdxOf[h] = i /\ RhoOf[h] = RegsOf(S)[i]
  <2>1. RegsOf(S)[i] \in Ranks(i)
    <3> HIDE DEF Ranks
    <3>1. QED
      BY <1>1
  <2>2. QED
    BY <2>1
<1>5. QED
  BY <1>2, <1>3, <1>4 DEF Filled, OnlyFrom

LEMMA FilledUnique ==
  ASSUME NEW S \in SUBSET Hash, NEW r, NEW q, Filled(r, S), Filled(q, S)
  PROVE  r = q
<1>1. ASSUME NEW i \in Idx
      PROVE  r[i] = q[i]
  <2>1. r[i] \in Nat /\ q[i] \in Nat
    BY DEF Filled, OnlyFrom, RegMap
  <2>2. \A h \in S : RhoOf[h] \in Nat
    BY Constants
  <2>3. r[i] <= q[i]
    BY <2>1, <2>2 DEF Filled, OnlyFrom
  <2>4. q[i] <= r[i]
    BY <2>1, <2>2 DEF Filled, OnlyFrom
  <2>5. QED
    BY <2>1, <2>3, <2>4
<1>2. QED
  BY <1>1 DEF Filled, OnlyFrom, RegMap

LEMMA RegsOfUnion ==
  ASSUME NEW S \in SUBSET Hash, NEW T \in SUBSET Hash
  PROVE  RegsOf(S \cup T) = Join(RegsOf(S), RegsOf(T))
<1> DEFINE r == RegsOf(S)
           q == RegsOf(T)
<1>1. Filled(r, S) /\ Filled(q, T)
  BY RegsOfFilled
<1> HIDE DEF r, q
<1>2. Join(r, q) \in RegMap
  BY <1>1 DEF Filled, OnlyFrom, RegMap, Join
<1>3. \A i \in Idx : r[i] \in Nat /\ q[i] \in Nat
  BY <1>1 DEF Filled, OnlyFrom, RegMap
<1>4. ASSUME NEW h \in S \cup T
      PROVE  Join(r, q)[IdxOf[h]] >= RhoOf[h]
  <2>1. IdxOf[h] \in Idx /\ RhoOf[h] \in Nat
    BY Constants
  <2>2. Join(r, q)[IdxOf[h]] >= r[IdxOf[h]] /\ Join(r, q)[IdxOf[h]] >= q[IdxOf[h]]
    BY <1>3, <2>1 DEF Join
  <2>3. Join(r, q)[IdxOf[h]] \in Nat
    BY <1>3, <2>1 DEF Join
  <2>4. h \in S => r[IdxOf[h]] >= RhoOf[h]
    BY <1>1 DEF Filled, OnlyFrom
  <2>5. h \in T => q[IdxOf[h]] >= RhoOf[h]
    BY <1>1 DEF Filled, OnlyFrom
  <2>6. QED
    BY <1>3, <2>1, <2>2, <2>3, <2>4, <2>5
<1>5. ASSUME NEW i \in Idx
      PROVE  Join(r, q)[i] = 0
               \/ \E h \in S \cup T : IdxOf[h] = i /\ RhoOf[h] = Join(r, q)[i]
  <2>1. Join(r, q)[i] = r[i] \/ Join(r, q)[i] = q[i]
    BY DEF Join
  <2>2. r[i] = 0 \/ \E h \in S : IdxOf[h] = i /\ RhoOf[h] = r[i]
    BY <1>1 DEF Filled, OnlyFrom
  <2>3. q[i] = 0 \/ \E h \in T : IdxOf[h] = i /\ RhoOf[h] = q[i]
    BY <1>1 DEF Filled, OnlyFrom
  <2>4. QED
    BY <2>1, <2>2, <2>3
<1>6. Filled(Join(r, q), S \cup T)
  BY <1>2, <1>4, <1>5 DEF Filled, OnlyFrom
<1>7. Filled(RegsOf(S \cup T), S \cup T)
  BY RegsOfFilled
<1>8. QED
  BY <1>6, <1>7, FilledUnique DEF r, q

LEMMA RegsOfNothing ==
  RegsOf({}) = Zero
<1>1. Filled(Zero, {})
  BY Constants DEF Filled, OnlyFrom, Zero, RegMap
<1>2. Filled(RegsOf({}), {})
  BY RegsOfFilled
<1>3. QED
  BY <1>1, <1>2, FilledUnique

\* One register raised is one hash absorbed.
LEMMA SetRegisterMaxJoins ==
  ASSUME NEW r \in RegMap, NEW h \in Hash
  PROVE  /\ SetRegisterMax(r, h) = Join(r, RegsOf({h}))
         /\ SetRegisterMax(r, h) \in RegMap
         /\ SetRegisterMax(r, h)[IdxOf[h]] >= RhoOf[h]
         /\ \A i \in Idx : SetRegisterMax(r, h)[i] >= r[i]
         /\ \A i \in Idx : SetRegisterMax(r, h)[i] = r[i]
                             \/ (i = IdxOf[h] /\ SetRegisterMax(r, h)[i] = RhoOf[h])
<1> DEFINE q == RegsOf({h})
           s == SetRegisterMax(r, h)
<1>1. Filled(q, {h})
  BY RegsOfFilled
<1>2. /\ IdxOf[h] \in Idx /\ RhoOf[h] \in 1 .. MaxRho /\ RhoOf[h] \in Nat
      /\ \A i \in Idx : r[i] \in Nat /\ q[i] \in Nat /\ r[i] \in 0 .. MaxRho
  <2> HIDE DEF q
  <2>1. QED
    BY <1>1, Constants DEF Filled, OnlyFrom, RegMap
<1>3. ASSUME NEW i \in Idx
      PROVE  q[i] = IF i = IdxOf[h] THEN RhoOf[h] ELSE 0
  <2> HIDE DEF q
  <2>1. i # IdxOf[h] => q[i] = 0
    BY <1>1 DEF Filled, OnlyFrom
  <2>2. q[IdxOf[h]] >= RhoOf[h] /\ (q[IdxOf[h]] = 0 \/ q[IdxOf[h]] = RhoOf[h])
    BY <1>1, <1>2 DEF Filled, OnlyFrom
  <2>3. q[IdxOf[h]] = RhoOf[h]
    BY <1>2, <2>2
  <2>4. QED
    BY <2>1, <2>3
<1>4. s = [i \in Idx |-> IF i = IdxOf[h] /\ RhoOf[h] > r[i] THEN RhoOf[h] ELSE r[i]]
  BY <1>2 DEF SetRegisterMax, RegMap
<1> HIDE DEF q, s
<1>5. s \in RegMap
  BY <1>2, <1>4 DEF RegMap
<1>6. \A i \in Idx : s[i] = IF r[i] >= q[i] THEN r[i] ELSE q[i]
  BY <1>2, <1>3, <1>4
<1>7. s = Join(r, q)
  BY <1>4, <1>6 DEF Join
<1>8. s[IdxOf[h]] >= RhoOf[h]
  BY <1>2, <1>4
<1>9. \A i \in Idx : s[i] >= r[i] /\ (s[i] = r[i] \/ (i = IdxOf[h] /\ s[i] = RhoOf[h]))
  BY <1>2, <1>4
<1>10. QED
  BY <1>5, <1>7, <1>8, <1>9 DEF q, s

\* What was left of a set once it had been registers decides as much.
LEMMA DecidingCovers ==
  ASSUME NEW S \in SUBSET Hash, NEW h \in S
  PROVE  \E g \in Deciding(S) : Covers(g, h)
<1> DEFINE Ranks == {RhoOf[g] : g \in {f \in S : IdxOf[f] = IdxOf[h]}}
<1>1. \A g \in S : RhoOf[g] \in 0 .. MaxRho
  BY Constants
<1>2. Ranks \in SUBSET (0 .. MaxRho) /\ RhoOf[h] \in Ranks
  <2>1. Ranks \subseteq 0 .. MaxRho
    BY <1>1
  <2>2. QED
    BY <2>1
<1>3. Max(Ranks) \in Ranks /\ \A x \in Ranks : x <= Max(Ranks)
  <2> HIDE DEF Ranks
  <2>1. QED
    BY <1>2, Constants, LargestOf
<1>4. PICK g \in S : IdxOf[g] = IdxOf[h] /\ RhoOf[g] = Max(Ranks)
  BY <1>3
<1>5. \A f \in S : IdxOf[f] = IdxOf[g] => RhoOf[f] <= RhoOf[g]
  <2>1. \A f \in S : IdxOf[f] = IdxOf[g] => RhoOf[f] \in Ranks
    BY <1>4
  <2> HIDE DEF Ranks
  <2>2. QED
    BY <1>3, <1>4, <2>1
<1>6. g \in Deciding(S)
  BY <1>4, <1>5 DEF Deciding
<1>7. RhoOf[g] >= RhoOf[h]
  <2>1. RhoOf[g] \in Nat /\ RhoOf[h] \in Nat
    BY Constants
  <2>2. QED
    BY <1>5, <1>4, <2>1
<1>8. QED
  BY <1>4, <1>6, <1>7 DEF Covers

------------------------------------------------------------------------------
(* Types *)

LEMMA IncomingType ==
  ASSUME SketchTyped, NEW in \in usage.incoming
  PROVE  in.hashes \in SUBSET Hash /\ in.format \in {"sparse", "dense"}
<1>1. usage.incoming \in SUBSET SketchGiven
  BY HllppAssumption DEF SketchTyped
<1>2. in \in SketchGiven
  BY <1>1
<1>3. QED
  BY <1>2 DEF SketchGiven

LEMMA RegistersType ==
  /\ Zero \in RegMap /\ Zero # Nil
  /\ \A S \in SUBSET Hash : RegsOf(S) \in RegMap /\ RegsOf(S) # Nil
  /\ \A r \in RegMap, h \in Hash : SetRegisterMax(r, h) \in RegMap /\ SetRegisterMax(r, h) # Nil
<1>1. Zero \in RegMap
  BY Constants DEF Zero, RegMap
<1>2. \A S \in SUBSET Hash : RegsOf(S) \in RegMap
  BY RegsOfFilled DEF Filled
<1>3. \A r \in RegMap, h \in Hash : SetRegisterMax(r, h) \in RegMap
  BY SetRegisterMaxJoins
<1>4. QED
  BY <1>1, <1>2, <1>3, Constants

LEMMA TypeInit ==
  Init => SketchTyped
BY DEF Init, SketchTyped, PC

LEMMA RegisterPlaced ==
  ASSUME SketchTyped, FormatInv, NEW t \in Threads, MergeRegs(t), todo[t] # {}
  PROVE  /\ dense \in RegMap /\ dense' \in RegMap /\ dense' # Nil
         /\ \E h \in todo[t] : /\ dense' = SetRegisterMax(dense, h)
                             /\ todo' = [todo EXCEPT ![t] = @ \ {h}]
<1>1. dense \in RegMap
  BY DEF SketchTyped, FormatInv, MergeRegs, At
<1>2. PICK h \in todo[t] : /\ dense' = SetRegisterMax(dense, h)
                          /\ todo' = [todo EXCEPT ![t] = @ \ {h}]
  BY DEF MergeRegs
<1>3. h \in Hash
  BY DEF SketchTyped
<1>4. QED
  BY <1>1, <1>2, <1>3, RegistersType

LEMMA RegisterRaised ==
  ASSUME SketchTyped, NEW t \in Threads, InsertDense(t), dense # Nil
  PROVE  /\ dense \in RegMap /\ dense' \in RegMap /\ dense' # Nil
         /\ \E h \in arg[t] : dense' = SetRegisterMax(dense, h)
<1>1. PICK h \in arg[t] : dense' = SetRegisterMax(dense, h)
  BY DEF InsertDense
<1>2. h \in Hash /\ dense \in RegMap
  BY DEF SketchTyped
<1>3. QED
  BY <1>1, <1>2, RegistersType

LEMMA TypeStep ==
  ASSUME SketchTyped, FormatInv, [Next]_vars
  PROVE  SketchTyped'
<1>1. ASSUME NEW t \in Threads, NEW h \in Hash, CallInsert(t, h), UNCHANGED usage
      PROVE  SketchTyped'
  BY <1>1 DEF SketchTyped, PC, CallInsert, At, Goto, BeginUpdate, repr, locks
<1>2. ASSUME NEW t \in Threads, NEW in \in usage.incoming, CallMerge(t, in), UNCHANGED usage
      PROVE  SketchTyped'
  BY <1>2, IncomingType DEF SketchTyped, PC, CallMerge, At, Goto, BeginUpdate, repr, locks
<1>3. ASSUME NEW t \in Threads, CallElements(t), UNCHANGED usage
      PROVE  SketchTyped'
  BY <1>3 DEF SketchTyped, PC, CallElements, At, Goto, BeginRead, repr, locks
<1>4. ASSUME NEW t \in Threads, CallExport(t), UNCHANGED usage
      PROVE  SketchTyped'
  BY <1>4 DEF SketchTyped, PC, CallExport, At, Goto, BeginRead, repr, locks
<1>5. ASSUME NEW t \in Threads, CallReset(t), UNCHANGED usage
      PROVE  SketchTyped'
  BY <1>5 DEF SketchTyped, PC, CallReset, At, Goto, repr, locks, locals, history
<1>6. ASSUME NEW t \in Threads, LoadSparse(t), UNCHANGED usage
      PROVE  SketchTyped'
  BY <1>6 DEF SketchTyped, PC, LoadSparse, At, Goto, repr, locks, locals, history
<1>7. ASSUME NEW t \in Threads, InsertSparse(t), UNCHANGED usage
      PROVE  SketchTyped'
  BY <1>7 DEF SketchTyped, PC, InsertSparse, At, Goto, SparseFree, locks, locals, history
<1>8. ASSUME NEW t \in Threads, CheckLen(t), UNCHANGED usage
      PROVE  SketchTyped'
  BY <1>8, ZenonT(30) DEF SketchTyped, PC, CheckLen, At, Goto, Return, SparseFree, repr, locks,
       locals, history
<1>9. ASSUME NEW t \in Threads, LockConvert(t), UNCHANGED usage
      PROVE  SketchTyped'
  BY <1>9, ZenonT(30) DEF SketchTyped, PC, LockConvert, At, Goto, Return, repr, locals, history
<1>10. ASSUME NEW t \in Threads, InsertDense(t), UNCHANGED usage
      PROVE  SketchTyped'
  <2>1. CASE dense = Nil
    BY <2>1, <1>10 DEF SketchTyped, PC, InsertDense, Crash, repr, locks, locals, history
  <2>2. CASE dense # Nil
    <3>1. dense' \in RegMap
      BY <2>2, <1>10, RegisterRaised
    <3>2. QED
      BY <2>2, <3>1, <1>10, ZenonT(30) DEF SketchTyped, PC, InsertDense, At, Goto, Return, locks
  <2>3. QED
    BY <2>1, <2>2
<1>11. ASSUME NEW t \in Threads, ConvMerge(t), UNCHANGED usage
      PROVE  SketchTyped'
  BY <1>11 DEF SketchTyped, PC, ConvMerge, At, Goto, MergeTempSet, SparseFree, locks, locals,
       history
<1>12. ASSUME NEW t \in Threads, ConvCopy(t), UNCHANGED usage
      PROVE  SketchTyped'
  BY <1>12 DEF SketchTyped, PC, ConvCopy, At, Goto, SparseFree, repr, locks, history
<1>13. ASSUME NEW t \in Threads, ConvFormat(t), UNCHANGED usage
      PROVE  SketchTyped'
  BY <1>13 DEF SketchTyped, PC, ConvFormat, At, Goto, locks, locals, history
<1>14. ASSUME NEW t \in Threads, ConvDense(t), UNCHANGED usage
      PROVE  SketchTyped'
  BY <1>14, RegistersType DEF SketchTyped, PC, ConvDense, At, Goto, locks, history
<1>15. ASSUME NEW t \in Threads, ConvDrop(t), UNCHANGED usage
      PROVE  SketchTyped'
  BY <1>15, ZenonT(30) DEF SketchTyped, PC, ConvDrop, At, Goto, Return, locks, locals, history
<1>16. ASSUME NEW t \in Threads, ElemLoad(t), UNCHANGED usage
      PROVE  SketchTyped'
  BY <1>16 DEF SketchTyped, PC, ElemLoad, At, Goto, Crash, repr, locks, locals, history
<1>17. ASSUME NEW t \in Threads, ElemSparse(t), UNCHANGED usage
      PROVE  SketchTyped'
  BY <1>17 DEF SketchTyped, PC, ElemSparse, At, Return, MergeTempSet, SparseFree, locks, Goto
<1>18. ASSUME NEW t \in Threads, ElemDense(t), UNCHANGED usage
      PROVE  SketchTyped'
  <2>1. CASE Crash
    BY <2>1, <1>18 DEF SketchTyped, Crash, repr, locks, locals, history
  <2>2. CASE Return(t) /\ UNCHANGED <<repr, locks, todo, snap, crashed>>
    BY <2>2, <1>18 DEF SketchTyped, PC, Return, repr, locks, Goto
  <2>3. QED
    BY <1>18, <2>1, <2>2 DEF ElemDense
<1>19. ASSUME NEW t \in Threads, ExpLock(t), UNCHANGED usage
      PROVE  SketchTyped'
  BY <1>19 DEF SketchTyped, PC, ExpLock, At, Goto, repr, locals, history
<1>20. ASSUME NEW t \in Threads, ExpMerge(t), UNCHANGED usage
      PROVE  SketchTyped'
  BY <1>20 DEF SketchTyped, PC, ExpMerge, At, Goto, MergeTempSet, SparseFree, locks, locals,
       history
<1>21. ASSUME NEW t \in Threads, ExpCopy(t), UNCHANGED usage
      PROVE  SketchTyped'
  BY <1>21 DEF SketchTyped, PC, ExpCopy, At, Return, SparseFree, repr, Goto
<1>22. ASSUME NEW t \in Threads, ExpDense(t), UNCHANGED usage
      PROVE  SketchTyped'
  BY <1>22 DEF SketchTyped, PC, ExpDense, At, Return, repr, locks, Goto, locals, history
<1>23. ASSUME NEW t \in Threads, MergeLock(t), UNCHANGED usage
      PROVE  SketchTyped'
  BY <1>23 DEF SketchTyped, PC, MergeLock, At, Goto, Deciding, repr, history
<1>24. ASSUME NEW t \in Threads, MergeBoth(t), UNCHANGED usage
      PROVE  SketchTyped'
  BY <1>24, ZenonT(30) DEF SketchTyped, PC, MergeBoth, At, Goto, Return, SparseFree, locals,
       history
<1>25. ASSUME NEW t \in Threads, MergeRegs(t), UNCHANGED usage
      PROVE  SketchTyped'
  <2>1. CASE todo[t] = {}
    BY <2>1, <1>25, ZenonT(30) DEF SketchTyped, PC, MergeRegs, At, Goto, Return
  <2>2. CASE todo[t] # {}
    <3>1. dense' \in RegMap /\ \E h \in todo[t] : todo' = [todo EXCEPT ![t] = @ \ {h}]
      BY <2>2, <1>25, RegisterPlaced
    <3>2. todo' \in [Threads -> SUBSET Hash]
      BY <3>1 DEF SketchTyped
    <3>3. QED
      BY <2>2, <3>1, <3>2, <1>25 DEF SketchTyped, MergeRegs, locks, history
  <2>3. QED
    BY <2>1, <2>2
<1>26. ASSUME NEW t \in Threads, ResetLock(t), UNCHANGED usage
      PROVE  SketchTyped'
  BY <1>26 DEF SketchTyped, PC, ResetLock, At, Goto, repr, locals, history
<1>27. ASSUME NEW t \in Threads, ResetSparse(t), UNCHANGED usage
      PROVE  SketchTyped'
  BY <1>27 DEF SketchTyped, PC, ResetSparse, At, Goto, ForgetAll, SparseFree, locals
<1>28. ASSUME NEW t \in Threads, ResetDense(t), UNCHANGED usage
      PROVE  SketchTyped'
  BY <1>28, RegistersType DEF SketchTyped, PC, ResetDense, At, Goto, ForgetAll, locals
<1>29. CASE UNCHANGED vars
  BY <1>29 DEF SketchTyped, PC, vars, repr, locks, locals, history
<1>30. ASSUME NEW t \in Threads, ExpRegs(t), UNCHANGED usage
      PROVE  SketchTyped'
  BY <1>30 DEF SketchTyped, PC, ExpRegs, At, Return, repr, locks, Goto
<1>31. QED
  BY <1>1, <1>2, <1>3, <1>4, <1>5, <1>6, <1>7, <1>8, <1>9, <1>10, <1>11, <1>12, <1>13, <1>14,
       <1>15, <1>16, <1>17, <1>18, <1>19, <1>20, <1>21, <1>22, <1>23, <1>24, <1>25, <1>26,
       <1>27, <1>28, <1>29, <1>30 DEF Next, Call, Step, Convert

------------------------------------------------------------------------------
(* The lock and what it protects, for every usage *)

LEMMA FreeLock == HMuFree => hMu = NoThread
BY DEF HMuFree

LEMMA LockStep ==
  ASSUME SketchTyped, LockInv, [Next]_vars
  PROVE  LockInv'
<1>1. ASSUME NEW t \in Threads, NEW h \in Hash, CallInsert(t, h), UNCHANGED usage
      PROVE  LockInv'
  BY <1>1, Constants DEF SketchTyped, LockInv, Holding, Converting, CallInsert, At, Goto,
       BeginUpdate, repr, locks
<1>2. ASSUME NEW t \in Threads, NEW in \in usage.incoming, CallMerge(t, in), UNCHANGED usage
      PROVE  LockInv'
  BY <1>2, Constants DEF SketchTyped, LockInv, Holding, Converting, CallMerge, At, Goto,
       BeginUpdate, repr, locks
<1>3. ASSUME NEW t \in Threads, CallElements(t), UNCHANGED usage
      PROVE  LockInv'
  BY <1>3, Constants DEF SketchTyped, LockInv, Holding, Converting, CallElements, At, Goto,
       BeginRead, repr, locks
<1>4. ASSUME NEW t \in Threads, CallExport(t), UNCHANGED usage
      PROVE  LockInv'
  BY <1>4, Constants DEF SketchTyped, LockInv, Holding, Converting, CallExport, At, Goto,
       BeginRead, repr, locks
<1>5. ASSUME NEW t \in Threads, CallReset(t), UNCHANGED usage
      PROVE  LockInv'
  BY <1>5, Constants DEF SketchTyped, LockInv, Holding, Converting, CallReset, At, Goto, repr,
       locks, locals, history
<1>6. ASSUME NEW t \in Threads, LoadSparse(t), UNCHANGED usage
      PROVE  LockInv'
  BY <1>6, Constants DEF SketchTyped, LockInv, Holding, Converting, LoadSparse, At, Goto, repr,
       locks, locals, history
<1>7. ASSUME NEW t \in Threads, InsertSparse(t), UNCHANGED usage
      PROVE  LockInv'
  BY <1>7, Constants DEF SketchTyped, LockInv, Holding, Converting, InsertSparse, At, Goto,
       SparseFree, locks, locals, history
<1>8. ASSUME NEW t \in Threads, CheckLen(t), UNCHANGED usage
      PROVE  LockInv'
  BY <1>8, Constants DEF SketchTyped, LockInv, Holding, Converting, CheckLen, At, Goto, Return,
       SparseFree, repr, locks, locals, history
<1>9. ASSUME NEW t \in Threads, LockConvert(t), UNCHANGED usage
      PROVE  LockInv'
  BY <1>9, Constants, FreeLock DEF SketchTyped, LockInv, Holding, Converting, LockConvert, At,
       Goto, Return, repr, locals, history
<1>10. ASSUME NEW t \in Threads, InsertDense(t), UNCHANGED usage
      PROVE  LockInv'
  BY <1>10, Constants DEF SketchTyped, LockInv, Holding, Converting, InsertDense, At, Return,
       Crash, SetRegisterMax, locks, repr, locals, history, Goto
<1>11. ASSUME NEW t \in Threads, ConvMerge(t), UNCHANGED usage
      PROVE  LockInv'
  BY <1>11, Constants DEF SketchTyped, LockInv, Holding, Converting, ConvMerge, At, Goto,
       MergeTempSet, SparseFree, locks, locals, history
<1>12. ASSUME NEW t \in Threads, ConvCopy(t), UNCHANGED usage
      PROVE  LockInv'
  BY <1>12, Constants DEF SketchTyped, LockInv, Holding, Converting, ConvCopy, At, Goto,
       SparseFree, repr, locks, history
<1>13. ASSUME NEW t \in Threads, ConvFormat(t), UNCHANGED usage
      PROVE  LockInv'
  BY <1>13, Constants DEF SketchTyped, LockInv, Holding, Converting, ConvFormat, At, Goto,
       locks, locals, history
<1>14. ASSUME NEW t \in Threads, ConvDense(t), UNCHANGED usage
      PROVE  LockInv'
  BY <1>14, Constants DEF SketchTyped, LockInv, Holding, Converting, ConvDense, At, Goto, locks,
       history
<1>15. ASSUME NEW t \in Threads, ConvDrop(t), UNCHANGED usage
      PROVE  LockInv'
  BY <1>15, Constants DEF SketchTyped, LockInv, Holding, Converting, ConvDrop, At, Goto, Return,
       locks, locals, history
<1>16. ASSUME NEW t \in Threads, ElemLoad(t), UNCHANGED usage
      PROVE  LockInv'
  BY <1>16, Constants DEF SketchTyped, LockInv, Holding, Converting, ElemLoad, At, Goto, Crash,
       repr, locks, locals, history
<1>17. ASSUME NEW t \in Threads, ElemSparse(t), UNCHANGED usage
      PROVE  LockInv'
  BY <1>17, Constants DEF SketchTyped, LockInv, Holding, Converting, ElemSparse, At, Return,
       MergeTempSet, SparseFree, locks, Goto
<1>18. ASSUME NEW t \in Threads, ElemDense(t), UNCHANGED usage
      PROVE  LockInv'
  BY <1>18, Constants DEF SketchTyped, LockInv, Holding, Converting, ElemDense, At, Return,
       Crash, repr, locks, locals, history, Goto
<1>19. ASSUME NEW t \in Threads, ExpLock(t), UNCHANGED usage
      PROVE  LockInv'
  BY <1>19, Constants, FreeLock DEF SketchTyped, LockInv, Holding, Converting, ExpLock, At,
       Goto, repr, locals, history
<1>20. ASSUME NEW t \in Threads, ExpMerge(t), UNCHANGED usage
      PROVE  LockInv'
  BY <1>20, Constants DEF SketchTyped, LockInv, Holding, Converting, ExpMerge, At, Goto,
       MergeTempSet, SparseFree, locks, locals, history
<1>21. ASSUME NEW t \in Threads, ExpCopy(t), UNCHANGED usage
      PROVE  LockInv'
  BY <1>21, Constants DEF SketchTyped, LockInv, Holding, Converting, ExpCopy, At, Return,
       SparseFree, repr, Goto
<1>22. ASSUME NEW t \in Threads, ExpDense(t), UNCHANGED usage
      PROVE  LockInv'
  BY <1>22, Constants DEF SketchTyped, LockInv, Holding, Converting, ExpDense, At, Return, repr,
       locks, Goto, locals, history
<1>23. ASSUME NEW t \in Threads, MergeLock(t), UNCHANGED usage
      PROVE  LockInv'
  BY <1>23, Constants, FreeLock DEF SketchTyped, LockInv, Holding, Converting, MergeLock, At,
       Goto, Deciding, repr, history
<1>24. ASSUME NEW t \in Threads, MergeBoth(t), UNCHANGED usage
      PROVE  LockInv'
  BY <1>24, Constants DEF SketchTyped, LockInv, Holding, Converting, MergeBoth, At, Goto,
       Return, SparseFree, locals, history
<1>25. ASSUME NEW t \in Threads, MergeRegs(t), UNCHANGED usage
      PROVE  LockInv'
  BY <1>25, Constants DEF SketchTyped, LockInv, Holding, Converting, MergeRegs, At, Return,
       SetRegisterMax, locks, history, Goto
<1>26. ASSUME NEW t \in Threads, ResetLock(t), UNCHANGED usage
      PROVE  LockInv'
  BY <1>26, Constants, FreeLock DEF SketchTyped, LockInv, Holding, Converting, ResetLock, At,
       Goto, repr, locals, history
<1>27. ASSUME NEW t \in Threads, ResetSparse(t), UNCHANGED usage
      PROVE  LockInv'
  BY <1>27, Constants DEF SketchTyped, LockInv, Holding, Converting, ResetSparse, At, Goto,
       ForgetAll, SparseFree, locals
<1>28. ASSUME NEW t \in Threads, ResetDense(t), UNCHANGED usage
      PROVE  LockInv'
  BY <1>28, Constants DEF SketchTyped, LockInv, Holding, Converting, ResetDense, At, Goto,
       ForgetAll, locals
<1>29. CASE UNCHANGED vars
  BY <1>29 DEF SketchTyped, LockInv, Holding, Converting, vars, repr, locks, locals, history
<1>30. ASSUME NEW t \in Threads, ExpRegs(t), UNCHANGED usage
      PROVE  LockInv'
  BY <1>30, Constants DEF SketchTyped, LockInv, Holding, Converting, ExpRegs, At, Return, repr,
       locks, Goto
<1>31. QED
  BY <1>1, <1>2, <1>3, <1>4, <1>5, <1>6, <1>7, <1>8, <1>9, <1>10, <1>11, <1>12, <1>13, <1>14,
       <1>15, <1>16, <1>17, <1>18, <1>19, <1>20, <1>21, <1>22, <1>23, <1>24, <1>25, <1>26,
       <1>27, <1>28, <1>29, <1>30 DEF Next, Call, Step, Convert

LEMMA FormatStep ==
  ASSUME SketchTyped, LockInv, FormatInv, [Next]_vars
  PROVE  FormatInv'
<1>1. ASSUME NEW t \in Threads, NEW h \in Hash, CallInsert(t, h), UNCHANGED usage
      PROVE  FormatInv'
  BY <1>1, Constants, RegistersType DEF SketchTyped, LockInv, FormatInv, Holding, Converting,
       CallInsert, At, Goto, BeginUpdate, repr, locks
<1>2. ASSUME NEW t \in Threads, NEW in \in usage.incoming, CallMerge(t, in), UNCHANGED usage
      PROVE  FormatInv'
  BY <1>2, Constants, RegistersType DEF SketchTyped, LockInv, FormatInv, Holding, Converting,
       CallMerge, At, Goto, BeginUpdate, repr, locks
<1>3. ASSUME NEW t \in Threads, CallElements(t), UNCHANGED usage
      PROVE  FormatInv'
  BY <1>3, Constants, RegistersType DEF SketchTyped, LockInv, FormatInv, Holding, Converting,
       CallElements, At, Goto, BeginRead, repr, locks
<1>4. ASSUME NEW t \in Threads, CallExport(t), UNCHANGED usage
      PROVE  FormatInv'
  BY <1>4, Constants, RegistersType DEF SketchTyped, LockInv, FormatInv, Holding, Converting,
       CallExport, At, Goto, BeginRead, repr, locks
<1>5. ASSUME NEW t \in Threads, CallReset(t), UNCHANGED usage
      PROVE  FormatInv'
  BY <1>5, Constants, RegistersType DEF SketchTyped, LockInv, FormatInv, Holding, Converting,
       CallReset, At, Goto, repr, locks, locals, history
<1>6. ASSUME NEW t \in Threads, LoadSparse(t), UNCHANGED usage
      PROVE  FormatInv'
  BY <1>6, Constants, RegistersType DEF SketchTyped, LockInv, FormatInv, Holding, Converting,
       LoadSparse, At, Goto, repr, locks, locals, history
<1>7. ASSUME NEW t \in Threads, InsertSparse(t), UNCHANGED usage
      PROVE  FormatInv'
  BY <1>7, Constants, RegistersType DEF SketchTyped, LockInv, FormatInv, Holding, Converting,
       InsertSparse, At, Goto, SparseFree, locks, locals, history
<1>8. ASSUME NEW t \in Threads, CheckLen(t), UNCHANGED usage
      PROVE  FormatInv'
  BY <1>8, Constants, RegistersType DEF SketchTyped, LockInv, FormatInv, Holding, Converting,
       CheckLen, At, Goto, Return, SparseFree, repr, locks, locals, history
<1>9. ASSUME NEW t \in Threads, LockConvert(t), UNCHANGED usage
      PROVE  FormatInv'
  BY <1>9, Constants, FreeLock, RegistersType DEF SketchTyped, LockInv, FormatInv, Holding,
       Converting, LockConvert, At, Goto, Return, repr, locals, history
<1>10. ASSUME NEW t \in Threads, InsertDense(t), UNCHANGED usage
      PROVE  FormatInv'
  <2>1. CASE dense = Nil
    BY <2>1, <1>10 DEF FormatInv, InsertDense, Crash, repr, locks, locals, history
  <2>2. CASE dense # Nil
    <3>1. dense' # Nil
      BY <2>2, <1>10, RegisterRaised
    <3>2. QED
      BY <2>2, <3>1, <1>10 DEF SketchTyped, FormatInv, InsertDense, At, Return, Goto
  <2>3. QED
    BY <2>1, <2>2
<1>11. ASSUME NEW t \in Threads, ConvMerge(t), UNCHANGED usage
      PROVE  FormatInv'
  BY <1>11, Constants, RegistersType DEF SketchTyped, LockInv, FormatInv, Holding, Converting,
       ConvMerge, At, Goto, MergeTempSet, SparseFree, locks, locals, history
<1>12. ASSUME NEW t \in Threads, ConvCopy(t), UNCHANGED usage
      PROVE  FormatInv'
  BY <1>12, Constants, RegistersType DEF SketchTyped, LockInv, FormatInv, Holding, Converting,
       ConvCopy, At, Goto, SparseFree, repr, locks, history
<1>13. ASSUME NEW t \in Threads, ConvFormat(t), UNCHANGED usage
      PROVE  FormatInv'
  BY <1>13, Constants, RegistersType DEF SketchTyped, LockInv, FormatInv, Holding, Converting,
       ConvFormat, At, Goto, locks, locals, history
<1>14. ASSUME NEW t \in Threads, ConvDense(t), UNCHANGED usage
      PROVE  FormatInv'
  BY <1>14, Constants, RegistersType DEF SketchTyped, LockInv, FormatInv, Holding, Converting,
       ConvDense, At, Goto, locks, history
<1>15. ASSUME NEW t \in Threads, ConvDrop(t), UNCHANGED usage
      PROVE  FormatInv'
  BY <1>15, Constants, RegistersType DEF SketchTyped, LockInv, FormatInv, Holding, Converting,
       ConvDrop, At, Goto, Return, locks, locals, history
<1>16. ASSUME NEW t \in Threads, ElemLoad(t), UNCHANGED usage
      PROVE  FormatInv'
  BY <1>16, Constants, RegistersType DEF SketchTyped, LockInv, FormatInv, Holding, Converting,
       ElemLoad, At, Goto, Crash, repr, locks, locals, history
<1>17. ASSUME NEW t \in Threads, ElemSparse(t), UNCHANGED usage
      PROVE  FormatInv'
  BY <1>17, Constants, RegistersType DEF SketchTyped, LockInv, FormatInv, Holding, Converting,
       ElemSparse, At, Return, MergeTempSet, SparseFree, locks, Goto
<1>18. ASSUME NEW t \in Threads, ElemDense(t), UNCHANGED usage
      PROVE  FormatInv'
  BY <1>18, Constants, RegistersType DEF SketchTyped, LockInv, FormatInv, Holding, Converting,
       ElemDense, At, Return, Crash, repr, locks, locals, history, Goto
<1>19. ASSUME NEW t \in Threads, ExpLock(t), UNCHANGED usage
      PROVE  FormatInv'
  BY <1>19, Constants, FreeLock, RegistersType DEF SketchTyped, LockInv, FormatInv, Holding,
       Converting, ExpLock, At, Goto, repr, locals, history
<1>20. ASSUME NEW t \in Threads, ExpMerge(t), UNCHANGED usage
      PROVE  FormatInv'
  BY <1>20, Constants, RegistersType DEF SketchTyped, LockInv, FormatInv, Holding, Converting,
       ExpMerge, At, Goto, MergeTempSet, SparseFree, locks, locals, history
<1>21. ASSUME NEW t \in Threads, ExpCopy(t), UNCHANGED usage
      PROVE  FormatInv'
  BY <1>21, Constants, RegistersType DEF SketchTyped, LockInv, FormatInv, Holding, Converting,
       ExpCopy, At, Return, SparseFree, repr, Goto
<1>22. ASSUME NEW t \in Threads, ExpDense(t), UNCHANGED usage
      PROVE  FormatInv'
  BY <1>22, Constants, RegistersType DEF SketchTyped, LockInv, FormatInv, Holding, Converting,
       ExpDense, At, Return, repr, locks, Goto, locals, history
<1>23. ASSUME NEW t \in Threads, MergeLock(t), UNCHANGED usage
      PROVE  FormatInv'
  BY <1>23, Constants, FreeLock, RegistersType DEF SketchTyped, LockInv, FormatInv, Holding,
       Converting, MergeLock, At, Goto, Deciding, repr, history
<1>24. ASSUME NEW t \in Threads, MergeBoth(t), UNCHANGED usage
      PROVE  FormatInv'
  BY <1>24, Constants, RegistersType DEF SketchTyped, LockInv, FormatInv, Holding, Converting,
       MergeBoth, At, Goto, Return, SparseFree, locals, history
<1>25. ASSUME NEW t \in Threads, MergeRegs(t), UNCHANGED usage
      PROVE  FormatInv'
  <2>1. CASE todo[t] = {}
    BY <2>1, <1>25, Constants DEF SketchTyped, LockInv, FormatInv, Holding, Converting,
         MergeRegs, At, Goto, Return
  <2>2. CASE todo[t] # {}
    <3>1. dense # Nil /\ dense' # Nil
      BY <2>2, <1>25, RegisterPlaced, Constants
    <3>2. QED
      BY <2>2, <3>1, <1>25 DEF FormatInv, MergeRegs, locks, history
  <2>3. QED
    BY <2>1, <2>2
<1>26. ASSUME NEW t \in Threads, ResetLock(t), UNCHANGED usage
      PROVE  FormatInv'
  BY <1>26, Constants, FreeLock, RegistersType DEF SketchTyped, LockInv, FormatInv, Holding,
       Converting, ResetLock, At, Goto, repr, locals, history
<1>27. ASSUME NEW t \in Threads, ResetSparse(t), UNCHANGED usage
      PROVE  FormatInv'
  BY <1>27, Constants, RegistersType DEF SketchTyped, LockInv, FormatInv, Holding, Converting,
       ResetSparse, At, Goto, ForgetAll, SparseFree, locals
<1>28. ASSUME NEW t \in Threads, ResetDense(t), UNCHANGED usage
      PROVE  FormatInv'
  BY <1>28, Constants, RegistersType DEF SketchTyped, LockInv, FormatInv, Holding, Converting,
       ResetDense, At, Goto, ForgetAll, locals
<1>29. CASE UNCHANGED vars
  BY <1>29 DEF SketchTyped, LockInv, FormatInv, Holding, Converting, vars, repr, locks, locals,
       history
<1>30. ASSUME NEW t \in Threads, ExpRegs(t), UNCHANGED usage
      PROVE  FormatInv'
  BY <1>30, Constants, RegistersType DEF SketchTyped, LockInv, FormatInv, Holding, Converting,
       ExpRegs, At, Return, repr, locks, Goto
<1>31. QED
  BY <1>1, <1>2, <1>3, <1>4, <1>5, <1>6, <1>7, <1>8, <1>9, <1>10, <1>11, <1>12, <1>13, <1>14,
       <1>15, <1>16, <1>17, <1>18, <1>19, <1>20, <1>21, <1>22, <1>23, <1>24, <1>25, <1>26,
       <1>27, <1>28, <1>29, <1>30 DEF Next, Call, Step, Convert

LEMMA LockInit ==
  Init => LockInv /\ FormatInv
BY Constants DEF Init, LockInv, FormatInv, Holding, Converting

\* The invariant that holds however the sketch is used.
SafeInv == SketchTyped /\ LockInv /\ FormatInv

LEMMA SafeInvariant ==
  Spec => []SafeInv
<1>1. Init => SafeInv
  BY TypeInit, LockInit DEF SafeInv
<1>2. SafeInv /\ [Next]_vars => SafeInv'
  BY TypeStep, LockStep, FormatStep DEF SafeInv
<1>3. QED
  BY <1>1, <1>2, PTL DEF Spec

\* Only an insert into the registers and a dense export touch what was seen.
LEMMA SeenTypedStep ==
  ASSUME SafeInv, SeenTyped, [Next]_vars
  PROVE  SeenTyped'
<1>1. ASSUME NEW t \in Threads, InsertDense(t)
      PROVE  SeenTyped'
  <2>1. CASE dense = Nil
    BY <1>1, <2>1 DEF InsertDense, SeenTyped
  <2>2. CASE dense # Nil
    <3>1. \A i \in Idx : dense'[i] \in 0 .. MaxRho
      BY <1>1, <2>2, RegisterRaised DEF SafeInv, RegMap
    <3>2. QED
      BY <1>1, <2>2, <3>1 DEF InsertDense, ShowCopiers, SeenTyped
  <2>3. QED
    BY <2>1, <2>2
<1>2. ASSUME NEW t \in Threads, ExpDense(t)
      PROVE  SeenTyped'
  <2>1. dense # Nil => \A i \in Idx : dense[i] \in 0 .. MaxRho
    BY DEF SafeInv, SketchTyped, RegMap
  <2>2. QED
    BY <1>2, <2>1 DEF ExpDense, SeenTyped
<1>3. ASSUME NEW t \in Threads, ExpRegs(t)
      PROVE  SeenTyped'
  BY <1>3 DEF ExpRegs, NothingSeen, SeenTyped
<1>4. CASE UNCHANGED seen
  BY <1>4 DEF SeenTyped
<1>5. QED
  BY <1>1, <1>2, <1>3, <1>4 DEF Next, Call, Step, vars

\* Every variable keeps its type.
THEOREM TypeCorrect ==
  Spec => []TypeOK
<1>1. Init => SeenTyped
  BY DEF Init, SeenTyped, NothingSeen
<1>2. SafeInv /\ SeenTyped => TypeOK
  BY DEF SafeInv, TypeOK
<1>3. QED
  BY <1>1, <1>2, SafeInvariant, SeenTypedStep, PTL DEF Spec

\* Whoever takes h.mu finds the format and both pointers in agreement: the
\* three stores of convertToDenseNoLock are only ever seen half done by code
\* that does not take the lock (Insert, GetElements).  This holds for every
\* mix of calls, with any number of inserters.
THEOREM StableUnderLockAlways ==
  Spec => []StableUnderLock
<1>1. SafeInv => StableUnderLock
  <2> SUFFICES ASSUME SafeInv, hMu = NoThread
               PROVE  (format = "dense" <=> dense # Nil) /\ (format = "dense" <=> sparseNil)
    BY DEF StableUnderLock
  <2>1. \A t \in Threads : pc[t] \notin {"convDense", "convDrop"}
    BY Constants DEF SafeInv, LockInv, Holding, Converting
  <2>2. QED
    BY <2>1 DEF SafeInv, SketchTyped, FormatInv
<1>2. QED
  BY <1>1, SafeInvariant, PTL

------------------------------------------------------------------------------
(* Nothing foreign, for every usage *)

LEMMA OnlyFromFacts ==
  ASSUME NEW S, NEW T, S \subseteq T
  PROVE  /\ OnlyFrom(Zero, S)
         /\ S \in SUBSET Hash => OnlyFrom(RegsOf(S), T)
         /\ \A r : OnlyFrom(r, S) => OnlyFrom(r, T)
         /\ \A r \in RegMap, h \in S \cap Hash :
              OnlyFrom(r, S) => OnlyFrom(SetRegisterMax(r, h), S)
<1>1. OnlyFrom(Zero, S)
  BY DEF OnlyFrom, Zero
<1>2. \A r : OnlyFrom(r, S) => OnlyFrom(r, T)
  BY DEF OnlyFrom
<1>3. ASSUME S \in SUBSET Hash
      PROVE  OnlyFrom(RegsOf(S), T)
  BY <1>2, <1>3, RegsOfFilled DEF Filled
<1>4. ASSUME NEW r \in RegMap, NEW h \in S \cap Hash, OnlyFrom(r, S)
      PROVE  OnlyFrom(SetRegisterMax(r, h), S)
  <2>1. \A i \in Idx : SetRegisterMax(r, h)[i] = r[i]
                       \/ (i = IdxOf[h] /\ SetRegisterMax(r, h)[i] = RhoOf[h])
    BY SetRegisterMaxJoins
  <2>2. QED
    BY <1>4, <2>1 DEF OnlyFrom
<1>5. QED
  BY <1>1, <1>2, <1>3, <1>4

LEMMA TodoStep ==
  ASSUME SketchTyped, FormatInv, TodoInv, [Next]_vars
  PROVE  TodoInv'
<1>1. ASSUME NEW t \in Threads, NEW h \in Hash, CallInsert(t, h), UNCHANGED usage
      PROVE  TodoInv'
  BY <1>1 DEF SketchTyped, TodoInv, Converting, CallInsert, At, Goto, BeginUpdate, repr, locks
<1>2. ASSUME NEW t \in Threads, NEW in \in usage.incoming, CallMerge(t, in), UNCHANGED usage
      PROVE  TodoInv'
  BY <1>2 DEF SketchTyped, TodoInv, Converting, CallMerge, At, Goto, BeginUpdate, repr, locks
<1>3. ASSUME NEW t \in Threads, CallElements(t), UNCHANGED usage
      PROVE  TodoInv'
  BY <1>3 DEF SketchTyped, TodoInv, Converting, CallElements, At, Goto, BeginRead, repr, locks
<1>4. ASSUME NEW t \in Threads, CallExport(t), UNCHANGED usage
      PROVE  TodoInv'
  BY <1>4 DEF SketchTyped, TodoInv, Converting, CallExport, At, Goto, BeginRead, repr, locks
<1>5. ASSUME NEW t \in Threads, CallReset(t), UNCHANGED usage
      PROVE  TodoInv'
  BY <1>5 DEF SketchTyped, TodoInv, Converting, CallReset, At, Goto, repr, locks, locals,
       history
<1>6. ASSUME NEW t \in Threads, LoadSparse(t), UNCHANGED usage
      PROVE  TodoInv'
  BY <1>6 DEF SketchTyped, TodoInv, Converting, LoadSparse, At, Goto, repr, locks, locals,
       history
<1>7. ASSUME NEW t \in Threads, InsertSparse(t), UNCHANGED usage
      PROVE  TodoInv'
  BY <1>7 DEF SketchTyped, TodoInv, Converting, InsertSparse, At, Goto, SparseFree, locks,
       locals, history
<1>8. ASSUME NEW t \in Threads, CheckLen(t), UNCHANGED usage
      PROVE  TodoInv'
  BY <1>8 DEF SketchTyped, TodoInv, Converting, CheckLen, At, Goto, Return, SparseFree, repr,
       locks, locals, history
<1>9. ASSUME NEW t \in Threads, LockConvert(t), UNCHANGED usage
      PROVE  TodoInv'
  BY <1>9 DEF SketchTyped, TodoInv, Converting, LockConvert, At, Goto, Return, repr, locals,
       history
<1>10. ASSUME NEW t \in Threads, InsertDense(t), UNCHANGED usage
      PROVE  TodoInv'
  BY <1>10 DEF SketchTyped, TodoInv, Converting, InsertDense, At, Return, Crash, SetRegisterMax,
       locks, repr, locals, history, Goto
<1>11. ASSUME NEW t \in Threads, ConvMerge(t), UNCHANGED usage
      PROVE  TodoInv'
  BY <1>11 DEF SketchTyped, TodoInv, Converting, ConvMerge, At, Goto, MergeTempSet, SparseFree,
       locks, locals, history
<1>12. ASSUME NEW t \in Threads, ConvCopy(t), UNCHANGED usage
      PROVE  TodoInv'
  BY <1>12 DEF SketchTyped, TodoInv, Converting, ConvCopy, At, Goto, SparseFree, repr, locks,
       history
<1>13. ASSUME NEW t \in Threads, ConvFormat(t), UNCHANGED usage
      PROVE  TodoInv'
  BY <1>13 DEF SketchTyped, TodoInv, Converting, ConvFormat, At, Goto, locks, locals, history
<1>14. ASSUME NEW t \in Threads, ConvDense(t), UNCHANGED usage
      PROVE  TodoInv'
  BY <1>14 DEF SketchTyped, TodoInv, Converting, ConvDense, At, Goto, locks, history
<1>15. ASSUME NEW t \in Threads, ConvDrop(t), UNCHANGED usage
      PROVE  TodoInv'
  BY <1>15 DEF SketchTyped, TodoInv, Converting, ConvDrop, At, Goto, Return, locks, locals,
       history
<1>16. ASSUME NEW t \in Threads, ElemLoad(t), UNCHANGED usage
      PROVE  TodoInv'
  BY <1>16 DEF SketchTyped, TodoInv, Converting, ElemLoad, At, Goto, Crash, repr, locks, locals,
       history
<1>17. ASSUME NEW t \in Threads, ElemSparse(t), UNCHANGED usage
      PROVE  TodoInv'
  BY <1>17 DEF SketchTyped, TodoInv, Converting, ElemSparse, At, Return, MergeTempSet,
       SparseFree, locks, Goto
<1>18. ASSUME NEW t \in Threads, ElemDense(t), UNCHANGED usage
      PROVE  TodoInv'
  BY <1>18 DEF SketchTyped, TodoInv, Converting, ElemDense, At, Return, Crash, repr, locks,
       locals, history, Goto
<1>19. ASSUME NEW t \in Threads, ExpLock(t), UNCHANGED usage
      PROVE  TodoInv'
  BY <1>19 DEF SketchTyped, TodoInv, Converting, ExpLock, At, Goto, repr, locals, history
<1>20. ASSUME NEW t \in Threads, ExpMerge(t), UNCHANGED usage
      PROVE  TodoInv'
  BY <1>20 DEF SketchTyped, TodoInv, Converting, ExpMerge, At, Goto, MergeTempSet, SparseFree,
       locks, locals, history
<1>21. ASSUME NEW t \in Threads, ExpCopy(t), UNCHANGED usage
      PROVE  TodoInv'
  BY <1>21 DEF SketchTyped, TodoInv, Converting, ExpCopy, At, Return, SparseFree, repr, Goto
<1>22. ASSUME NEW t \in Threads, ExpDense(t), UNCHANGED usage
      PROVE  TodoInv'
  BY <1>22 DEF SketchTyped, TodoInv, Converting, ExpDense, At, Return, repr, locks, Goto,
       locals, history
<1>23. ASSUME NEW t \in Threads, MergeLock(t), UNCHANGED usage
      PROVE  TodoInv'
  BY <1>23 DEF SketchTyped, TodoInv, Converting, MergeLock, At, Goto, Deciding, repr, history
<1>24. ASSUME NEW t \in Threads, MergeBoth(t), UNCHANGED usage
      PROVE  TodoInv'
  BY <1>24 DEF SketchTyped, TodoInv, Converting, MergeBoth, At, Goto, Return, SparseFree,
       locals, history
<1>25. ASSUME NEW t \in Threads, MergeRegs(t), UNCHANGED usage
      PROVE  TodoInv'
  <2>1. CASE todo[t] = {}
    BY <2>1, <1>25 DEF SketchTyped, TodoInv, MergeRegs, At, Goto, Return, Converting
  <2>2. CASE todo[t] # {}
    <3>1. PICK h \in todo[t] : todo' = [todo EXCEPT ![t] = @ \ {h}]
      BY <2>2, <1>25, RegisterPlaced
    <3>2. QED
      BY <2>2, <3>1, <1>25 DEF SketchTyped, TodoInv, MergeRegs, Converting
  <2>3. QED
    BY <2>1, <2>2
<1>26. ASSUME NEW t \in Threads, ResetLock(t), UNCHANGED usage
      PROVE  TodoInv'
  BY <1>26 DEF SketchTyped, TodoInv, Converting, ResetLock, At, Goto, repr, locals, history
<1>27. ASSUME NEW t \in Threads, ResetSparse(t), UNCHANGED usage
      PROVE  TodoInv'
  BY <1>27 DEF SketchTyped, TodoInv, Converting, ResetSparse, At, Goto, ForgetAll, SparseFree,
       locals
<1>28. ASSUME NEW t \in Threads, ResetDense(t), UNCHANGED usage
      PROVE  TodoInv'
  BY <1>28 DEF SketchTyped, TodoInv, Converting, ResetDense, At, Goto, ForgetAll, locals
<1>29. CASE UNCHANGED vars
  BY <1>29 DEF SketchTyped, TodoInv, Converting, vars, repr, locks, locals, history
<1>30. ASSUME NEW t \in Threads, ExpRegs(t), UNCHANGED usage
      PROVE  TodoInv'
  BY <1>30 DEF SketchTyped, TodoInv, Converting, ExpRegs, At, Return, repr, locks, Goto
<1>31. QED
  BY <1>1, <1>2, <1>3, <1>4, <1>5, <1>6, <1>7, <1>8, <1>9, <1>10, <1>11, <1>12, <1>13, <1>14,
       <1>15, <1>16, <1>17, <1>18, <1>19, <1>20, <1>21, <1>22, <1>23, <1>24, <1>25, <1>26,
       <1>27, <1>28, <1>29, <1>30 DEF Next, Call, Step, Convert

LEMMA ForeignStep ==
  ASSUME SafeInv, TodoInv, ForeignInv, [Next]_vars
  PROVE  ForeignInv'
<1>1. ASSUME NEW t \in Threads, NEW h \in Hash, CallInsert(t, h), UNCHANGED usage
      PROVE  ForeignInv'
  <2>1. \A u \in Threads : arg'[u] \subseteq may'
    BY <1>1 DEF ForeignInv, SafeInv, SketchTyped, CallInsert, At, Goto, BeginUpdate, repr, locks
  <2>2. dense' = Nil => temp' \cup sorted' \subseteq may'
    BY <1>1 DEF ForeignInv, SafeInv, SketchTyped, CallInsert, At, Goto, BeginUpdate, repr, locks
  <2>3. \A u \in Threads : pc'[u] \in {"convFormat", "convDense"} => snap'[u] \subseteq may'
    BY <1>1 DEF ForeignInv, SafeInv, SketchTyped, CallInsert, At, Goto, BeginUpdate, repr, locks
  <2>4. dense' # Nil => OnlyFrom(dense', may')
    <3>1. dense' = dense /\ may \subseteq may'
      BY <1>1 DEF CallInsert, At, Goto, BeginUpdate, repr, locks
    <3>2. QED
      BY <3>1, OnlyFromFacts DEF ForeignInv
  <2>5. QED
    BY <2>1, <2>2, <2>3, <2>4 DEF ForeignInv
<1>2. ASSUME NEW t \in Threads, NEW in \in usage.incoming, CallMerge(t, in), UNCHANGED usage
      PROVE  ForeignInv'
  <2>1. \A u \in Threads : arg'[u] \subseteq may'
    BY <1>2, IncomingType DEF ForeignInv, SafeInv, SketchTyped, CallMerge, At, Goto,
         BeginUpdate, repr, locks
  <2>2. dense' = Nil => temp' \cup sorted' \subseteq may'
    BY <1>2, IncomingType DEF ForeignInv, SafeInv, SketchTyped, CallMerge, At, Goto,
         BeginUpdate, repr, locks
  <2>3. \A u \in Threads : pc'[u] \in {"convFormat", "convDense"} => snap'[u] \subseteq may'
    BY <1>2, IncomingType DEF ForeignInv, SafeInv, SketchTyped, CallMerge, At, Goto,
         BeginUpdate, repr, locks
  <2>4. dense' # Nil => OnlyFrom(dense', may')
    <3>1. dense' = dense /\ may \subseteq may'
      BY <1>2 DEF CallMerge, At, Goto, BeginUpdate, repr, locks
    <3>2. QED
      BY <3>1, OnlyFromFacts DEF ForeignInv
  <2>5. QED
    BY <2>1, <2>2, <2>3, <2>4 DEF ForeignInv
<1>3. ASSUME NEW t \in Threads, CallElements(t), UNCHANGED usage
      PROVE  ForeignInv'
  BY <1>3, Constants, RegistersType, OnlyFromFacts DEF SafeInv, SketchTyped, LockInv, FormatInv,
       Holding, Converting, TodoInv, ForeignInv, CallElements, At, Goto, BeginRead, repr,
       locks
<1>4. ASSUME NEW t \in Threads, CallExport(t), UNCHANGED usage
      PROVE  ForeignInv'
  BY <1>4, Constants, RegistersType, OnlyFromFacts DEF SafeInv, SketchTyped, LockInv, FormatInv,
       Holding, Converting, TodoInv, ForeignInv, CallExport, At, Goto, BeginRead, repr, locks
<1>5. ASSUME NEW t \in Threads, CallReset(t), UNCHANGED usage
      PROVE  ForeignInv'
  BY <1>5, Constants, RegistersType, OnlyFromFacts DEF SafeInv, SketchTyped, LockInv, FormatInv,
       Holding, Converting, TodoInv, ForeignInv, CallReset, At, Goto, repr, locks, locals,
       history
<1>6. ASSUME NEW t \in Threads, LoadSparse(t), UNCHANGED usage
      PROVE  ForeignInv'
  BY <1>6, Constants, RegistersType, OnlyFromFacts DEF SafeInv, SketchTyped, LockInv, FormatInv,
       Holding, Converting, TodoInv, ForeignInv, LoadSparse, At, Goto, repr, locks, locals,
       history
<1>7. ASSUME NEW t \in Threads, InsertSparse(t), UNCHANGED usage
      PROVE  ForeignInv'
  BY <1>7, Constants, RegistersType, OnlyFromFacts DEF SafeInv, SketchTyped, LockInv, FormatInv,
       Holding, Converting, TodoInv, ForeignInv, InsertSparse, At, Goto, SparseFree, locks,
       locals, history
<1>8. ASSUME NEW t \in Threads, CheckLen(t), UNCHANGED usage
      PROVE  ForeignInv'
  <2>1. \A u \in Threads : arg'[u] \subseteq may'
    BY <1>8 DEF ForeignInv, SafeInv, SketchTyped, CheckLen, At, Goto, Return, SparseFree, repr,
         locks, locals, history
  <2>2. dense' = Nil => temp' \cup sorted' \subseteq may'
    BY <1>8 DEF ForeignInv, SafeInv, SketchTyped, CheckLen, At, Goto, Return, SparseFree, repr,
         locks, locals, history
  <2>3. \A u \in Threads : pc'[u] \in {"convFormat", "convDense"} => snap'[u] \subseteq may'
    BY <1>8 DEF ForeignInv, SafeInv, SketchTyped, CheckLen, At, Goto, Return, SparseFree, repr,
         locks, locals, history
  <2>4. dense' # Nil => OnlyFrom(dense', may')
    <3>1. dense' = dense /\ may \subseteq may'
      BY <1>8 DEF CheckLen, At, Goto, Return, SparseFree, repr, locks, locals, history
    <3>2. QED
      BY <3>1, OnlyFromFacts DEF ForeignInv
  <2>5. QED
    BY <2>1, <2>2, <2>3, <2>4 DEF ForeignInv
<1>9. ASSUME NEW t \in Threads, LockConvert(t), UNCHANGED usage
      PROVE  ForeignInv'
  <2>1. \A u \in Threads : arg'[u] \subseteq may'
    BY <1>9 DEF ForeignInv, SafeInv, SketchTyped, LockConvert, At, Goto, Return, repr, locals,
         history
  <2>2. dense' = Nil => temp' \cup sorted' \subseteq may'
    BY <1>9 DEF ForeignInv, SafeInv, SketchTyped, LockConvert, At, Goto, Return, repr, locals,
         history
  <2>3. \A u \in Threads : pc'[u] \in {"convFormat", "convDense"} => snap'[u] \subseteq may'
    BY <1>9 DEF ForeignInv, SafeInv, SketchTyped, LockConvert, At, Goto, Return, repr, locals,
         history
  <2>4. dense' # Nil => OnlyFrom(dense', may')
    <3>1. dense' = dense /\ may \subseteq may'
      BY <1>9 DEF LockConvert, At, Goto, Return, repr, locals, history
    <3>2. QED
      BY <3>1, OnlyFromFacts DEF ForeignInv
  <2>5. QED
    BY <2>1, <2>2, <2>3, <2>4 DEF ForeignInv
<1>10. ASSUME NEW t \in Threads, InsertDense(t), UNCHANGED usage
      PROVE  ForeignInv'
  <2>1. \A u \in Threads : arg'[u] \subseteq may'
    BY <1>10 DEF ForeignInv, SafeInv, SketchTyped, InsertDense, At, Return, Crash,
         SetRegisterMax, locks, repr, locals, history, Goto
  <2>2. dense' = Nil => temp' \cup sorted' \subseteq may'
    BY <1>10, RegisterRaised DEF ForeignInv, SafeInv, SketchTyped, InsertDense, At, Return,
         Crash, SetRegisterMax, locks, repr, locals, history, Goto
  <2>3. \A u \in Threads : pc'[u] \in {"convFormat", "convDense"} => snap'[u] \subseteq may'
    BY <1>10 DEF ForeignInv, SafeInv, SketchTyped, InsertDense, At, Return, Crash,
         SetRegisterMax, locks, repr, locals, history, Goto
  <2>4. dense' # Nil => OnlyFrom(dense', may')
    <3>1. may' = may
      BY <1>10 DEF InsertDense, At, Return, Crash, SetRegisterMax, locks, repr, locals,
           history, Goto
    <3>2. CASE dense = Nil
      <4>1. dense' = dense
        BY <3>2, <1>10 DEF InsertDense, At, Return, Crash, SetRegisterMax, locks, repr,
             locals, history, Goto
      <4>2. QED
        BY <3>1, <4>1 DEF ForeignInv
    <3>3. CASE ~(dense = Nil)
      <4>1. PICK h \in arg[t] : dense' = SetRegisterMax(dense, h)
        BY <3>3, <1>10, RegisterRaised DEF SafeInv
      <4>2. h \in may \cap Hash
        BY DEF SafeInv, SketchTyped, TodoInv, ForeignInv
      <4>3. dense \in RegMap /\ dense # Nil
        BY <3>3, <1>10, RegisterRaised, Constants DEF SafeInv
      <4>4. QED
        BY <3>1, <4>1, <4>2, <4>3, OnlyFromFacts DEF ForeignInv
    <3>4. QED
      BY <3>2, <3>3
  <2>5. QED
    BY <2>1, <2>2, <2>3, <2>4 DEF ForeignInv
<1>11. ASSUME NEW t \in Threads, ConvMerge(t), UNCHANGED usage
      PROVE  ForeignInv'
  BY <1>11, Constants, RegistersType, OnlyFromFacts DEF SafeInv, SketchTyped, LockInv,
       FormatInv, Holding, Converting, TodoInv, ForeignInv, ConvMerge, At, Goto, MergeTempSet,
       SparseFree, locks, locals, history
<1>12. ASSUME NEW t \in Threads, ConvCopy(t), UNCHANGED usage
      PROVE  ForeignInv'
  BY <1>12, Constants, RegistersType, OnlyFromFacts DEF SafeInv, SketchTyped, LockInv,
       FormatInv, Holding, Converting, TodoInv, ForeignInv, ConvCopy, At, Goto, SparseFree,
       repr, locks, history
<1>13. ASSUME NEW t \in Threads, ConvFormat(t), UNCHANGED usage
      PROVE  ForeignInv'
  BY <1>13, Constants, RegistersType, OnlyFromFacts DEF SafeInv, SketchTyped, LockInv,
       FormatInv, Holding, Converting, TodoInv, ForeignInv, ConvFormat, At, Goto, locks,
       locals, history
<1>14. ASSUME NEW t \in Threads, ConvDense(t), UNCHANGED usage
      PROVE  ForeignInv'
  BY <1>14, Constants, RegistersType, OnlyFromFacts DEF SafeInv, SketchTyped, LockInv,
       FormatInv, Holding, Converting, TodoInv, ForeignInv, ConvDense, At, Goto, locks,
       history
<1>15. ASSUME NEW t \in Threads, ConvDrop(t), UNCHANGED usage
      PROVE  ForeignInv'
  BY <1>15, Constants, RegistersType, OnlyFromFacts DEF SafeInv, SketchTyped, LockInv,
       FormatInv, Holding, Converting, TodoInv, ForeignInv, ConvDrop, At, Goto, Return, locks,
       locals, history
<1>16. ASSUME NEW t \in Threads, ElemLoad(t), UNCHANGED usage
      PROVE  ForeignInv'
  BY <1>16, Constants, RegistersType, OnlyFromFacts DEF SafeInv, SketchTyped, LockInv,
       FormatInv, Holding, Converting, TodoInv, ForeignInv, ElemLoad, At, Goto, Crash, repr,
       locks, locals, history
<1>17. ASSUME NEW t \in Threads, ElemSparse(t), UNCHANGED usage
      PROVE  ForeignInv'
  BY <1>17, Constants, RegistersType, OnlyFromFacts DEF SafeInv, SketchTyped, LockInv,
       FormatInv, Holding, Converting, TodoInv, ForeignInv, ElemSparse, At, Return,
       MergeTempSet, SparseFree, locks, Goto
<1>18. ASSUME NEW t \in Threads, ElemDense(t), UNCHANGED usage
      PROVE  ForeignInv'
  BY <1>18, Constants, RegistersType, OnlyFromFacts DEF SafeInv, SketchTyped, LockInv,
       FormatInv, Holding, Converting, TodoInv, ForeignInv, ElemDense, At, Return, Crash,
       repr, locks, locals, history, Goto
<1>19. ASSUME NEW t \in Threads, ExpLock(t), UNCHANGED usage
      PROVE  ForeignInv'
  BY <1>19, Constants, RegistersType, OnlyFromFacts DEF SafeInv, SketchTyped, LockInv,
       FormatInv, Holding, Converting, TodoInv, ForeignInv, ExpLock, At, Goto, repr, locals,
       history
<1>20. ASSUME NEW t \in Threads, ExpMerge(t), UNCHANGED usage
      PROVE  ForeignInv'
  BY <1>20, Constants, RegistersType, OnlyFromFacts DEF SafeInv, SketchTyped, LockInv,
       FormatInv, Holding, Converting, TodoInv, ForeignInv, ExpMerge, At, Goto, MergeTempSet,
       SparseFree, locks, locals, history
<1>21. ASSUME NEW t \in Threads, ExpCopy(t), UNCHANGED usage
      PROVE  ForeignInv'
  BY <1>21, Constants, RegistersType, OnlyFromFacts DEF SafeInv, SketchTyped, LockInv,
       FormatInv, Holding, Converting, TodoInv, ForeignInv, ExpCopy, At, Return, SparseFree,
       repr, Goto
<1>22. ASSUME NEW t \in Threads, ExpDense(t), UNCHANGED usage
      PROVE  ForeignInv'
  <2>1. /\ UNCHANGED <<dense, temp, sorted, snap, may>>
        /\ pc' = [pc EXCEPT ![t] = "idle"] \/ pc' = [pc EXCEPT ![t] = "expRegs"]
        /\ arg' = arg \/ arg' = [arg EXCEPT ![t] = {}]
    BY <1>22 DEF ExpDense, Return, Goto, repr, history
  <2>2. QED
    BY <2>1 DEF SafeInv, SketchTyped, ForeignInv
<1>23. ASSUME NEW t \in Threads, MergeLock(t), UNCHANGED usage
      PROVE  ForeignInv'
  BY <1>23, Constants, RegistersType, OnlyFromFacts DEF SafeInv, SketchTyped, LockInv,
       FormatInv, Holding, Converting, TodoInv, ForeignInv, MergeLock, At, Goto, Deciding,
       repr, history
<1>24. ASSUME NEW t \in Threads, MergeBoth(t), UNCHANGED usage
      PROVE  ForeignInv'
  <2>1. \A u \in Threads : arg'[u] \subseteq may'
    BY <1>24 DEF ForeignInv, SafeInv, SketchTyped, MergeBoth, At, Goto, Return, SparseFree,
         locals, history
  <2>2. dense' = Nil => temp' \cup sorted' \subseteq may'
    BY <1>24 DEF ForeignInv, SafeInv, SketchTyped, MergeBoth, At, Goto, Return, SparseFree,
         locals, history
  <2>3. \A u \in Threads : pc'[u] \in {"convFormat", "convDense"} => snap'[u] \subseteq may'
    BY <1>24 DEF ForeignInv, SafeInv, SketchTyped, MergeBoth, At, Goto, Return, SparseFree,
         locals, history
  <2>4. dense' # Nil => OnlyFrom(dense', may')
    <3>1. dense' = dense /\ may \subseteq may'
      BY <1>24 DEF MergeBoth, At, Goto, Return, SparseFree, locals, history
    <3>2. QED
      BY <3>1, OnlyFromFacts DEF ForeignInv
  <2>5. QED
    BY <2>1, <2>2, <2>3, <2>4 DEF ForeignInv
<1>25. ASSUME NEW t \in Threads, MergeRegs(t), UNCHANGED usage
      PROVE  ForeignInv'
  <2>1. \A u \in Threads : arg'[u] \subseteq may'
    BY <1>25 DEF ForeignInv, SafeInv, SketchTyped, MergeRegs, At, Return, SetRegisterMax, locks,
         history, Goto
  <2>2. dense' = Nil => temp' \cup sorted' \subseteq may'
    BY <1>25, RegisterPlaced DEF ForeignInv, SafeInv, SketchTyped, MergeRegs, At, Return,
         SetRegisterMax, locks, history, Goto
  <2>3. \A u \in Threads : pc'[u] \in {"convFormat", "convDense"} => snap'[u] \subseteq may'
    BY <1>25 DEF ForeignInv, SafeInv, SketchTyped, MergeRegs, At, Return, SetRegisterMax, locks,
         history, Goto
  <2>4. dense' # Nil => OnlyFrom(dense', may')
    <3>1. may' = may
      BY <1>25 DEF MergeRegs, At, Return, SetRegisterMax, locks, history, Goto
    <3>2. CASE todo[t] = {}
      <4>1. dense' = dense
        BY <3>2, <1>25 DEF MergeRegs, At, Return, SetRegisterMax, locks, history, Goto
      <4>2. QED
        BY <3>1, <4>1 DEF ForeignInv
    <3>3. CASE ~(todo[t] = {})
      <4>1. PICK h \in todo[t] : dense' = SetRegisterMax(dense, h)
        BY <3>3, <1>25, RegisterPlaced DEF SafeInv
      <4>2. h \in may \cap Hash
        BY DEF SafeInv, SketchTyped, TodoInv, ForeignInv
      <4>3. dense \in RegMap /\ dense # Nil
        BY <3>3, <1>25, RegisterPlaced, Constants DEF SafeInv
      <4>4. QED
        BY <3>1, <4>1, <4>2, <4>3, OnlyFromFacts DEF ForeignInv
    <3>4. QED
      BY <3>2, <3>3
  <2>5. QED
    BY <2>1, <2>2, <2>3, <2>4 DEF ForeignInv
<1>26. ASSUME NEW t \in Threads, ResetLock(t), UNCHANGED usage
      PROVE  ForeignInv'
  BY <1>26, Constants, RegistersType, OnlyFromFacts DEF SafeInv, SketchTyped, LockInv,
       FormatInv, Holding, Converting, TodoInv, ForeignInv, ResetLock, At, Goto, repr, locals,
       history
<1>27. ASSUME NEW t \in Threads, ResetSparse(t), UNCHANGED usage
      PROVE  ForeignInv'
  BY <1>27, Constants, RegistersType, OnlyFromFacts DEF SafeInv, SketchTyped, LockInv,
       FormatInv, Holding, Converting, TodoInv, ForeignInv, ResetSparse, At, Goto, ForgetAll,
       SparseFree, locals
<1>28. ASSUME NEW t \in Threads, ResetDense(t), UNCHANGED usage
      PROVE  ForeignInv'
  <2>1. \A u \in Threads : arg'[u] \subseteq may'
    BY <1>28 DEF ForeignInv, SafeInv, SketchTyped, ResetDense, At, Goto, ForgetAll, locals
  <2>2. dense' = Nil => temp' \cup sorted' \subseteq may'
    BY <1>28, RegistersType DEF ForeignInv, SafeInv, SketchTyped, ResetDense, At, Goto,
         ForgetAll, locals
  <2>3. \A u \in Threads : pc'[u] \in {"convFormat", "convDense"} => snap'[u] \subseteq may'
    BY <1>28 DEF LockInv, Holding, Converting, ForeignInv, SafeInv, SketchTyped, ResetDense, At,
         Goto, ForgetAll, locals
  <2>4. dense' # Nil => OnlyFrom(dense', may')
    BY <1>28, OnlyFromFacts DEF ResetDense
  <2>5. QED
    BY <2>1, <2>2, <2>3, <2>4 DEF ForeignInv
<1>29. CASE UNCHANGED vars
  BY <1>29 DEF SafeInv, SketchTyped, LockInv, FormatInv, Holding, Converting, TodoInv,
       ForeignInv, vars, repr, locks, locals, history
<1>30. ASSUME NEW t \in Threads, ExpRegs(t), UNCHANGED usage
      PROVE  ForeignInv'
  BY <1>30, Constants, RegistersType, OnlyFromFacts DEF SafeInv, SketchTyped, LockInv,
       FormatInv, Holding, Converting, TodoInv, ForeignInv, ExpRegs, At, Return, repr, locks,
       Goto
<1>31. QED
  BY <1>1, <1>2, <1>3, <1>4, <1>5, <1>6, <1>7, <1>8, <1>9, <1>10, <1>11, <1>12, <1>13, <1>14,
       <1>15, <1>16, <1>17, <1>18, <1>19, <1>20, <1>21, <1>22, <1>23, <1>24, <1>25, <1>26,
       <1>27, <1>28, <1>29, <1>30 DEF Next, Call, Step, Convert

\* What is needed to see where a register came from.
OriginInv == SafeInv /\ TodoInv /\ ForeignInv

LEMMA OriginInvariant ==
  Spec => []OriginInv
<1>1. Init => OriginInv
  <2> SUFFICES ASSUME Init PROVE OriginInv
    OBVIOUS
  <2>1. SafeInv
    BY TypeInit, LockInit DEF SafeInv
  <2>2. TodoInv /\ ForeignInv
    BY DEF Init, TodoInv, ForeignInv
  <2>3. QED
    BY <2>1, <2>2 DEF OriginInv
<1>2. OriginInv /\ [Next]_vars => OriginInv'
  BY TypeStep, LockStep, FormatStep, TodoStep, ForeignStep DEF OriginInv, SafeInv
<1>3. QED
  BY <1>1, <1>2, PTL DEF Spec

\* A register holds nothing but the rank of a hash that some call brought in
\* since the last reset, for every mix of calls: Reset clears all that is
\* there, whichever representation it finds, and what a conversion still has
\* in hand cannot outlive it because both hold h.mu.
THEOREM NothingForeignAlways ==
  Spec => []NothingForeign
<1>1. OriginInv => NothingForeign
  <2> SUFFICES ASSUME OriginInv PROVE NothingForeign
    OBVIOUS
  <2>1. OnlyFrom(Contents, may)
    <3>1. CASE dense = Nil
      <4>1. temp \cup sorted \in SUBSET Hash /\ temp \cup sorted \subseteq may
        BY <3>1 DEF OriginInv, SafeInv, SketchTyped, ForeignInv
      <4>2. QED
        BY <3>1, <4>1, OnlyFromFacts DEF Contents
    <3>2. CASE dense # Nil
      BY <3>2 DEF Contents, OriginInv, ForeignInv
    <3>3. QED
      BY <3>1, <3>2
  <2>2. QED
    BY <2>1 DEF OnlyFrom, NothingForeign
<1>2. QED
  BY <1>1, OriginInvariant, PTL

------------------------------------------------------------------------------
(* With one inserter: who is where *)

LEMMA SoleInserter ==
  ASSUME OneInserter, SketchTyped, NEW t \in Threads, NEW u \in Threads, u # t,
         "insert" \in usage.roles[t]
  PROVE  usage.roles[u] \cap {"insert", "merge"} = {}
BY DEF OneInserter, SketchTyped

LEMMA CallerStep ==
  ASSUME OneInserter, SketchTyped, CallerInv, [Next]_vars
  PROVE  CallerInv'
<1>1. ASSUME NEW t \in Threads, NEW h \in Hash, CallInsert(t, h), UNCHANGED usage
      PROVE  CallerInv'
  BY <1>1, SoleInserter DEF SketchTyped, CallerInv, Inserting, Merging, Converting,
       CallInsert, At, Goto, BeginUpdate, repr, locks
<1>2. ASSUME NEW t \in Threads, NEW in \in usage.incoming, CallMerge(t, in), UNCHANGED usage
      PROVE  CallerInv'
  BY <1>2, SoleInserter DEF SketchTyped, CallerInv, Inserting, Merging, Converting, CallMerge,
       At, Goto, BeginUpdate, repr, locks
<1>3. ASSUME NEW t \in Threads, CallElements(t), UNCHANGED usage
      PROVE  CallerInv'
  BY <1>3, SoleInserter DEF SketchTyped, CallerInv, Inserting, Merging, Converting,
       CallElements, At, Goto, BeginRead, repr, locks
<1>4. ASSUME NEW t \in Threads, CallExport(t), UNCHANGED usage
      PROVE  CallerInv'
  BY <1>4, SoleInserter DEF SketchTyped, CallerInv, Inserting, Merging, Converting,
       CallExport, At, Goto, BeginRead, repr, locks
<1>5. ASSUME NEW t \in Threads, CallReset(t), UNCHANGED usage
      PROVE  CallerInv'
  BY <1>5, SoleInserter DEF SketchTyped, CallerInv, Inserting, Merging, Converting, CallReset,
       At, Goto, repr, locks, locals, history
<1>6. ASSUME NEW t \in Threads, LoadSparse(t), UNCHANGED usage
      PROVE  CallerInv'
  BY <1>6, SoleInserter DEF SketchTyped, CallerInv, Inserting, Merging, Converting,
       LoadSparse, At, Goto, repr, locks, locals, history
<1>7. ASSUME NEW t \in Threads, InsertSparse(t), UNCHANGED usage
      PROVE  CallerInv'
  BY <1>7, SoleInserter DEF SketchTyped, CallerInv, Inserting, Merging, Converting,
       InsertSparse, At, Goto, SparseFree, locks, locals, history
<1>8. ASSUME NEW t \in Threads, CheckLen(t), UNCHANGED usage
      PROVE  CallerInv'
  BY <1>8, SoleInserter DEF SketchTyped, CallerInv, Inserting, Merging, Converting, CheckLen,
       At, Goto, Return, SparseFree, repr, locks, locals, history
<1>9. ASSUME NEW t \in Threads, LockConvert(t), UNCHANGED usage
      PROVE  CallerInv'
  BY <1>9, SoleInserter DEF SketchTyped, CallerInv, Inserting, Merging, Converting, LockConvert,
       At, Goto, Return, repr, locals, history
<1>10. ASSUME NEW t \in Threads, InsertDense(t), UNCHANGED usage
      PROVE  CallerInv'
  BY <1>10, SoleInserter DEF SketchTyped, CallerInv, Inserting, Merging, Converting,
       InsertDense, At, Return, Crash, SetRegisterMax, locks, repr, locals, history, Goto
<1>11. ASSUME NEW t \in Threads, ConvMerge(t), UNCHANGED usage
      PROVE  CallerInv'
  BY <1>11, SoleInserter DEF SketchTyped, CallerInv, Inserting, Merging, Converting,
       ConvMerge, At, Goto, MergeTempSet, SparseFree, locks, locals, history
<1>12. ASSUME NEW t \in Threads, ConvCopy(t), UNCHANGED usage
      PROVE  CallerInv'
  BY <1>12, SoleInserter DEF SketchTyped, CallerInv, Inserting, Merging, Converting, ConvCopy,
       At, Goto, SparseFree, repr, locks, history
<1>13. ASSUME NEW t \in Threads, ConvFormat(t), UNCHANGED usage
      PROVE  CallerInv'
  BY <1>13, SoleInserter DEF SketchTyped, CallerInv, Inserting, Merging, Converting, ConvFormat,
       At, Goto, locks, locals, history
<1>14. ASSUME NEW t \in Threads, ConvDense(t), UNCHANGED usage
      PROVE  CallerInv'
  BY <1>14, SoleInserter DEF SketchTyped, CallerInv, Inserting, Merging, Converting,
       ConvDense, At, Goto, locks, history
<1>15. ASSUME NEW t \in Threads, ConvDrop(t), UNCHANGED usage
      PROVE  CallerInv'
  BY <1>15, SoleInserter DEF SketchTyped, CallerInv, Inserting, Merging, Converting, ConvDrop,
       At, Goto, Return, locks, locals, history
<1>16. ASSUME NEW t \in Threads, ElemLoad(t), UNCHANGED usage
      PROVE  CallerInv'
  BY <1>16, SoleInserter DEF SketchTyped, CallerInv, Inserting, Merging, Converting, ElemLoad,
       At, Goto, Crash, repr, locks, locals, history
<1>17. ASSUME NEW t \in Threads, ElemSparse(t), UNCHANGED usage
      PROVE  CallerInv'
  BY <1>17, SoleInserter DEF SketchTyped, CallerInv, Inserting, Merging, Converting, ElemSparse,
       At, Return, MergeTempSet, SparseFree, locks, Goto
<1>18. ASSUME NEW t \in Threads, ElemDense(t), UNCHANGED usage
      PROVE  CallerInv'
  BY <1>18, SoleInserter DEF SketchTyped, CallerInv, Inserting, Merging, Converting,
       ElemDense, At, Return, Crash, repr, locks, locals, history, Goto
<1>19. ASSUME NEW t \in Threads, ExpLock(t), UNCHANGED usage
      PROVE  CallerInv'
  BY <1>19, SoleInserter DEF SketchTyped, CallerInv, Inserting, Merging, Converting, ExpLock,
       At, Goto, repr, locals, history
<1>20. ASSUME NEW t \in Threads, ExpMerge(t), UNCHANGED usage
      PROVE  CallerInv'
  BY <1>20, SoleInserter DEF SketchTyped, CallerInv, Inserting, Merging, Converting, ExpMerge,
       At, Goto, MergeTempSet, SparseFree, locks, locals, history
<1>21. ASSUME NEW t \in Threads, ExpCopy(t), UNCHANGED usage
      PROVE  CallerInv'
  BY <1>21, SoleInserter DEF SketchTyped, CallerInv, Inserting, Merging, Converting, ExpCopy,
       At, Return, SparseFree, repr, Goto
<1>22. ASSUME NEW t \in Threads, ExpDense(t), UNCHANGED usage
      PROVE  CallerInv'
  BY <1>22, SoleInserter DEF SketchTyped, CallerInv, Inserting, Merging, Converting, ExpDense,
       At, Return, repr, locks, Goto, locals, history
<1>23. ASSUME NEW t \in Threads, MergeLock(t), UNCHANGED usage
      PROVE  CallerInv'
  BY <1>23, SoleInserter DEF SketchTyped, CallerInv, Inserting, Merging, Converting,
       MergeLock, At, Goto, Deciding, repr, history
<1>24. ASSUME NEW t \in Threads, MergeBoth(t), UNCHANGED usage
      PROVE  CallerInv'
  BY <1>24, SoleInserter DEF SketchTyped, CallerInv, Inserting, Merging, Converting,
       MergeBoth, At, Goto, Return, SparseFree, locals, history
<1>25. ASSUME NEW t \in Threads, MergeRegs(t), UNCHANGED usage
      PROVE  CallerInv'
  BY <1>25, SoleInserter DEF SketchTyped, CallerInv, Inserting, Merging, Converting,
       MergeRegs, At, Return, SetRegisterMax, locks, history, Goto
<1>26. ASSUME NEW t \in Threads, ResetLock(t), UNCHANGED usage
      PROVE  CallerInv'
  BY <1>26, SoleInserter DEF SketchTyped, CallerInv, Inserting, Merging, Converting,
       ResetLock, At, Goto, repr, locals, history
<1>27. ASSUME NEW t \in Threads, ResetSparse(t), UNCHANGED usage
      PROVE  CallerInv'
  BY <1>27, SoleInserter DEF SketchTyped, CallerInv, Inserting, Merging, Converting,
       ResetSparse, At, Goto, ForgetAll, SparseFree, locals
<1>28. ASSUME NEW t \in Threads, ResetDense(t), UNCHANGED usage
      PROVE  CallerInv'
  BY <1>28, SoleInserter DEF SketchTyped, CallerInv, Inserting, Merging, Converting, ResetDense,
       At, Goto, ForgetAll, locals
<1>29. CASE UNCHANGED vars
  BY <1>29 DEF SketchTyped, CallerInv, Inserting, Merging, Converting, vars, repr, locks,
       locals, history
<1>30. ASSUME NEW t \in Threads, ExpRegs(t), UNCHANGED usage
      PROVE  CallerInv'
  BY <1>30, SoleInserter DEF SketchTyped, CallerInv, Inserting, Merging, Converting, ExpRegs,
       At, Return, repr, locks, Goto
<1>31. QED
  BY <1>1, <1>2, <1>3, <1>4, <1>5, <1>6, <1>7, <1>8, <1>9, <1>10, <1>11, <1>12, <1>13, <1>14,
       <1>15, <1>16, <1>17, <1>18, <1>19, <1>20, <1>21, <1>22, <1>23, <1>24, <1>25, <1>26,
       <1>27, <1>28, <1>29, <1>30 DEF Next, Call, Step, Convert

------------------------------------------------------------------------------
(* With one inserter: what is in stays in *)

\* What a step may do to the history: keep every hash that is present, or
\* forget all that was.
Kept == \A h \in Hash : Present(h) => Present(h)'

Forgotten ==
  /\ must' = {}
  /\ fresh' = [t \in Threads |-> FALSE]
  /\ need' = [t \in Threads |-> {}]

\* The arithmetic of a raised register.
LEMMA RaisedCovers ==
  ASSUME NEW r \in RegMap, NEW g \in Hash
  PROVE  /\ \A h \in Hash : r[IdxOf[h]] >= RhoOf[h] => SetRegisterMax(r, g)[IdxOf[h]] >= RhoOf[h]
         /\ \A h \in Hash : Covers(g, h) => SetRegisterMax(r, g)[IdxOf[h]] >= RhoOf[h]
<1>1. /\ SetRegisterMax(r, g) \in RegMap
      /\ SetRegisterMax(r, g)[IdxOf[g]] >= RhoOf[g]
      /\ \A i \in Idx : SetRegisterMax(r, g)[i] >= r[i]
  BY SetRegisterMaxJoins
<1> DEFINE s == SetRegisterMax(r, g)
<1>2. \A i \in Idx : s[i] \in Nat /\ r[i] \in Nat
  BY <1>1 DEF RegMap
<1>3. \A h \in Hash : RhoOf[h] \in Nat /\ IdxOf[h] \in Idx
  BY Constants
<1> HIDE DEF s
<1>4. s[IdxOf[g]] >= RhoOf[g] /\ \A i \in Idx : s[i] >= r[i]
  BY <1>1 DEF s
<1>5. \A h \in Hash : r[IdxOf[h]] >= RhoOf[h] => s[IdxOf[h]] >= RhoOf[h]
  BY <1>2, <1>3, <1>4
<1>6. \A h \in Hash : Covers(g, h) => s[IdxOf[h]] >= RhoOf[h]
  BY <1>2, <1>3, <1>4 DEF Covers
<1>7. QED
  BY <1>5, <1>6 DEF s

LEMMA KeptStep ==
  ASSUME SafeInv, CopyInv, [Next]_vars
  PROVE  Kept \/ Forgotten
<1>1. ASSUME NEW t \in Threads, NEW h \in Hash, CallInsert(t, h), UNCHANGED usage
      PROVE  Kept \/ Forgotten
  BY <1>1 DEF SafeInv, SketchTyped, FormatInv, Kept, Present, CallInsert, At, Goto, BeginUpdate,
       repr, locks
<1>2. ASSUME NEW t \in Threads, NEW in \in usage.incoming, CallMerge(t, in), UNCHANGED usage
      PROVE  Kept \/ Forgotten
  BY <1>2 DEF SafeInv, SketchTyped, FormatInv, Kept, Present, CallMerge, At, Goto, BeginUpdate,
       repr, locks
<1>3. ASSUME NEW t \in Threads, CallElements(t), UNCHANGED usage
      PROVE  Kept \/ Forgotten
  BY <1>3 DEF SafeInv, SketchTyped, FormatInv, Kept, Present, CallElements, At, Goto, BeginRead,
       repr, locks
<1>4. ASSUME NEW t \in Threads, CallExport(t), UNCHANGED usage
      PROVE  Kept \/ Forgotten
  BY <1>4 DEF SafeInv, SketchTyped, FormatInv, Kept, Present, CallExport, At, Goto, BeginRead,
       repr, locks
<1>5. ASSUME NEW t \in Threads, CallReset(t), UNCHANGED usage
      PROVE  Kept \/ Forgotten
  BY <1>5 DEF SafeInv, SketchTyped, FormatInv, Kept, Present, CallReset, At, Goto, repr, locks,
       locals, history
<1>6. ASSUME NEW t \in Threads, LoadSparse(t), UNCHANGED usage
      PROVE  Kept \/ Forgotten
  BY <1>6 DEF SafeInv, SketchTyped, FormatInv, Kept, Present, LoadSparse, At, Goto, repr, locks,
       locals, history
<1>7. ASSUME NEW t \in Threads, InsertSparse(t), UNCHANGED usage
      PROVE  Kept \/ Forgotten
  BY <1>7 DEF SafeInv, SketchTyped, FormatInv, Kept, Present, InsertSparse, At, Goto,
       SparseFree, locks, locals, history
<1>8. ASSUME NEW t \in Threads, CheckLen(t), UNCHANGED usage
      PROVE  Kept \/ Forgotten
  BY <1>8 DEF SafeInv, SketchTyped, FormatInv, Kept, Present, CheckLen, At, Goto, Return,
       SparseFree, repr, locks, locals, history
<1>9. ASSUME NEW t \in Threads, LockConvert(t), UNCHANGED usage
      PROVE  Kept \/ Forgotten
  BY <1>9 DEF SafeInv, SketchTyped, FormatInv, Kept, Present, LockConvert, At, Goto, Return,
       repr, locals, history
<1>10. ASSUME NEW t \in Threads, InsertDense(t), UNCHANGED usage
      PROVE  Kept \/ Forgotten
  <2>1. CASE dense = Nil
    BY <2>1, <1>10 DEF Kept, Present, InsertDense, Crash, repr
  <2>2. CASE dense # Nil
    <3>1. PICK h \in arg[t] : dense' = SetRegisterMax(dense, h)
      BY <2>2, <1>10, RegisterRaised DEF SafeInv
    <3>2. h \in Hash /\ dense \in RegMap /\ dense' # Nil
      BY <2>2, <1>10, RegisterRaised, Constants DEF SafeInv, SketchTyped
    <3>3. QED
      BY <2>2, <3>1, <3>2, RaisedCovers DEF Kept, Present
  <2>3. QED
    BY <2>1, <2>2
<1>11. ASSUME NEW t \in Threads, ConvMerge(t), UNCHANGED usage
      PROVE  Kept \/ Forgotten
  BY <1>11 DEF SafeInv, SketchTyped, FormatInv, Kept, Present, ConvMerge, At, Goto,
       MergeTempSet, SparseFree, locks, locals, history
<1>12. ASSUME NEW t \in Threads, ConvCopy(t), UNCHANGED usage
      PROVE  Kept \/ Forgotten
  BY <1>12 DEF SafeInv, SketchTyped, FormatInv, Kept, Present, ConvCopy, At, Goto, SparseFree,
       repr, locks, history
<1>13. ASSUME NEW t \in Threads, ConvFormat(t), UNCHANGED usage
      PROVE  Kept \/ Forgotten
  BY <1>13 DEF SafeInv, SketchTyped, FormatInv, Kept, Present, ConvFormat, At, Goto, locks,
       locals, history
<1>14. ASSUME NEW t \in Threads, ConvDense(t), UNCHANGED usage
      PROVE  Kept \/ Forgotten
  <2>1. temp = {} /\ snap[t] = sorted /\ dense = Nil /\ sorted \in SUBSET Hash
    BY <1>14 DEF ConvDense, At, CopyInv, SafeInv, FormatInv, SketchTyped
  <2>2. dense' = RegsOf(sorted) /\ dense' # Nil
    BY <2>1, <1>14, RegistersType DEF ConvDense
  <2>3. \A h \in sorted : dense'[IdxOf[h]] >= RhoOf[h]
    BY <2>1, <2>2, RegsOfFilled DEF Filled
  <2>4. QED
    BY <2>1, <2>2, <2>3 DEF Kept, Present
<1>15. ASSUME NEW t \in Threads, ConvDrop(t), UNCHANGED usage
      PROVE  Kept \/ Forgotten
  BY <1>15 DEF SafeInv, SketchTyped, FormatInv, Kept, Present, ConvDrop, At, Goto, Return,
       locks, locals, history
<1>16. ASSUME NEW t \in Threads, ElemLoad(t), UNCHANGED usage
      PROVE  Kept \/ Forgotten
  BY <1>16 DEF SafeInv, SketchTyped, FormatInv, Kept, Present, ElemLoad, At, Goto, Crash, repr,
       locks, locals, history
<1>17. ASSUME NEW t \in Threads, ElemSparse(t), UNCHANGED usage
      PROVE  Kept \/ Forgotten
  BY <1>17 DEF SafeInv, SketchTyped, FormatInv, Kept, Present, ElemSparse, At, Return,
       MergeTempSet, SparseFree, locks, Goto
<1>18. ASSUME NEW t \in Threads, ElemDense(t), UNCHANGED usage
      PROVE  Kept \/ Forgotten
  BY <1>18 DEF SafeInv, SketchTyped, FormatInv, Kept, Present, ElemDense, At, Return, Crash,
       repr, locks, locals, history, Goto
<1>19. ASSUME NEW t \in Threads, ExpLock(t), UNCHANGED usage
      PROVE  Kept \/ Forgotten
  BY <1>19 DEF SafeInv, SketchTyped, FormatInv, Kept, Present, ExpLock, At, Goto, repr, locals,
       history
<1>20. ASSUME NEW t \in Threads, ExpMerge(t), UNCHANGED usage
      PROVE  Kept \/ Forgotten
  BY <1>20 DEF SafeInv, SketchTyped, FormatInv, Kept, Present, ExpMerge, At, Goto, MergeTempSet,
       SparseFree, locks, locals, history
<1>21. ASSUME NEW t \in Threads, ExpCopy(t), UNCHANGED usage
      PROVE  Kept \/ Forgotten
  BY <1>21 DEF SafeInv, SketchTyped, FormatInv, Kept, Present, ExpCopy, At, Return, SparseFree,
       repr, Goto
<1>22. ASSUME NEW t \in Threads, ExpDense(t), UNCHANGED usage
      PROVE  Kept \/ Forgotten
  BY <1>22 DEF SafeInv, SketchTyped, FormatInv, Kept, Present, ExpDense, At, Return, repr,
       locks, Goto, locals, history
<1>23. ASSUME NEW t \in Threads, MergeLock(t), UNCHANGED usage
      PROVE  Kept \/ Forgotten
  BY <1>23 DEF SafeInv, SketchTyped, FormatInv, Kept, Present, MergeLock, At, Goto, Deciding,
       repr, history
<1>24. ASSUME NEW t \in Threads, MergeBoth(t), UNCHANGED usage
      PROVE  Kept \/ Forgotten
  BY <1>24 DEF SafeInv, SketchTyped, FormatInv, Kept, Present, MergeBoth, At, Goto, Return,
       SparseFree, locals, history
<1>25. ASSUME NEW t \in Threads, MergeRegs(t), UNCHANGED usage
      PROVE  Kept \/ Forgotten
  <2>1. CASE todo[t] = {}
    BY <2>1, <1>25 DEF Kept, Present, MergeRegs
  <2>2. CASE todo[t] # {}
    <3>1. PICK h \in todo[t] : dense' = SetRegisterMax(dense, h)
      BY <2>2, <1>25, RegisterPlaced DEF SafeInv
    <3>2. h \in Hash /\ dense \in RegMap /\ dense # Nil /\ dense' # Nil
      BY <2>2, <1>25, RegisterPlaced, Constants DEF SafeInv, SketchTyped
    <3>3. QED
      BY <3>1, <3>2, RaisedCovers DEF Kept, Present
  <2>3. QED
    BY <2>1, <2>2
<1>26. ASSUME NEW t \in Threads, ResetLock(t), UNCHANGED usage
      PROVE  Kept \/ Forgotten
  BY <1>26 DEF SafeInv, SketchTyped, FormatInv, Kept, Present, ResetLock, At, Goto, repr,
       locals, history
<1>27. ASSUME NEW t \in Threads, ResetSparse(t), UNCHANGED usage
      PROVE  Kept \/ Forgotten
  BY <1>27 DEF Forgotten, ResetSparse, ForgetAll
<1>28. ASSUME NEW t \in Threads, ResetDense(t), UNCHANGED usage
      PROVE  Kept \/ Forgotten
  BY <1>28 DEF Forgotten, ResetDense, ForgetAll
<1>29. CASE UNCHANGED vars
  BY <1>29 DEF SafeInv, SketchTyped, FormatInv, Kept, Present, vars, repr, locks, locals,
       history
<1>30. ASSUME NEW t \in Threads, ExpRegs(t), UNCHANGED usage
      PROVE  Kept \/ Forgotten
  BY <1>30 DEF SafeInv, SketchTyped, FormatInv, Kept, Present, ExpRegs, At, Return, repr, locks,
       Goto
<1>31. QED
  BY <1>1, <1>2, <1>3, <1>4, <1>5, <1>6, <1>7, <1>8, <1>9, <1>10, <1>11, <1>12, <1>13, <1>14,
       <1>15, <1>16, <1>17, <1>18, <1>19, <1>20, <1>21, <1>22, <1>23, <1>24, <1>25, <1>26,
       <1>27, <1>28, <1>29, <1>30 DEF Next, Call, Step, Convert

LEMMA CopyStep ==
  ASSUME OneInserter, SafeInv, CallerInv, CopyInv, [Next]_vars
  PROVE  CopyInv'
<1>1. ASSUME NEW t \in Threads, NEW h \in Hash, CallInsert(t, h), UNCHANGED usage
      PROVE  CopyInv'
  BY <1>1, SoleInserter, Constants DEF SafeInv, SketchTyped, LockInv, Holding, CallerInv,
       CopyInv, Inserting, Merging, Converting, CallInsert, At, Goto, BeginUpdate, repr, locks
<1>2. ASSUME NEW t \in Threads, NEW in \in usage.incoming, CallMerge(t, in), UNCHANGED usage
      PROVE  CopyInv'
  BY <1>2, SoleInserter, Constants DEF SafeInv, SketchTyped, LockInv, Holding, CallerInv,
       CopyInv, Inserting, Merging, Converting, CallMerge, At, Goto, BeginUpdate, repr, locks
<1>3. ASSUME NEW t \in Threads, CallElements(t), UNCHANGED usage
      PROVE  CopyInv'
  BY <1>3, SoleInserter, Constants DEF SafeInv, SketchTyped, LockInv, Holding, CallerInv,
       CopyInv, Inserting, Merging, Converting, CallElements, At, Goto, BeginRead, repr, locks
<1>4. ASSUME NEW t \in Threads, CallExport(t), UNCHANGED usage
      PROVE  CopyInv'
  BY <1>4, SoleInserter, Constants DEF SafeInv, SketchTyped, LockInv, Holding, CallerInv,
       CopyInv, Inserting, Merging, Converting, CallExport, At, Goto, BeginRead, repr, locks
<1>5. ASSUME NEW t \in Threads, CallReset(t), UNCHANGED usage
      PROVE  CopyInv'
  BY <1>5, SoleInserter, Constants DEF SafeInv, SketchTyped, LockInv, Holding, CallerInv,
       CopyInv, Inserting, Merging, Converting, CallReset, At, Goto, repr, locks, locals,
       history
<1>6. ASSUME NEW t \in Threads, LoadSparse(t), UNCHANGED usage
      PROVE  CopyInv'
  BY <1>6, SoleInserter, Constants DEF SafeInv, SketchTyped, LockInv, Holding, CallerInv,
       CopyInv, Inserting, Merging, Converting, LoadSparse, At, Goto, repr, locks, locals,
       history
<1>7. ASSUME NEW t \in Threads, InsertSparse(t), UNCHANGED usage
      PROVE  CopyInv'
  BY <1>7, SoleInserter, Constants DEF SafeInv, SketchTyped, LockInv, Holding, CallerInv,
       CopyInv, Inserting, Merging, Converting, InsertSparse, At, Goto, SparseFree, locks,
       locals, history
<1>8. ASSUME NEW t \in Threads, CheckLen(t), UNCHANGED usage
      PROVE  CopyInv'
  BY <1>8, SoleInserter, Constants DEF SafeInv, SketchTyped, LockInv, Holding, CallerInv,
       CopyInv, Inserting, Merging, Converting, CheckLen, At, Goto, Return, SparseFree, repr,
       locks, locals, history
<1>9. ASSUME NEW t \in Threads, LockConvert(t), UNCHANGED usage
      PROVE  CopyInv'
  BY <1>9, SoleInserter, Constants DEF SafeInv, SketchTyped, LockInv, Holding, CallerInv,
       CopyInv, Inserting, Merging, Converting, LockConvert, At, Goto, Return, repr, locals,
       history
<1>10. ASSUME NEW t \in Threads, InsertDense(t), UNCHANGED usage
      PROVE  CopyInv'
  BY <1>10, SoleInserter, Constants DEF SafeInv, SketchTyped, LockInv, Holding, CallerInv,
       CopyInv, Inserting, Merging, Converting, InsertDense, At, Return, Crash,
       SetRegisterMax, locks, repr, locals, history, Goto
<1>11. ASSUME NEW t \in Threads, ConvMerge(t), UNCHANGED usage
      PROVE  CopyInv'
  BY <1>11, SoleInserter, Constants DEF SafeInv, SketchTyped, LockInv, Holding, CallerInv,
       CopyInv, Inserting, Merging, Converting, ConvMerge, At, Goto, MergeTempSet, SparseFree,
       locks, locals, history
<1>12. ASSUME NEW t \in Threads, ConvCopy(t), UNCHANGED usage
      PROVE  CopyInv'
  BY <1>12, SoleInserter, Constants DEF SafeInv, SketchTyped, LockInv, Holding, CallerInv,
       CopyInv, Inserting, Merging, Converting, ConvCopy, At, Goto, SparseFree, repr, locks,
       history
<1>13. ASSUME NEW t \in Threads, ConvFormat(t), UNCHANGED usage
      PROVE  CopyInv'
  BY <1>13, SoleInserter, Constants DEF SafeInv, SketchTyped, LockInv, Holding, CallerInv,
       CopyInv, Inserting, Merging, Converting, ConvFormat, At, Goto, locks, locals, history
<1>14. ASSUME NEW t \in Threads, ConvDense(t), UNCHANGED usage
      PROVE  CopyInv'
  BY <1>14, SoleInserter, Constants DEF SafeInv, SketchTyped, LockInv, Holding, CallerInv,
       CopyInv, Inserting, Merging, Converting, ConvDense, At, Goto, locks, history
<1>15. ASSUME NEW t \in Threads, ConvDrop(t), UNCHANGED usage
      PROVE  CopyInv'
  BY <1>15, SoleInserter, Constants DEF SafeInv, SketchTyped, LockInv, Holding, CallerInv,
       CopyInv, Inserting, Merging, Converting, ConvDrop, At, Goto, Return, locks, locals,
       history
<1>16. ASSUME NEW t \in Threads, ElemLoad(t), UNCHANGED usage
      PROVE  CopyInv'
  BY <1>16, SoleInserter, Constants DEF SafeInv, SketchTyped, LockInv, Holding, CallerInv,
       CopyInv, Inserting, Merging, Converting, ElemLoad, At, Goto, Crash, repr, locks,
       locals, history
<1>17. ASSUME NEW t \in Threads, ElemSparse(t), UNCHANGED usage
      PROVE  CopyInv'
  BY <1>17, SoleInserter, Constants DEF SafeInv, SketchTyped, LockInv, Holding, CallerInv,
       CopyInv, Inserting, Merging, Converting, ElemSparse, At, Return, MergeTempSet,
       SparseFree, locks, Goto
<1>18. ASSUME NEW t \in Threads, ElemDense(t), UNCHANGED usage
      PROVE  CopyInv'
  BY <1>18, SoleInserter, Constants DEF SafeInv, SketchTyped, LockInv, Holding, CallerInv,
       CopyInv, Inserting, Merging, Converting, ElemDense, At, Return, Crash, repr, locks,
       locals, history, Goto
<1>19. ASSUME NEW t \in Threads, ExpLock(t), UNCHANGED usage
      PROVE  CopyInv'
  BY <1>19, SoleInserter, Constants DEF SafeInv, SketchTyped, LockInv, Holding, CallerInv,
       CopyInv, Inserting, Merging, Converting, ExpLock, At, Goto, repr, locals, history
<1>20. ASSUME NEW t \in Threads, ExpMerge(t), UNCHANGED usage
      PROVE  CopyInv'
  BY <1>20, SoleInserter, Constants DEF SafeInv, SketchTyped, LockInv, Holding, CallerInv,
       CopyInv, Inserting, Merging, Converting, ExpMerge, At, Goto, MergeTempSet, SparseFree,
       locks, locals, history
<1>21. ASSUME NEW t \in Threads, ExpCopy(t), UNCHANGED usage
      PROVE  CopyInv'
  BY <1>21, SoleInserter, Constants DEF SafeInv, SketchTyped, LockInv, Holding, CallerInv,
       CopyInv, Inserting, Merging, Converting, ExpCopy, At, Return, SparseFree, repr, Goto
<1>22. ASSUME NEW t \in Threads, ExpDense(t), UNCHANGED usage
      PROVE  CopyInv'
  BY <1>22, SoleInserter, Constants DEF SafeInv, SketchTyped, LockInv, Holding, CallerInv,
       CopyInv, Inserting, Merging, Converting, ExpDense, At, Return, repr, locks, Goto,
       locals, history
<1>23. ASSUME NEW t \in Threads, MergeLock(t), UNCHANGED usage
      PROVE  CopyInv'
  BY <1>23, SoleInserter, Constants DEF SafeInv, SketchTyped, LockInv, Holding, CallerInv,
       CopyInv, Inserting, Merging, Converting, MergeLock, At, Goto, Deciding, repr, history
<1>24. ASSUME NEW t \in Threads, MergeBoth(t), UNCHANGED usage
      PROVE  CopyInv'
  BY <1>24, SoleInserter, Constants DEF SafeInv, SketchTyped, LockInv, Holding, CallerInv,
       CopyInv, Inserting, Merging, Converting, MergeBoth, At, Goto, Return, SparseFree,
       locals, history
<1>25. ASSUME NEW t \in Threads, MergeRegs(t), UNCHANGED usage
      PROVE  CopyInv'
  BY <1>25, SoleInserter, Constants DEF SafeInv, SketchTyped, LockInv, Holding, CallerInv,
       CopyInv, Inserting, Merging, Converting, MergeRegs, At, Return, SetRegisterMax, locks,
       history, Goto
<1>26. ASSUME NEW t \in Threads, ResetLock(t), UNCHANGED usage
      PROVE  CopyInv'
  BY <1>26, SoleInserter, Constants DEF SafeInv, SketchTyped, LockInv, Holding, CallerInv,
       CopyInv, Inserting, Merging, Converting, ResetLock, At, Goto, repr, locals, history
<1>27. ASSUME NEW t \in Threads, ResetSparse(t), UNCHANGED usage
      PROVE  CopyInv'
  BY <1>27, SoleInserter, Constants DEF SafeInv, SketchTyped, LockInv, Holding, CallerInv,
       CopyInv, Inserting, Merging, Converting, ResetSparse, At, Goto, ForgetAll, SparseFree,
       locals
<1>28. ASSUME NEW t \in Threads, ResetDense(t), UNCHANGED usage
      PROVE  CopyInv'
  BY <1>28, SoleInserter, Constants DEF SafeInv, SketchTyped, LockInv, Holding, CallerInv,
       CopyInv, Inserting, Merging, Converting, ResetDense, At, Goto, ForgetAll, locals
<1>29. CASE UNCHANGED vars
  BY <1>29 DEF SafeInv, SketchTyped, LockInv, Holding, CallerInv, CopyInv, Inserting, Merging,
       Converting, vars, repr, locks, locals, history
<1>30. ASSUME NEW t \in Threads, ExpRegs(t), UNCHANGED usage
      PROVE  CopyInv'
  BY <1>30, SoleInserter, Constants DEF SafeInv, SketchTyped, LockInv, Holding, CallerInv,
       CopyInv, Inserting, Merging, Converting, ExpRegs, At, Return, repr, locks, Goto
<1>31. QED
  BY <1>1, <1>2, <1>3, <1>4, <1>5, <1>6, <1>7, <1>8, <1>9, <1>10, <1>11, <1>12, <1>13, <1>14,
       <1>15, <1>16, <1>17, <1>18, <1>19, <1>20, <1>21, <1>22, <1>23, <1>24, <1>25, <1>26,
       <1>27, <1>28, <1>29, <1>30 DEF Next, Call, Step, Convert

LEMMA OthersPlaced ==
  ASSUME SafeInv, PlacedInv, Kept \/ Forgotten, NEW u \in Threads,
         pc[u] \in Placed, fresh'[u] => fresh[u], arg'[u] = arg[u], todo'[u] = todo[u],
         fresh'[u], NEW h \in arg'[u]
  PROVE  Present(h)' \/ \E g \in todo'[u] : Covers(g, h)
<1>1. Kept
  BY DEF Forgotten
<1>2. h \in Hash
  BY DEF SafeInv, SketchTyped
<1>3. Present(h) \/ \E g \in todo[u] : Covers(g, h)
  BY DEF PlacedInv
<1>4. QED
  BY <1>1, <1>2, <1>3 DEF Kept

LEMMA PlacedStep ==
  ASSUME SafeInv, TodoInv, CallerInv, PlacedInv, Kept \/ Forgotten, [Next]_vars
  PROVE  PlacedInv'
<1>1. ASSUME NEW t \in Threads, NEW h \in Hash, CallInsert(t, h), UNCHANGED usage
      PROVE  PlacedInv'
  BY <1>1, OthersPlaced DEF SafeInv, SketchTyped, PlacedInv, Placed, Converting, CallInsert, At,
       Goto, BeginUpdate, repr, locks
<1>2. ASSUME NEW t \in Threads, NEW in \in usage.incoming, CallMerge(t, in), UNCHANGED usage
      PROVE  PlacedInv'
  BY <1>2, OthersPlaced DEF SafeInv, SketchTyped, PlacedInv, Placed, Converting, CallMerge, At,
       Goto, BeginUpdate, repr, locks
<1>3. ASSUME NEW t \in Threads, CallElements(t), UNCHANGED usage
      PROVE  PlacedInv'
  BY <1>3, OthersPlaced DEF SafeInv, SketchTyped, PlacedInv, Placed, Converting, CallElements,
       At, Goto, BeginRead, repr, locks
<1>4. ASSUME NEW t \in Threads, CallExport(t), UNCHANGED usage
      PROVE  PlacedInv'
  BY <1>4, OthersPlaced DEF SafeInv, SketchTyped, PlacedInv, Placed, Converting, CallExport, At,
       Goto, BeginRead, repr, locks
<1>5. ASSUME NEW t \in Threads, CallReset(t), UNCHANGED usage
      PROVE  PlacedInv'
  BY <1>5, OthersPlaced DEF SafeInv, SketchTyped, PlacedInv, Placed, Converting, CallReset, At,
       Goto, repr, locks, locals, history
<1>6. ASSUME NEW t \in Threads, LoadSparse(t), UNCHANGED usage
      PROVE  PlacedInv'
  BY <1>6, OthersPlaced DEF SafeInv, SketchTyped, PlacedInv, Placed, Converting, LoadSparse, At,
       Goto, repr, locks, locals, history
<1>7. ASSUME NEW t \in Threads, InsertSparse(t), UNCHANGED usage
      PROVE  PlacedInv'
  <2> SUFFICES ASSUME NEW u \in Threads, pc'[u] \in Placed, fresh'[u], NEW h \in arg'[u]
               PROVE  Present(h)' \/ \E g \in todo'[u] : Covers(g, h)
    BY DEF PlacedInv
  <2>1. CASE u # t
    <3>1. pc[u] \in Placed /\ fresh'[u] = fresh[u] /\ arg'[u] = arg[u] /\ todo'[u] = todo[u]
      BY <2>1, <1>7 DEF SafeInv, SketchTyped, InsertSparse, At, Goto, SparseFree, locks, locals,
           history
    <3>2. QED
      BY <3>1, OthersPlaced
  <2>2. CASE u = t
    <3>1. h \in arg[t] /\ arg[t] \subseteq temp' \cup sorted'
      BY <2>2, <1>7 DEF InsertSparse, At, Goto, SparseFree, locks, locals, history
    <3>2. dense' = Nil
      BY <1>7 DEF SafeInv, SketchTyped, FormatInv, CallerInv, InsertSparse, At
    <3>3. QED
      BY <3>1, <3>2 DEF Present
  <2>3. QED
    BY <2>1, <2>2
<1>8. ASSUME NEW t \in Threads, CheckLen(t), UNCHANGED usage
      PROVE  PlacedInv'
  BY <1>8, OthersPlaced DEF SafeInv, SketchTyped, PlacedInv, Placed, Converting, CheckLen, At,
       Goto, Return, SparseFree, repr, locks, locals, history
<1>9. ASSUME NEW t \in Threads, LockConvert(t), UNCHANGED usage
      PROVE  PlacedInv'
  BY <1>9, OthersPlaced DEF SafeInv, SketchTyped, PlacedInv, Placed, Converting, LockConvert,
       At, Goto, Return, repr, locals, history
<1>10. ASSUME NEW t \in Threads, InsertDense(t), UNCHANGED usage
      PROVE  PlacedInv'
  BY <1>10, OthersPlaced DEF SafeInv, SketchTyped, PlacedInv, Placed, Converting, InsertDense,
       At, Return, Crash, SetRegisterMax, locks, repr, locals, history, Goto
<1>11. ASSUME NEW t \in Threads, ConvMerge(t), UNCHANGED usage
      PROVE  PlacedInv'
  BY <1>11, OthersPlaced DEF SafeInv, SketchTyped, PlacedInv, Placed, Converting, ConvMerge, At,
       Goto, MergeTempSet, SparseFree, locks, locals, history
<1>12. ASSUME NEW t \in Threads, ConvCopy(t), UNCHANGED usage
      PROVE  PlacedInv'
  BY <1>12, OthersPlaced DEF SafeInv, SketchTyped, PlacedInv, Placed, Converting, ConvCopy, At,
       Goto, SparseFree, repr, locks, history
<1>13. ASSUME NEW t \in Threads, ConvFormat(t), UNCHANGED usage
      PROVE  PlacedInv'
  BY <1>13, OthersPlaced DEF SafeInv, SketchTyped, PlacedInv, Placed, Converting, ConvFormat,
       At, Goto, locks, locals, history
<1>14. ASSUME NEW t \in Threads, ConvDense(t), UNCHANGED usage
      PROVE  PlacedInv'
  BY <1>14, OthersPlaced DEF SafeInv, SketchTyped, PlacedInv, Placed, Converting, ConvDense, At,
       Goto, locks, history
<1>15. ASSUME NEW t \in Threads, ConvDrop(t), UNCHANGED usage
      PROVE  PlacedInv'
  BY <1>15, OthersPlaced DEF SafeInv, SketchTyped, PlacedInv, Placed, Converting, ConvDrop, At,
       Goto, Return, locks, locals, history
<1>16. ASSUME NEW t \in Threads, ElemLoad(t), UNCHANGED usage
      PROVE  PlacedInv'
  BY <1>16, OthersPlaced DEF SafeInv, SketchTyped, PlacedInv, Placed, Converting, ElemLoad, At,
       Goto, Crash, repr, locks, locals, history
<1>17. ASSUME NEW t \in Threads, ElemSparse(t), UNCHANGED usage
      PROVE  PlacedInv'
  BY <1>17, OthersPlaced DEF SafeInv, SketchTyped, PlacedInv, Placed, Converting, ElemSparse,
       At, Return, MergeTempSet, SparseFree, locks, Goto
<1>18. ASSUME NEW t \in Threads, ElemDense(t), UNCHANGED usage
      PROVE  PlacedInv'
  BY <1>18, OthersPlaced DEF SafeInv, SketchTyped, PlacedInv, Placed, Converting, ElemDense, At,
       Return, Crash, repr, locks, locals, history, Goto
<1>19. ASSUME NEW t \in Threads, ExpLock(t), UNCHANGED usage
      PROVE  PlacedInv'
  BY <1>19, OthersPlaced DEF SafeInv, SketchTyped, PlacedInv, Placed, Converting, ExpLock, At,
       Goto, repr, locals, history
<1>20. ASSUME NEW t \in Threads, ExpMerge(t), UNCHANGED usage
      PROVE  PlacedInv'
  BY <1>20, OthersPlaced DEF SafeInv, SketchTyped, PlacedInv, Placed, Converting, ExpMerge, At,
       Goto, MergeTempSet, SparseFree, locks, locals, history
<1>21. ASSUME NEW t \in Threads, ExpCopy(t), UNCHANGED usage
      PROVE  PlacedInv'
  BY <1>21, OthersPlaced DEF SafeInv, SketchTyped, PlacedInv, Placed, Converting, ExpCopy, At,
       Return, SparseFree, repr, Goto
<1>22. ASSUME NEW t \in Threads, ExpDense(t), UNCHANGED usage
      PROVE  PlacedInv'
  BY <1>22, OthersPlaced DEF SafeInv, SketchTyped, PlacedInv, Placed, Converting, ExpDense, At,
       Return, repr, locks, Goto, locals, history
<1>23. ASSUME NEW t \in Threads, MergeLock(t), UNCHANGED usage
      PROVE  PlacedInv'
  <2> SUFFICES ASSUME NEW u \in Threads, pc'[u] \in Placed, fresh'[u], NEW h \in arg'[u]
               PROVE  Present(h)' \/ \E g \in todo'[u] : Covers(g, h)
    BY DEF PlacedInv
  <2>1. CASE u # t
    <3>1. pc[u] \in Placed /\ fresh'[u] = fresh[u] /\ arg'[u] = arg[u] /\ todo'[u] = todo[u]
      BY <2>1, <1>23 DEF SafeInv, SketchTyped, MergeLock, At, Goto, Deciding, repr, history
    <3>2. QED
      BY <3>1, OthersPlaced
  <2>2. CASE u = t
    <3>1. h \in arg[t] /\ arg[t] \in SUBSET Hash
      BY <2>2, <1>23 DEF SafeInv, SketchTyped, MergeLock
    <3>2. todo'[t] \in {Deciding(arg[t]), arg[t]}
      <4>1. pc'[t] # "mergeBoth"
        BY <2>2 DEF Placed, Converting
      <4>2. QED
        BY <4>1, <1>23 DEF SafeInv, SketchTyped, MergeLock, At, Goto
    <3>3. \E g \in Deciding(arg[t]) : Covers(g, h)
      BY <3>1, DecidingCovers
    <3>4. Covers(h, h)
      BY <3>1, Constants DEF Covers
    <3>5. QED
      BY <2>2, <3>1, <3>2, <3>3, <3>4
  <2>3. QED
    BY <2>1, <2>2
<1>24. ASSUME NEW t \in Threads, MergeBoth(t), UNCHANGED usage
      PROVE  PlacedInv'
  <2> SUFFICES ASSUME NEW u \in Threads, pc'[u] \in Placed, fresh'[u], NEW h \in arg'[u]
               PROVE  Present(h)' \/ \E g \in todo'[u] : Covers(g, h)
    BY DEF PlacedInv
  <2>1. CASE u # t
    <3>1. pc[u] \in Placed /\ fresh'[u] = fresh[u] /\ arg'[u] = arg[u] /\ todo'[u] = todo[u]
      BY <2>1, <1>24 DEF SafeInv, SketchTyped, MergeBoth, At, Goto, Return, SparseFree, locals,
           history
    <3>2. QED
      BY <3>1, OthersPlaced
  <2>2. CASE u = t
    <3>1. h \in sorted' /\ dense' = Nil
      BY <2>2, <1>24 DEF SafeInv, SketchTyped, FormatInv, Placed, Converting, MergeBoth, At,
           Goto, Return, SparseFree, locals, history
    <3>2. QED
      BY <3>1 DEF Present
  <2>3. QED
    BY <2>1, <2>2
<1>25. ASSUME NEW t \in Threads, MergeRegs(t), UNCHANGED usage
      PROVE  PlacedInv'
  <2> SUFFICES ASSUME NEW u \in Threads, pc'[u] \in Placed, fresh'[u], NEW h \in arg'[u]
               PROVE  Present(h)' \/ \E g \in todo'[u] : Covers(g, h)
    BY DEF PlacedInv
  <2>1. CASE u # t
    <3>1. pc[u] \in Placed /\ fresh'[u] = fresh[u] /\ arg'[u] = arg[u] /\ todo'[u] = todo[u]
      BY <2>1, <1>25 DEF SafeInv, SketchTyped, MergeRegs, At, Return, SetRegisterMax, locks,
           history, Goto
    <3>2. QED
      BY <3>1, OthersPlaced
  <2>2. CASE u = t
    <3>1. todo[t] # {} /\ arg' = arg /\ fresh' = fresh /\ h \in Hash
      BY <2>2, <1>25 DEF SafeInv, SketchTyped, Placed, Converting, MergeRegs, At, Goto, Return,
           history
    <3>2. PICK f \in todo[t] : dense' = SetRegisterMax(dense, f) /\ todo' = [todo EXCEPT ![t]
              = @ \ {f}]
      BY <3>1, <1>25, RegisterPlaced DEF SafeInv
    <3>3. dense \in RegMap /\ dense' # Nil /\ f \in Hash
      BY <3>1, <1>25, RegisterPlaced DEF SafeInv, SketchTyped
    <3>4. Present(h) \/ \E g \in todo[t] : Covers(g, h)
      BY <2>2, <3>1, <1>25 DEF PlacedInv, Placed, MergeRegs, At
    <3>5. CASE Present(h)
      BY <3>1, <3>5, <1>25 DEF Kept, Forgotten
    <3>6. CASE Covers(f, h)
      BY <3>1, <3>2, <3>3, <3>6, RaisedCovers DEF Present
    <3>7. ASSUME NEW g \in todo[t], g # f, Covers(g, h)
          PROVE  \E k \in todo'[t] : Covers(k, h)
      BY <3>2, <3>7 DEF SafeInv, SketchTyped
    <3>8. QED
      BY <2>2, <3>4, <3>5, <3>6, <3>7
  <2>3. QED
    BY <2>1, <2>2
<1>26. ASSUME NEW t \in Threads, ResetLock(t), UNCHANGED usage
      PROVE  PlacedInv'
  BY <1>26, OthersPlaced DEF SafeInv, SketchTyped, PlacedInv, Placed, Converting, ResetLock, At,
       Goto, repr, locals, history
<1>27. ASSUME NEW t \in Threads, ResetSparse(t), UNCHANGED usage
      PROVE  PlacedInv'
  BY <1>27, OthersPlaced DEF SafeInv, SketchTyped, PlacedInv, Placed, Converting, ResetSparse,
       At, Goto, ForgetAll, SparseFree, locals
<1>28. ASSUME NEW t \in Threads, ResetDense(t), UNCHANGED usage
      PROVE  PlacedInv'
  BY <1>28, OthersPlaced DEF SafeInv, SketchTyped, PlacedInv, Placed, Converting, ResetDense,
       At, Goto, ForgetAll, locals
<1>29. CASE UNCHANGED vars
  BY <1>29 DEF SafeInv, SketchTyped, PlacedInv, Placed, Converting, Present, vars, repr, locks,
       locals, history
<1>30. ASSUME NEW t \in Threads, ExpRegs(t), UNCHANGED usage
      PROVE  PlacedInv'
  BY <1>30, OthersPlaced DEF SafeInv, SketchTyped, PlacedInv, Placed, Converting, ExpRegs, At,
       Return, repr, locks, Goto
<1>31. QED
  BY <1>1, <1>2, <1>3, <1>4, <1>5, <1>6, <1>7, <1>8, <1>9, <1>10, <1>11, <1>12, <1>13, <1>14,
       <1>15, <1>16, <1>17, <1>18, <1>19, <1>20, <1>21, <1>22, <1>23, <1>24, <1>25, <1>26,
       <1>27, <1>28, <1>29, <1>30 DEF Next, Call, Step, Convert

LEMMA MustKept ==
  ASSUME SafeInv, PlacedInv, MustInv, Kept \/ Forgotten, NEW t \in Threads,
         \/ must' = must
         \/ /\ must' = must \cup (IF fresh[t] THEN arg[t] ELSE {})
            /\ \/ arg[t] = {}
               \/ pc[t] \in Placed /\ todo[t] = {}
               \/ \A h \in arg[t] : Present(h)'
  PROVE  MustInv'
<1>1. CASE Forgotten
  BY <1>1 DEF Forgotten, MustInv
<1>2. CASE Kept
  <2>1. must \subseteq Hash /\ arg[t] \subseteq Hash
    BY DEF SafeInv, SketchTyped
  <2>2. \A h \in must : Present(h)'
    BY <1>2, <2>1 DEF Kept, MustInv
  <2>3. ASSUME fresh[t], pc[t] \in Placed, todo[t] = {}
        PROVE  \A h \in arg[t] : Present(h)'
    BY <1>2, <2>1, <2>3 DEF Kept, PlacedInv
  <2>4. QED
    BY <2>2, <2>3 DEF MustInv
<1>3. QED
  BY <1>1, <1>2

LEMMA MustStep ==
  ASSUME SafeInv, TodoInv, CallerInv, PlacedInv, MustInv, Kept \/ Forgotten, [Next]_vars
  PROVE  MustInv'
<1>1. ASSUME NEW t \in Threads, NEW h \in Hash, CallInsert(t, h), UNCHANGED usage
      PROVE  MustInv'
  BY <1>1, MustKept DEF history, CallInsert, At, Goto, BeginUpdate, repr, locks
<1>2. ASSUME NEW t \in Threads, NEW in \in usage.incoming, CallMerge(t, in), UNCHANGED usage
      PROVE  MustInv'
  BY <1>2, MustKept DEF history, CallMerge, At, Goto, BeginUpdate, repr, locks
<1>3. ASSUME NEW t \in Threads, CallElements(t), UNCHANGED usage
      PROVE  MustInv'
  BY <1>3, MustKept DEF history, CallElements, At, Goto, BeginRead, repr, locks
<1>4. ASSUME NEW t \in Threads, CallExport(t), UNCHANGED usage
      PROVE  MustInv'
  BY <1>4, MustKept DEF history, CallExport, At, Goto, BeginRead, repr, locks
<1>5. ASSUME NEW t \in Threads, CallReset(t), UNCHANGED usage
      PROVE  MustInv'
  BY <1>5, MustKept DEF history, CallReset, At, Goto, repr, locks, locals, history
<1>6. ASSUME NEW t \in Threads, LoadSparse(t), UNCHANGED usage
      PROVE  MustInv'
  BY <1>6, MustKept DEF history, LoadSparse, At, Goto, repr, locks, locals, history
<1>7. ASSUME NEW t \in Threads, InsertSparse(t), UNCHANGED usage
      PROVE  MustInv'
  BY <1>7, MustKept DEF history, InsertSparse, At, Goto, SparseFree, locks, locals, history
<1>8. ASSUME NEW t \in Threads, CheckLen(t), UNCHANGED usage
      PROVE  MustInv'
  <2>1. must' = must \/ must' = must \cup (IF fresh[t] THEN arg[t] ELSE {})
    BY <1>8 DEF CheckLen, At, Goto, Return, SparseFree, repr, locks, locals, history
  <2>2. must' = must \/ (pc[t] \in Placed /\ todo[t] = {})
    BY <1>8 DEF TodoInv, Placed, Converting, SafeInv, SketchTyped, CheckLen, At, Goto, Return,
         SparseFree, repr, locks, locals, history
  <2>3. QED
    BY <2>1, <2>2, MustKept
<1>9. ASSUME NEW t \in Threads, LockConvert(t), UNCHANGED usage
      PROVE  MustInv'
  <2>1. must' = must \/ must' = must \cup (IF fresh[t] THEN arg[t] ELSE {})
    BY <1>9 DEF LockConvert, At, Goto, Return, repr, locals, history
  <2>2. must' = must \/ (pc[t] \in Placed /\ todo[t] = {})
    BY <1>9 DEF TodoInv, Placed, Converting, SafeInv, SketchTyped, LockConvert, At, Goto,
         Return, repr, locals, history
  <2>3. QED
    BY <2>1, <2>2, MustKept
<1>10. ASSUME NEW t \in Threads, InsertDense(t), UNCHANGED usage
      PROVE  MustInv'
  <2>1. CASE dense = Nil
    BY <2>1, <1>10, MustKept DEF InsertDense, Crash, history
  <2>2. CASE dense # Nil
    <3>1. must' = must \cup (IF fresh[t] THEN arg[t] ELSE {})
      BY <2>2, <1>10 DEF InsertDense, Return
    <3>2. PICK h \in Hash : arg[t] = {h}
      BY <1>10 DEF CallerInv, Inserting, InsertDense, At
    <3>3. dense' = SetRegisterMax(dense, h) /\ dense \in RegMap /\ dense' # Nil
      BY <2>2, <3>2, <1>10, RegisterRaised DEF SafeInv
    <3>4. Covers(h, h)
      BY <3>2, Constants DEF Covers
    <3>5. \A g \in arg[t] : Present(g)'
      BY <3>2, <3>3, <3>4, RaisedCovers DEF Present
    <3>6. QED
      BY <3>1, <3>5, MustKept
  <2>3. QED
    BY <2>1, <2>2
<1>11. ASSUME NEW t \in Threads, ConvMerge(t), UNCHANGED usage
      PROVE  MustInv'
  BY <1>11, MustKept DEF history, ConvMerge, At, Goto, MergeTempSet, SparseFree, locks,
       locals, history
<1>12. ASSUME NEW t \in Threads, ConvCopy(t), UNCHANGED usage
      PROVE  MustInv'
  BY <1>12, MustKept DEF history, ConvCopy, At, Goto, SparseFree, repr, locks, history
<1>13. ASSUME NEW t \in Threads, ConvFormat(t), UNCHANGED usage
      PROVE  MustInv'
  BY <1>13, MustKept DEF history, ConvFormat, At, Goto, locks, locals, history
<1>14. ASSUME NEW t \in Threads, ConvDense(t), UNCHANGED usage
      PROVE  MustInv'
  BY <1>14, MustKept DEF history, ConvDense, At, Goto, locks, history
<1>15. ASSUME NEW t \in Threads, ConvDrop(t), UNCHANGED usage
      PROVE  MustInv'
  <2>1. must' = must \/ must' = must \cup (IF fresh[t] THEN arg[t] ELSE {})
    BY <1>15 DEF ConvDrop, At, Goto, Return, locks, locals, history
  <2>2. must' = must \/ (pc[t] \in Placed /\ todo[t] = {})
    BY <1>15 DEF TodoInv, Placed, Converting, SafeInv, SketchTyped, ConvDrop, At, Goto, Return,
         locks, locals, history
  <2>3. QED
    BY <2>1, <2>2, MustKept
<1>16. ASSUME NEW t \in Threads, ElemLoad(t), UNCHANGED usage
      PROVE  MustInv'
  BY <1>16, MustKept DEF history, ElemLoad, At, Goto, Crash, repr, locks, locals, history
<1>17. ASSUME NEW t \in Threads, ElemSparse(t), UNCHANGED usage
      PROVE  MustInv'
  <2>1. must' = must \/ must' = must \cup (IF fresh[t] THEN arg[t] ELSE {})
    BY <1>17 DEF ElemSparse, At, Return, MergeTempSet, SparseFree, locks, Goto
  <2>2. arg[t] = {}
    BY <1>17 DEF CallerInv, Inserting, Merging, Converting, SafeInv, SketchTyped, ElemSparse,
         At, Return, MergeTempSet, SparseFree, locks, Goto
  <2>3. QED
    BY <2>1, <2>2, MustKept
<1>18. ASSUME NEW t \in Threads, ElemDense(t), UNCHANGED usage
      PROVE  MustInv'
  <2>1. must' = must \/ must' = must \cup (IF fresh[t] THEN arg[t] ELSE {})
    BY <1>18 DEF ElemDense, At, Return, Crash, repr, locks, locals, history, Goto
  <2>2. arg[t] = {}
    BY <1>18 DEF CallerInv, Inserting, Merging, Converting, SafeInv, SketchTyped, ElemDense, At,
         Return, Crash, repr, locks, locals, history, Goto
  <2>3. QED
    BY <2>1, <2>2, MustKept
<1>19. ASSUME NEW t \in Threads, ExpLock(t), UNCHANGED usage
      PROVE  MustInv'
  BY <1>19, MustKept DEF history, ExpLock, At, Goto, repr, locals, history
<1>20. ASSUME NEW t \in Threads, ExpMerge(t), UNCHANGED usage
      PROVE  MustInv'
  BY <1>20, MustKept DEF history, ExpMerge, At, Goto, MergeTempSet, SparseFree, locks, locals,
       history
<1>21. ASSUME NEW t \in Threads, ExpCopy(t), UNCHANGED usage
      PROVE  MustInv'
  <2>1. must' = must \/ must' = must \cup (IF fresh[t] THEN arg[t] ELSE {})
    BY <1>21 DEF ExpCopy, At, Return, SparseFree, repr, Goto
  <2>2. arg[t] = {}
    BY <1>21 DEF CallerInv, Inserting, Merging, Converting, SafeInv, SketchTyped, ExpCopy, At,
         Return, SparseFree, repr, Goto
  <2>3. QED
    BY <2>1, <2>2, MustKept
<1>22. ASSUME NEW t \in Threads, ExpDense(t), UNCHANGED usage
      PROVE  MustInv'
  <2>1. must' = must \/ must' = must \cup (IF fresh[t] THEN arg[t] ELSE {})
    BY <1>22 DEF ExpDense, At, Return, repr, locks, Goto, locals, history
  <2>2. arg[t] = {}
    BY <1>22 DEF CallerInv, Inserting, Merging, Converting, SafeInv, SketchTyped, ExpDense, At,
         Return, repr, locks, Goto, locals, history
  <2>3. QED
    BY <2>1, <2>2, MustKept
<1>23. ASSUME NEW t \in Threads, MergeLock(t), UNCHANGED usage
      PROVE  MustInv'
  BY <1>23, MustKept DEF history, MergeLock, At, Goto, Deciding, repr, history
<1>24. ASSUME NEW t \in Threads, MergeBoth(t), UNCHANGED usage
      PROVE  MustInv'
  <2>1. must' = must \/ must' = must \cup (IF fresh[t] THEN arg[t] ELSE {})
    BY <1>24 DEF MergeBoth, At, Goto, Return, SparseFree, locals, history
  <2>2. arg[t] \subseteq sorted' /\ dense' = Nil
    BY <1>24 DEF SafeInv, SketchTyped, FormatInv, MergeBoth, At
  <2>3. \A h \in arg[t] : Present(h)'
    BY <2>2 DEF Present
  <2>4. QED
    BY <2>1, <2>3, MustKept
<1>25. ASSUME NEW t \in Threads, MergeRegs(t), UNCHANGED usage
      PROVE  MustInv'
  <2>1. must' = must \/ must' = must \cup (IF fresh[t] THEN arg[t] ELSE {})
    BY <1>25 DEF MergeRegs, At, Return, SetRegisterMax, locks, history, Goto
  <2>2. must' = must \/ (pc[t] \in Placed /\ todo[t] = {})
    BY <1>25 DEF TodoInv, Placed, Converting, SafeInv, SketchTyped, MergeRegs, At, Return,
         SetRegisterMax, locks, history, Goto
  <2>3. QED
    BY <2>1, <2>2, MustKept
<1>26. ASSUME NEW t \in Threads, ResetLock(t), UNCHANGED usage
      PROVE  MustInv'
  BY <1>26, MustKept DEF history, ResetLock, At, Goto, repr, locals, history
<1>27. ASSUME NEW t \in Threads, ResetSparse(t), UNCHANGED usage
      PROVE  MustInv'
  BY <1>27 DEF MustInv, ResetSparse, At, Goto, ForgetAll, SparseFree, locals
<1>28. ASSUME NEW t \in Threads, ResetDense(t), UNCHANGED usage
      PROVE  MustInv'
  BY <1>28 DEF MustInv, ResetDense, At, Goto, ForgetAll, locals
<1>29. CASE UNCHANGED vars
  BY <1>29 DEF history, MustInv, Present, vars, repr, locks, locals, history
<1>30. ASSUME NEW t \in Threads, ExpRegs(t), UNCHANGED usage
      PROVE  MustInv'
  <2>1. must' = must \/ must' = must \cup (IF fresh[t] THEN arg[t] ELSE {})
    BY <1>30 DEF ExpRegs, At, Return, repr, locks, Goto
  <2>2. arg[t] = {}
    BY <1>30 DEF CallerInv, Inserting, Merging, Converting, SafeInv, SketchTyped, ExpRegs, At,
         Return, repr, locks, Goto
  <2>3. QED
    BY <2>1, <2>2, MustKept
<1>31. QED
  BY <1>1, <1>2, <1>3, <1>4, <1>5, <1>6, <1>7, <1>8, <1>9, <1>10, <1>11, <1>12, <1>13, <1>14,
       <1>15, <1>16, <1>17, <1>18, <1>19, <1>20, <1>21, <1>22, <1>23, <1>24, <1>25, <1>26,
       <1>27, <1>28, <1>29, <1>30 DEF Next, Call, Step, Convert

------------------------------------------------------------------------------
(* With one inserter: what readers see *)

LEMMA ReadStep ==
  ASSUME SafeInv, MustInv, ReadInv, [Next]_vars
  PROVE  ReadInv'
<1>1. ASSUME NEW t \in Threads, NEW h \in Hash, CallInsert(t, h), UNCHANGED usage
      PROVE  ReadInv'
  BY <1>1 DEF SafeInv, SketchTyped, FormatInv, ReadInv, CallInsert, At, Goto, BeginUpdate, repr,
       locks
<1>2. ASSUME NEW t \in Threads, NEW in \in usage.incoming, CallMerge(t, in), UNCHANGED usage
      PROVE  ReadInv'
  BY <1>2 DEF SafeInv, SketchTyped, FormatInv, ReadInv, CallMerge, At, Goto, BeginUpdate,
       repr, locks
<1>3. ASSUME NEW t \in Threads, CallElements(t), UNCHANGED usage
      PROVE  ReadInv'
  BY <1>3 DEF SafeInv, SketchTyped, FormatInv, ReadInv, MustInv, Present, CallElements, At,
       Goto, BeginRead, repr, locks
<1>4. ASSUME NEW t \in Threads, CallExport(t), UNCHANGED usage
      PROVE  ReadInv'
  BY <1>4 DEF SafeInv, SketchTyped, FormatInv, ReadInv, MustInv, Present, CallExport, At, Goto,
       BeginRead, repr, locks
<1>5. ASSUME NEW t \in Threads, CallReset(t), UNCHANGED usage
      PROVE  ReadInv'
  BY <1>5 DEF SafeInv, SketchTyped, FormatInv, ReadInv, CallReset, At, Goto, repr, locks,
       locals, history
<1>6. ASSUME NEW t \in Threads, LoadSparse(t), UNCHANGED usage
      PROVE  ReadInv'
  BY <1>6 DEF SafeInv, SketchTyped, FormatInv, ReadInv, LoadSparse, At, Goto, repr, locks,
       locals, history
<1>7. ASSUME NEW t \in Threads, InsertSparse(t), UNCHANGED usage
      PROVE  ReadInv'
  BY <1>7 DEF SafeInv, SketchTyped, FormatInv, ReadInv, InsertSparse, At, Goto, SparseFree,
       locks, locals, history
<1>8. ASSUME NEW t \in Threads, CheckLen(t), UNCHANGED usage
      PROVE  ReadInv'
  BY <1>8 DEF SafeInv, SketchTyped, FormatInv, ReadInv, CheckLen, At, Goto, Return, SparseFree,
       repr, locks, locals, history
<1>9. ASSUME NEW t \in Threads, LockConvert(t), UNCHANGED usage
      PROVE  ReadInv'
  BY <1>9 DEF SafeInv, SketchTyped, FormatInv, ReadInv, LockConvert, At, Goto, Return, repr,
       locals, history
<1>10. ASSUME NEW t \in Threads, InsertDense(t), UNCHANGED usage
      PROVE  ReadInv'
  BY <1>10 DEF SafeInv, SketchTyped, FormatInv, ReadInv, InsertDense, At, Return, Crash,
       SetRegisterMax, locks, repr, locals, history, Goto
<1>11. ASSUME NEW t \in Threads, ConvMerge(t), UNCHANGED usage
      PROVE  ReadInv'
  BY <1>11 DEF SafeInv, SketchTyped, FormatInv, ReadInv, ConvMerge, At, Goto, MergeTempSet,
       SparseFree, locks, locals, history
<1>12. ASSUME NEW t \in Threads, ConvCopy(t), UNCHANGED usage
      PROVE  ReadInv'
  BY <1>12 DEF SafeInv, SketchTyped, FormatInv, ReadInv, ConvCopy, At, Goto, SparseFree, repr,
       locks, history
<1>13. ASSUME NEW t \in Threads, ConvFormat(t), UNCHANGED usage
      PROVE  ReadInv'
  BY <1>13 DEF SafeInv, SketchTyped, FormatInv, ReadInv, ConvFormat, At, Goto, locks, locals,
       history
<1>14. ASSUME NEW t \in Threads, ConvDense(t), UNCHANGED usage
      PROVE  ReadInv'
  BY <1>14 DEF SafeInv, SketchTyped, FormatInv, ReadInv, ConvDense, At, Goto, locks, history
<1>15. ASSUME NEW t \in Threads, ConvDrop(t), UNCHANGED usage
      PROVE  ReadInv'
  BY <1>15 DEF SafeInv, SketchTyped, FormatInv, ReadInv, ConvDrop, At, Goto, Return, locks,
       locals, history
<1>16. ASSUME NEW t \in Threads, ElemLoad(t), UNCHANGED usage
      PROVE  ReadInv'
  BY <1>16 DEF SafeInv, SketchTyped, FormatInv, ReadInv, ElemLoad, At, Goto, Crash, repr, locks,
       locals, history
<1>17. ASSUME NEW t \in Threads, ElemSparse(t), UNCHANGED usage
      PROVE  ReadInv'
  BY <1>17 DEF SafeInv, SketchTyped, FormatInv, ReadInv, ElemSparse, At, Return, MergeTempSet,
       SparseFree, locks, Goto
<1>18. ASSUME NEW t \in Threads, ElemDense(t), UNCHANGED usage
      PROVE  ReadInv'
  BY <1>18 DEF SafeInv, SketchTyped, FormatInv, ReadInv, ElemDense, At, Return, Crash, repr,
       locks, locals, history, Goto
<1>19. ASSUME NEW t \in Threads, ExpLock(t), UNCHANGED usage
      PROVE  ReadInv'
  BY <1>19 DEF SafeInv, SketchTyped, FormatInv, ReadInv, ExpLock, At, Goto, repr, locals,
       history
<1>20. ASSUME NEW t \in Threads, ExpMerge(t), UNCHANGED usage
      PROVE  ReadInv'
  BY <1>20 DEF SafeInv, SketchTyped, FormatInv, ReadInv, ExpMerge, At, Goto, MergeTempSet,
       SparseFree, locks, locals, history
<1>21. ASSUME NEW t \in Threads, ExpCopy(t), UNCHANGED usage
      PROVE  ReadInv'
  BY <1>21 DEF SafeInv, SketchTyped, FormatInv, ReadInv, ExpCopy, At, Return, SparseFree,
       repr, Goto
<1>22. ASSUME NEW t \in Threads, ExpDense(t), UNCHANGED usage
      PROVE  ReadInv'
  BY <1>22 DEF SafeInv, SketchTyped, FormatInv, ReadInv, ExpDense, At, Return, repr, locks,
       Goto, locals, history
<1>23. ASSUME NEW t \in Threads, MergeLock(t), UNCHANGED usage
      PROVE  ReadInv'
  BY <1>23 DEF SafeInv, SketchTyped, FormatInv, ReadInv, MergeLock, At, Goto, Deciding, repr,
       history
<1>24. ASSUME NEW t \in Threads, MergeBoth(t), UNCHANGED usage
      PROVE  ReadInv'
  BY <1>24 DEF SafeInv, SketchTyped, FormatInv, ReadInv, MergeBoth, At, Goto, Return,
       SparseFree, locals, history
<1>25. ASSUME NEW t \in Threads, MergeRegs(t), UNCHANGED usage
      PROVE  ReadInv'
  BY <1>25 DEF SafeInv, SketchTyped, FormatInv, ReadInv, MergeRegs, At, Return, SetRegisterMax,
       locks, history, Goto
<1>26. ASSUME NEW t \in Threads, ResetLock(t), UNCHANGED usage
      PROVE  ReadInv'
  BY <1>26 DEF SafeInv, SketchTyped, FormatInv, ReadInv, ResetLock, At, Goto, repr, locals,
       history
<1>27. ASSUME NEW t \in Threads, ResetSparse(t), UNCHANGED usage
      PROVE  ReadInv'
  BY <1>27 DEF SafeInv, SketchTyped, FormatInv, ReadInv, ResetSparse, At, Goto, ForgetAll,
       SparseFree, locals
<1>28. ASSUME NEW t \in Threads, ResetDense(t), UNCHANGED usage
      PROVE  ReadInv'
  BY <1>28 DEF SafeInv, SketchTyped, FormatInv, ReadInv, ResetDense, At, Goto, ForgetAll, locals
<1>29. CASE UNCHANGED vars
  BY <1>29 DEF SafeInv, SketchTyped, FormatInv, ReadInv, vars, repr, locks, locals, history
<1>30. ASSUME NEW t \in Threads, ExpRegs(t), UNCHANGED usage
      PROVE  ReadInv'
  BY <1>30 DEF SafeInv, SketchTyped, FormatInv, ReadInv, ExpRegs, At, Return, repr, locks, Goto
<1>31. QED
  BY <1>1, <1>2, <1>3, <1>4, <1>5, <1>6, <1>7, <1>8, <1>9, <1>10, <1>11, <1>12, <1>13, <1>14,
       <1>15, <1>16, <1>17, <1>18, <1>19, <1>20, <1>21, <1>22, <1>23, <1>24, <1>25, <1>26,
       <1>27, <1>28, <1>29, <1>30 DEF Next, Call, Step, Convert

------------------------------------------------------------------------------
(* With one inserter: what an export of registers copies *)

\* Ranks a register has had since the copy began are no lower than those of the
\* hashes that the export has to contain.
ExportInv ==
  \A t \in Threads : pc[t] = "expRegs" =>
    /\ dense # Nil
    /\ \A h \in need[t] : \A r \in seen[t][IdxOf[h]] : r >= RhoOf[h]

\* No step but ExpDense leads to the copy; meanwhile the registers stay, and what
\* the export has to contain does not grow.
CopyGoesOn ==
  \A u \in Threads : pc'[u] = "expRegs" =>
    pc[u] = "expRegs" /\ need'[u] \subseteq need[u] /\ dense' # Nil

LEMMA CopyUndisturbed ==
  ASSUME SafeInv, ExportInv, NEW t \in Threads,
         Call(t) \/ Step(t), ~ExpDense(t)
  PROVE  CopyGoesOn
<1> USE DEF CopyGoesOn, ExportInv, Goto, At
<1>1. pc \in [Threads -> PC] /\ need \in [Threads -> SUBSET Hash]
  BY DEF SafeInv, SketchTyped
<1>2. CASE Call(t)
  <2>1. ASSUME NEW h \in Hash, CallInsert(t, h)
        PROVE  CopyGoesOn
    BY <1>1, <2>1 DEF CallInsert, BeginUpdate, repr
  <2>2. ASSUME NEW in \in usage.incoming, CallMerge(t, in)
        PROVE  CopyGoesOn
    BY <1>1, <2>2 DEF CallMerge, BeginUpdate, repr
  <2>3. CASE CallElements(t) \/ CallExport(t)
    BY <1>1, <2>3 DEF CallElements, CallExport, BeginRead, repr
  <2>4. CASE CallReset(t)
    BY <1>1, <2>4 DEF CallReset, repr, history
  <2>5. QED
    BY <1>2, <2>1, <2>2, <2>3, <2>4 DEF Call
<1>3. CASE LoadSparse(t) \/ InsertSparse(t) \/ CheckLen(t) \/ LockConvert(t)
  BY <1>1, <1>3 DEF LoadSparse, InsertSparse, CheckLen, LockConvert, Return, repr, history
<1>4. CASE InsertDense(t)
  <2>1. CASE dense = Nil
    BY <1>1, <1>4, <2>1 DEF InsertDense, Crash, repr, history
  <2>2. CASE dense # Nil
    BY <1>1, <1>4, <2>2, RegisterRaised DEF InsertDense, Return, SafeInv
  <2>3. QED
    BY <2>1, <2>2
<1>5. CASE Convert(t)
  <2>1. CASE ConvMerge(t) \/ ConvCopy(t) \/ ConvFormat(t)
    BY <1>1, <2>1 DEF ConvMerge, ConvCopy, ConvFormat, repr, history
  <2>2. CASE ConvDense(t)
    <3>1. dense' # Nil
      BY <2>2, RegistersType DEF ConvDense, SafeInv, SketchTyped
    <3>2. QED
      BY <1>1, <2>2, <3>1 DEF ConvDense, history
  <2>3. CASE ConvDrop(t)
    BY <1>1, <2>3 DEF ConvDrop, Return, history
  <2>4. QED
    BY <1>5, <2>1, <2>2, <2>3 DEF Convert
<1>6. CASE ElemLoad(t) \/ ElemSparse(t) \/ ElemDense(t)
  BY <1>1, <1>6 DEF ElemLoad, ElemSparse, ElemDense, Crash, Return, repr, history
<1>7. CASE ExpLock(t) \/ ExpMerge(t) \/ ExpCopy(t) \/ ExpRegs(t)
  BY <1>1, <1>7 DEF ExpLock, ExpMerge, ExpCopy, ExpRegs, Return, repr, history
<1>8. CASE MergeLock(t) \/ MergeBoth(t)
  BY <1>1, <1>8 DEF MergeLock, MergeBoth, Return, repr, history
<1>9. CASE MergeRegs(t)
  <2>1. CASE todo[t] = {}
    BY <1>1, <1>9, <2>1 DEF MergeRegs, Return
  <2>2. CASE todo[t] # {}
    BY <1>1, <1>9, <2>2, RegisterPlaced DEF MergeRegs, history, SafeInv
  <2>3. QED
    BY <2>1, <2>2
<1>10. CASE ResetLock(t) \/ ResetSparse(t) \/ ResetDense(t)
  BY <1>1, <1>10, RegistersType DEF ResetLock, ResetSparse, ResetDense, ForgetAll, repr, history
<1>11. QED
  BY <1>2, <1>3, <1>4, <1>5, <1>6, <1>7, <1>8, <1>9, <1>10 DEF Step

LEMMA ExportStep ==
  ASSUME SafeInv, MustInv, ReadInv, ExportInv, SeenTyped, MustInv', ReadInv', [Next]_vars
  PROVE  ExportInv'
<1>1. ASSUME NEW t \in Threads, ExpDense(t)
      PROVE  ExportInv'
  <2>1. CASE dense = Nil
    BY <1>1, <2>1 DEF ExpDense, ExportInv, At, Return, Goto, repr, SafeInv, SketchTyped
  <2>2. CASE dense # Nil
    <3>1. \A h \in need[t] : dense[IdxOf[h]] >= RhoOf[h] /\ IdxOf[h] \in Idx
      BY <2>2, Constants DEF MustInv, ReadInv, Present, SafeInv, SketchTyped
    <3>2. /\ \A u \in Threads : u # t => pc'[u] = pc[u] /\ seen'[u] = seen[u]
          /\ seen'[t] = [i \in Idx |-> {dense[i]}]
          /\ UNCHANGED <<dense, need>>
      BY <1>1, <2>2 DEF ExpDense, Goto, repr, history, SeenTyped, SafeInv, SketchTyped
    <3>3. ASSUME NEW u \in Threads, pc'[u] = "expRegs", NEW h \in need'[u],
                 NEW r \in seen'[u][IdxOf[h]]
          PROVE  r >= RhoOf[h]
      BY <3>1, <3>2, <3>3 DEF ExportInv
    <3>4. QED
      BY <2>2, <3>2, <3>3 DEF ExportInv
  <2>3. QED
    BY <2>1, <2>2
<1>2. ASSUME NEW t \in Threads, InsertDense(t), CopyGoesOn
      PROVE  ExportInv'
  <2>1. CASE dense = Nil
    BY <1>2, <2>1 DEF CopyGoesOn, ExportInv
  <2>2. CASE dense # Nil
    <3>1. ASSUME NEW u \in Threads, pc'[u] = "expRegs", NEW h \in need'[u],
                 NEW r \in seen'[u][IdxOf[h]]
          PROVE  r >= RhoOf[h]
      <4>1. pc[u] = "expRegs" /\ h \in need[u] /\ dense' # Nil /\ IdxOf[h] \in Idx
        BY <1>2, <3>1, Constants DEF CopyGoesOn, SafeInv, SketchTyped
      <4>2. r \in seen[u][IdxOf[h]] \/ r = dense'[IdxOf[h]]
        BY <1>2, <2>2, <3>1, <4>1 DEF InsertDense, ShowCopiers
      <4>3. dense'[IdxOf[h]] >= RhoOf[h]
        BY <3>1, <4>1 DEF MustInv, ReadInv, Present
      <4>4. QED
        BY <4>1, <4>2, <4>3 DEF ExportInv
    <3>2. QED
      BY <1>2, <3>1 DEF CopyGoesOn, ExportInv
  <2>3. QED
    BY <2>1, <2>2
<1>3. ASSUME NEW t \in Threads, ExpRegs(t), CopyGoesOn
      PROVE  ExportInv'
  <2>1. ASSUME NEW u \in Threads, pc'[u] = "expRegs"
        PROVE  seen'[u] = seen[u]
    <3>1. u # t
      BY <1>3, <2>1 DEF ExpRegs, Return, Goto, SafeInv, SketchTyped
    <3>2. QED
      BY <1>3, <3>1 DEF ExpRegs, SeenTyped
  <2>2. QED
    BY <1>3, <2>1 DEF CopyGoesOn, ExportInv
<1>4. CASE CopyGoesOn /\ UNCHANGED seen
  BY <1>4 DEF CopyGoesOn, ExportInv
<1>5. CASE UNCHANGED vars
  BY <1>5 DEF vars, repr, history, ExportInv
<1>6. QED
  <2>1. CASE UNCHANGED vars
    BY <1>5, <2>1
  <2>2. ASSUME NEW t \in Threads, Call(t) \/ Step(t)
        PROVE  ExportInv'
    <3>1. CopyGoesOn \/ ExpDense(t)
      BY <2>2, CopyUndisturbed
    <3>2. QED
      BY <1>1, <1>2, <1>3, <1>4, <2>2, <3>1 DEF Call, Step
  <2>3. QED
    BY <2>1, <2>2 DEF Next

\* The invariant of a sketch with one inserter.
SoleInv ==
  /\ OriginInv /\ SeenTyped
  /\ CallerInv /\ CopyInv /\ PlacedInv /\ MustInv /\ ReadInv /\ ExportInv

LEMMA SoleInvariant ==
  ASSUME OneInserter
  PROVE  Spec => []SoleInv
<1>1. Init => SoleInv
  <2> SUFFICES ASSUME Init PROVE SoleInv
    OBVIOUS
  <2>1. SafeInv
    BY TypeInit, LockInit DEF SafeInv
  <2>2. TodoInv /\ ForeignInv
    BY DEF Init, TodoInv, ForeignInv
  <2>3. CallerInv /\ CopyInv /\ PlacedInv /\ MustInv /\ ReadInv /\ ExportInv
    BY DEF Init, CallerInv, Inserting, Merging, Converting, CopyInv, PlacedInv, Placed, MustInv,
           ReadInv, ExportInv
  <2>4. SeenTyped
    BY DEF Init, SeenTyped, NothingSeen
  <2>5. QED
    BY <2>1, <2>2, <2>3, <2>4 DEF SoleInv, OriginInv
<1>2. SoleInv /\ [Next]_vars => SoleInv'
  <2> SUFFICES ASSUME SoleInv, [Next]_vars PROVE SoleInv'
    OBVIOUS
  <2>1. /\ SafeInv /\ TodoInv /\ ForeignInv /\ CallerInv /\ CopyInv /\ PlacedInv /\ MustInv
        /\ ReadInv /\ ExportInv /\ SeenTyped
    BY DEF SoleInv, OriginInv
  <2>2. SafeInv' /\ TodoInv' /\ ForeignInv'
    BY <2>1, TypeStep, LockStep, FormatStep, TodoStep, ForeignStep DEF SafeInv
  <2>3. CallerInv' /\ CopyInv'
    BY <2>1, CallerStep, CopyStep DEF SafeInv
  <2>4. Kept \/ Forgotten
    BY <2>1, KeptStep
  <2>5. PlacedInv' /\ MustInv' /\ ReadInv'
    BY <2>1, <2>4, PlacedStep, MustStep, ReadStep
  <2>6. ExportInv' /\ SeenTyped'
    BY <2>1, <2>5, ExportStep, SeenTypedStep
  <2>7. QED
    BY <2>2, <2>3, <2>5, <2>6 DEF SoleInv, OriginInv
<1>3. QED
  BY <1>1, <1>2, PTL DEF Spec

LEMMA PresentInContents ==
  ASSUME SketchTyped, NEW h \in Hash, Present(h)
  PROVE  Contents[IdxOf[h]] >= RhoOf[h]
<1>1. CASE dense = Nil
  <2>1. h \in temp \cup sorted /\ temp \cup sorted \in SUBSET Hash
    BY <1>1 DEF Present, SketchTyped
  <2>2. QED
    BY <1>1, <2>1, RegsOfFilled DEF Contents, Filled
<1>2. CASE dense # Nil
  BY <1>2 DEF Present, Contents
<1>3. QED
  BY <1>1, <1>2

\* With one inserter an insert or merge that has returned is never lost: the
\* conversion copies a list that nobody adds to, and every register it has
\* not placed yet is still in todo.
THEOREM NoLostInsertAlways ==
  ASSUME OneInserter
  PROVE  Spec => []NoLostInsert
<1>1. SoleInv => NoLostInsert
  <2> SUFFICES ASSUME SoleInv, NEW h \in must
               PROVE  Contents[IdxOf[h]] >= RhoOf[h]
    BY DEF NoLostInsert
  <2>1. SketchTyped /\ Present(h) /\ h \in Hash
    BY DEF SoleInv, OriginInv, SafeInv, SketchTyped, MustInv
  <2>2. QED
    BY <2>1, PresentInContents
<1>2. QED
  BY <1>1, SoleInvariant, PTL

\* A rank that is split and put together again is the same rank, and one that lies
\* in one byte is not split.
LEMMA NotMixed ==
  ASSUME NEW i \in Idx, NEW a \in 0 .. MaxRho, NEW b \in 0 .. MaxRho,
         a = b \/ ~(ByteEdge(i) < 64)
  PROVE  Mixed(i, a, b) = a
<1>1. MaxRho \in Nat /\ MaxRho <= 63 /\ i \in Nat
  BY RegisterMapAssumption, HllppAssumption
<1>2. ByteEdge(i) \in {4, 16, 64}
  BY DEF ByteEdge
<1>3. CASE a = b
  <2>1. a % 4 \in Int /\ a % 16 \in Int /\ a % 64 \in Int
    BY <1>1
  <2>2. QED
    BY <1>1, <1>2, <1>3, <2>1 DEF Mixed
<1>4. CASE ByteEdge(i) = 64
  <2>1. a % 64 = a /\ b % 64 = b
    BY <1>1
  <2>2. QED
    BY <1>1, <1>4, <2>1 DEF Mixed
<1>5. QED
  BY <1>2, <1>3, <1>4

\* With one inserter a reader that lost the race against the conversion still
\* counts everything that was inserted when it began: the list it loaded is
\* complete, and so are the registers, copied byte by byte, but for one that lies
\* in two bytes and is raised meanwhile.
THEOREM ReadsSeeCompletedAlways ==
  ASSUME OneInserter
  PROVE  Spec => []ReadsSeeCompleted
<1>1. SoleInv => ReadsSeeCompleted
  <2> SUFFICES ASSUME SoleInv, NEW t \in Threads
               PROVE  /\ pc[t] \in {"elemSparse", "expMerge"} => need[t] \subseteq temp \cup sorted
                      /\ pc[t] = "expCopy" => need[t] \subseteq sorted
                      /\ dense # Nil => \A h \in need[t] : dense[IdxOf[h]] >= RhoOf[h]
                      /\ pc[t] = "expRegs" =>
                           \A h \in need[t] : \/ Torn(t, IdxOf[h])
                                              \/ \A r \in Copied(t, IdxOf[h]) : r >= RhoOf[h]
    BY DEF ReadsSeeCompleted
  <2>1. /\ pc[t] \in {"elemSparse", "expMerge"} => need[t] \subseteq temp \cup sorted
        /\ pc[t] = "expCopy" => need[t] \subseteq sorted
    BY DEF SoleInv, ReadInv
  <2>2. \A h \in need[t] : Present(h)
    BY DEF SoleInv, ReadInv, MustInv
  <2>3. ASSUME pc[t] = "expRegs", NEW h \in need[t], ~Torn(t, IdxOf[h]),
               NEW r \in Copied(t, IdxOf[h])
        PROVE  r >= RhoOf[h]
    <3> DEFINE i == IdxOf[h]
    <3>1. h \in Hash /\ i \in Idx /\ RhoOf[h] \in Nat /\ dense \in RegMap
          /\ dense[i] >= RhoOf[h] /\ SketchTyped /\ SeenTyped
      BY <2>2, <2>3, Constants
         DEF SoleInv, OriginInv, SafeInv, SketchTyped, ExportInv, Present
    <3>2. ASSUME NEW a \in Shown(t, i)
          PROVE  a \in 0 .. MaxRho /\ a >= RhoOf[h]
      <4>1. CASE a \in seen[t][i]
        BY <2>3, <3>1, <4>1 DEF SoleInv, ExportInv, SeenTyped
      <4>2. ASSUME NEW u \in Threads, NEW g \in arg[u], a = SetRegisterMax(dense, g)[i]
            PROVE  a \in 0 .. MaxRho /\ a >= RhoOf[h]
        <5>1. g \in Hash
          BY <3>1 DEF SketchTyped
        <5>2. SetRegisterMax(dense, g) \in RegMap /\ SetRegisterMax(dense, g)[i] >= dense[i]
          BY <3>1, <5>1, SetRegisterMaxJoins
        <5>3. dense[i] \in Nat /\ a \in 0 .. MaxRho
          BY <3>1, <4>2, <5>2 DEF RegMap
        <5>4. QED
          BY <3>1, <4>2, <5>2, <5>3
      <4>3. QED
        BY <3>2, <4>1, <4>2 DEF Shown
    <3>3. PICK a \in Shown(t, i), b \in Shown(t, i) : r = Mixed(i, a, b)
      BY <2>3 DEF Copied
    <3>4. a = b \/ ~(ByteEdge(i) < 64)
      BY <2>3, <3>3 DEF Torn
    <3>5. r = a
      BY <3>1, <3>2, <3>3, <3>4, NotMixed
    <3>6. QED
      BY <3>2, <3>5
  <2>4. QED
    BY <2>1, <2>2, <2>3 DEF Present
<1>2. QED
  BY <1>1, SoleInvariant, PTL

------------------------------------------------------------------------------
(* With one inserter: the sketch only absorbs and clears *)

LEMMA ContentsKept ==
  ASSUME dense' = dense, temp' \cup sorted' = temp \cup sorted
  PROVE  Contents' = Contents
BY DEF Contents

LEMMA ListAbsorbs ==
  ASSUME SketchTyped, dense = Nil, dense' = Nil, NEW S \in SUBSET Hash,
         temp' \cup sorted' = (temp \cup sorted) \cup S
  PROVE  Contents' = Join(Contents, RegsOf(S))
<1>1. RegsOf((temp \cup sorted) \cup S) = Join(RegsOf(temp \cup sorted), RegsOf(S))
  <2>1. temp \cup sorted \in SUBSET Hash
    BY DEF SketchTyped
  <2>2. QED
    BY <2>1, RegsOfUnion
<1>2. Contents' = RegsOf((temp \cup sorted) \cup S) /\ Contents = RegsOf(temp \cup sorted)
  BY DEF Contents
<1>3. QED
  BY <1>1, <1>2

LEMMA RegisterAbsorbs ==
  ASSUME NEW h \in Hash, dense \in RegMap, dense' = SetRegisterMax(dense, h)
  PROVE  Contents' = Join(Contents, RegsOf({h}))
<1>1. dense # Nil /\ dense' # Nil
  BY Constants, RegistersType
<1>2. QED
  BY <1>1, SetRegisterMaxJoins DEF Contents

\* What a step may do to the contents.
AbsorbsOrClears ==
  \/ Contents' = Contents
  \/ Contents' = Zero
  \/ \E S \in SUBSET Hash : Contents' = Join(Contents, RegsOf(S))

LEMMA AbsorbsStep ==
  ASSUME SafeInv, CallerInv, CopyInv, [Next]_vars
  PROVE  AbsorbsOrClears
<1>1. ASSUME NEW t \in Threads, NEW h \in Hash, CallInsert(t, h), UNCHANGED usage
      PROVE  AbsorbsOrClears
  BY <1>1, ContentsKept DEF AbsorbsOrClears, repr, CallInsert, At, Goto, BeginUpdate, repr,
       locks
<1>2. ASSUME NEW t \in Threads, NEW in \in usage.incoming, CallMerge(t, in), UNCHANGED usage
      PROVE  AbsorbsOrClears
  BY <1>2, ContentsKept DEF AbsorbsOrClears, repr, CallMerge, At, Goto, BeginUpdate, repr, locks
<1>3. ASSUME NEW t \in Threads, CallElements(t), UNCHANGED usage
      PROVE  AbsorbsOrClears
  BY <1>3, ContentsKept DEF AbsorbsOrClears, repr, CallElements, At, Goto, BeginRead, repr,
       locks
<1>4. ASSUME NEW t \in Threads, CallExport(t), UNCHANGED usage
      PROVE  AbsorbsOrClears
  BY <1>4, ContentsKept DEF AbsorbsOrClears, repr, CallExport, At, Goto, BeginRead, repr, locks
<1>5. ASSUME NEW t \in Threads, CallReset(t), UNCHANGED usage
      PROVE  AbsorbsOrClears
  BY <1>5, ContentsKept DEF AbsorbsOrClears, repr, CallReset, At, Goto, repr, locks, locals,
       history
<1>6. ASSUME NEW t \in Threads, LoadSparse(t), UNCHANGED usage
      PROVE  AbsorbsOrClears
  BY <1>6, ContentsKept DEF AbsorbsOrClears, repr, LoadSparse, At, Goto, repr, locks, locals,
       history
<1>7. ASSUME NEW t \in Threads, InsertSparse(t), UNCHANGED usage
      PROVE  AbsorbsOrClears
  <2>1. dense = Nil /\ dense' = Nil /\ arg[t] \in SUBSET Hash
    BY <1>7 DEF SafeInv, SketchTyped, FormatInv, CallerInv, InsertSparse, At, Goto, SparseFree,
         locks, locals, history
  <2>2. temp' \cup sorted' = (temp \cup sorted) \cup arg[t]
    BY <1>7 DEF InsertSparse, At, Goto, SparseFree, locks, locals, history
  <2>3. QED
    BY <2>1, <2>2, ListAbsorbs DEF AbsorbsOrClears, SafeInv
<1>8. ASSUME NEW t \in Threads, CheckLen(t), UNCHANGED usage
      PROVE  AbsorbsOrClears
  BY <1>8, ContentsKept DEF AbsorbsOrClears, repr, CheckLen, At, Goto, Return, SparseFree,
       repr, locks, locals, history
<1>9. ASSUME NEW t \in Threads, LockConvert(t), UNCHANGED usage
      PROVE  AbsorbsOrClears
  BY <1>9, ContentsKept DEF AbsorbsOrClears, repr, LockConvert, At, Goto, Return, repr,
       locals, history
<1>10. ASSUME NEW t \in Threads, InsertDense(t), UNCHANGED usage
      PROVE  AbsorbsOrClears
  <2>1. CASE dense = Nil
    BY <2>1, <1>10, ContentsKept DEF AbsorbsOrClears, InsertDense, Crash, repr
  <2>2. CASE dense # Nil
    <3>1. PICK h \in arg[t] : dense' = SetRegisterMax(dense, h)
      BY <2>2, <1>10, RegisterRaised DEF SafeInv
    <3>2. h \in Hash /\ dense \in RegMap
      BY <2>2 DEF SafeInv, SketchTyped
    <3>3. QED
      BY <3>1, <3>2, RegisterAbsorbs DEF AbsorbsOrClears
  <2>3. QED
    BY <2>1, <2>2
<1>11. ASSUME NEW t \in Threads, ConvMerge(t), UNCHANGED usage
      PROVE  AbsorbsOrClears
  BY <1>11, ContentsKept DEF AbsorbsOrClears, repr, ConvMerge, At, Goto, MergeTempSet,
       SparseFree, locks, locals, history
<1>12. ASSUME NEW t \in Threads, ConvCopy(t), UNCHANGED usage
      PROVE  AbsorbsOrClears
  BY <1>12, ContentsKept DEF AbsorbsOrClears, repr, ConvCopy, At, Goto, SparseFree, repr,
       locks, history
<1>13. ASSUME NEW t \in Threads, ConvFormat(t), UNCHANGED usage
      PROVE  AbsorbsOrClears
  BY <1>13, ContentsKept DEF AbsorbsOrClears, repr, ConvFormat, At, Goto, locks, locals, history
<1>14. ASSUME NEW t \in Threads, ConvDense(t), UNCHANGED usage
      PROVE  AbsorbsOrClears
  <2>1. temp = {} /\ snap[t] = sorted /\ dense = Nil /\ sorted \in SUBSET Hash
    BY <1>14 DEF ConvDense, At, CopyInv, SafeInv, FormatInv, SketchTyped
  <2>2. dense' = RegsOf(sorted) /\ dense' # Nil /\ temp \cup sorted = sorted
    BY <2>1, <1>14, RegistersType DEF ConvDense
  <2>3. QED
    BY <2>1, <2>2 DEF AbsorbsOrClears, Contents
<1>15. ASSUME NEW t \in Threads, ConvDrop(t), UNCHANGED usage
      PROVE  AbsorbsOrClears
  BY <1>15, ContentsKept DEF AbsorbsOrClears, repr, ConvDrop, At, Goto, Return, locks, locals,
       history
<1>16. ASSUME NEW t \in Threads, ElemLoad(t), UNCHANGED usage
      PROVE  AbsorbsOrClears
  BY <1>16, ContentsKept DEF AbsorbsOrClears, repr, ElemLoad, At, Goto, Crash, repr, locks,
       locals, history
<1>17. ASSUME NEW t \in Threads, ElemSparse(t), UNCHANGED usage
      PROVE  AbsorbsOrClears
  BY <1>17, ContentsKept DEF AbsorbsOrClears, repr, ElemSparse, At, Return, MergeTempSet,
       SparseFree, locks, Goto
<1>18. ASSUME NEW t \in Threads, ElemDense(t), UNCHANGED usage
      PROVE  AbsorbsOrClears
  BY <1>18, ContentsKept DEF AbsorbsOrClears, repr, ElemDense, At, Return, Crash, repr, locks,
       locals, history, Goto
<1>19. ASSUME NEW t \in Threads, ExpLock(t), UNCHANGED usage
      PROVE  AbsorbsOrClears
  BY <1>19, ContentsKept DEF AbsorbsOrClears, repr, ExpLock, At, Goto, repr, locals, history
<1>20. ASSUME NEW t \in Threads, ExpMerge(t), UNCHANGED usage
      PROVE  AbsorbsOrClears
  BY <1>20, ContentsKept DEF AbsorbsOrClears, repr, ExpMerge, At, Goto, MergeTempSet,
       SparseFree, locks, locals, history
<1>21. ASSUME NEW t \in Threads, ExpCopy(t), UNCHANGED usage
      PROVE  AbsorbsOrClears
  BY <1>21, ContentsKept DEF AbsorbsOrClears, repr, ExpCopy, At, Return, SparseFree, repr, Goto
<1>22. ASSUME NEW t \in Threads, ExpDense(t), UNCHANGED usage
      PROVE  AbsorbsOrClears
  BY <1>22, ContentsKept DEF AbsorbsOrClears, repr, ExpDense, At, Return, repr, locks, Goto,
       locals, history
<1>23. ASSUME NEW t \in Threads, MergeLock(t), UNCHANGED usage
      PROVE  AbsorbsOrClears
  BY <1>23, ContentsKept DEF AbsorbsOrClears, repr, MergeLock, At, Goto, Deciding, repr, history
<1>24. ASSUME NEW t \in Threads, MergeBoth(t), UNCHANGED usage
      PROVE  AbsorbsOrClears
  <2>1. dense = Nil /\ dense' = Nil /\ arg[t] \in SUBSET Hash
    BY <1>24 DEF SafeInv, SketchTyped, FormatInv, CallerInv, MergeBoth, At, Goto, Return,
         SparseFree, locals, history
  <2>2. temp' \cup sorted' = (temp \cup sorted) \cup arg[t]
    BY <1>24 DEF MergeBoth, At, Goto, Return, SparseFree, locals, history
  <2>3. QED
    BY <2>1, <2>2, ListAbsorbs DEF AbsorbsOrClears, SafeInv
<1>25. ASSUME NEW t \in Threads, MergeRegs(t), UNCHANGED usage
      PROVE  AbsorbsOrClears
  <2>1. CASE todo[t] = {}
    BY <2>1, <1>25, ContentsKept DEF AbsorbsOrClears, MergeRegs
  <2>2. CASE todo[t] # {}
    <3>1. PICK h \in todo[t] : dense' = SetRegisterMax(dense, h)
      BY <2>2, <1>25, RegisterPlaced DEF SafeInv
    <3>2. h \in Hash /\ dense \in RegMap
      BY <2>2, <1>25, RegisterPlaced DEF SafeInv, SketchTyped
    <3>3. QED
      BY <3>1, <3>2, RegisterAbsorbs DEF AbsorbsOrClears
  <2>3. QED
    BY <2>1, <2>2
<1>26. ASSUME NEW t \in Threads, ResetLock(t), UNCHANGED usage
      PROVE  AbsorbsOrClears
  BY <1>26, ContentsKept DEF AbsorbsOrClears, repr, ResetLock, At, Goto, repr, locals, history
<1>27. ASSUME NEW t \in Threads, ResetSparse(t), UNCHANGED usage
      PROVE  AbsorbsOrClears
  <2>1. dense' = Nil /\ temp' \cup sorted' = {}
    BY <1>27 DEF SafeInv, SketchTyped, FormatInv, ResetSparse, At
  <2>2. QED
    BY <2>1, RegsOfNothing DEF AbsorbsOrClears, Contents
<1>28. ASSUME NEW t \in Threads, ResetDense(t), UNCHANGED usage
      PROVE  AbsorbsOrClears
  <2>1. dense' = Zero /\ dense' # Nil
    BY <1>28, RegistersType DEF ResetDense
  <2>2. QED
    BY <2>1 DEF AbsorbsOrClears, Contents
<1>29. CASE UNCHANGED vars
  BY <1>29 DEF AbsorbsOrClears, repr, Contents, vars, repr, locks, locals, history
<1>30. ASSUME NEW t \in Threads, ExpRegs(t), UNCHANGED usage
      PROVE  AbsorbsOrClears
  BY <1>30, ContentsKept DEF AbsorbsOrClears, repr, ExpRegs, At, Return, repr, locks, Goto
<1>31. QED
  BY <1>1, <1>2, <1>3, <1>4, <1>5, <1>6, <1>7, <1>8, <1>9, <1>10, <1>11, <1>12, <1>13, <1>14,
       <1>15, <1>16, <1>17, <1>18, <1>19, <1>20, <1>21, <1>22, <1>23, <1>24, <1>25, <1>26,
       <1>27, <1>28, <1>29, <1>30 DEF Next, Call, Step, Convert

\* With one inserter the sketch, whatever its representation and however its
\* steps interleave, does what Sketch says: registers that absorb the hashes of
\* a call and are cleared whole by a reset.  The conversion is invisible.
THEOREM SketchImplemented ==
  ASSUME OneInserter
  PROVE  Spec => ImplementsSketch
<1>1. Init => Abstract!Init
  <2> SUFFICES ASSUME Init PROVE Contents = Abstract!Zero
    BY DEF Abstract!Init
  <2>1. temp \cup sorted = {} /\ dense = Nil
    BY DEF Init
  <2>2. Contents = Zero
    BY <2>1, RegsOfNothing DEF Contents
  <2>3. QED
    BY <2>2 DEF Zero, Abstract!Zero
<1>2. SoleInv /\ [Next]_vars => [Abstract!Next]_Contents
  <2> SUFFICES ASSUME SoleInv, [Next]_vars PROVE [Abstract!Next]_Contents
    OBVIOUS
  <2>1. AbsorbsOrClears
    BY AbsorbsStep DEF SoleInv, OriginInv
  <2>2. CASE Contents' = Zero
    BY <2>2 DEF Abstract!Next, Abstract!Clear, Abstract!Zero, Zero
  <2>3. ASSUME NEW S \in SUBSET Hash, Contents' = Join(Contents, RegsOf(S))
        PROVE  Abstract!Next
    <3>1. Abstract!RegsOf(S) = RegsOf(S)
      BY DEF Abstract!RegsOf, RegsOf, Abstract!Max, Max
    <3>2. Abstract!Join(Contents, RegsOf(S)) = Join(Contents, RegsOf(S))
      BY DEF Abstract!Join, Join
    <3>3. Abstract!Absorb(S)
      BY <2>3, <3>1, <3>2 DEF Abstract!Absorb
    <3>4. QED
      BY <3>3 DEF Abstract!Next
  <2>4. QED
    BY <2>1, <2>2, <2>3 DEF AbsorbsOrClears
<1>3. QED
  BY <1>1, <1>2, SoleInvariant, PTL DEF Spec, ImplementsSketch, Abstract!Spec

------------------------------------------------------------------------------
(* Who waits for whom *)

\* The lock of the list is kept across steps only by a merge of two sparse
\* sketches, into the conversion that it starts.
ListLockInv ==
  \A t \in Threads :
    /\ pc[t] \notin Merging \cup Converting => source[t] = "none"
    /\ pc[t] = "mergeBoth" => source[t] = "sparse"
    /\ spMu = t => pc[t] \in Converting /\ source[t] = "sparse"

LEMMA ListLockStep ==
  ASSUME SketchTyped, ListLockInv, [Next]_vars
  PROVE  ListLockInv'
<1>1. ASSUME NEW t \in Threads, NEW h \in Hash, CallInsert(t, h), UNCHANGED usage
      PROVE  ListLockInv'
  BY <1>1, Constants DEF SketchTyped, ListLockInv, Merging, Converting, CallInsert, At, Goto,
       BeginUpdate, repr, locks
<1>2. ASSUME NEW t \in Threads, NEW in \in usage.incoming, CallMerge(t, in), UNCHANGED usage
      PROVE  ListLockInv'
  BY <1>2, Constants DEF SketchTyped, ListLockInv, Merging, Converting, CallMerge, At, Goto,
       BeginUpdate, repr, locks
<1>3. ASSUME NEW t \in Threads, CallElements(t), UNCHANGED usage
      PROVE  ListLockInv'
  BY <1>3, Constants DEF SketchTyped, ListLockInv, Merging, Converting, CallElements, At, Goto,
       BeginRead, repr, locks
<1>4. ASSUME NEW t \in Threads, CallExport(t), UNCHANGED usage
      PROVE  ListLockInv'
  BY <1>4, Constants DEF SketchTyped, ListLockInv, Merging, Converting, CallExport, At, Goto,
       BeginRead, repr, locks
<1>5. ASSUME NEW t \in Threads, CallReset(t), UNCHANGED usage
      PROVE  ListLockInv'
  BY <1>5, Constants DEF SketchTyped, ListLockInv, Merging, Converting, CallReset, At, Goto,
       repr, locks, locals, history
<1>6. ASSUME NEW t \in Threads, LoadSparse(t), UNCHANGED usage
      PROVE  ListLockInv'
  BY <1>6, Constants DEF SketchTyped, ListLockInv, Merging, Converting, LoadSparse, At, Goto,
       repr, locks, locals, history
<1>7. ASSUME NEW t \in Threads, InsertSparse(t), UNCHANGED usage
      PROVE  ListLockInv'
  BY <1>7, Constants DEF SketchTyped, ListLockInv, Merging, Converting, InsertSparse, At, Goto,
       SparseFree, locks, locals, history
<1>8. ASSUME NEW t \in Threads, CheckLen(t), UNCHANGED usage
      PROVE  ListLockInv'
  BY <1>8, Constants DEF SketchTyped, ListLockInv, Merging, Converting, CheckLen, At, Goto,
       Return, SparseFree, repr, locks, locals, history
<1>9. ASSUME NEW t \in Threads, LockConvert(t), UNCHANGED usage
      PROVE  ListLockInv'
  BY <1>9, Constants DEF SketchTyped, ListLockInv, Merging, Converting, LockConvert, At, Goto,
       Return, repr, locals, history
<1>10. ASSUME NEW t \in Threads, InsertDense(t), UNCHANGED usage
      PROVE  ListLockInv'
  BY <1>10, Constants DEF SketchTyped, ListLockInv, Merging, Converting, InsertDense, At,
       Return, Crash, SetRegisterMax, locks, repr, locals, history, Goto
<1>11. ASSUME NEW t \in Threads, ConvMerge(t), UNCHANGED usage
      PROVE  ListLockInv'
  BY <1>11, Constants DEF SketchTyped, ListLockInv, Merging, Converting, ConvMerge, At, Goto,
       MergeTempSet, SparseFree, locks, locals, history
<1>12. ASSUME NEW t \in Threads, ConvCopy(t), UNCHANGED usage
      PROVE  ListLockInv'
  BY <1>12, Constants DEF SketchTyped, ListLockInv, Merging, Converting, ConvCopy, At, Goto,
       SparseFree, repr, locks, history
<1>13. ASSUME NEW t \in Threads, ConvFormat(t), UNCHANGED usage
      PROVE  ListLockInv'
  BY <1>13, Constants DEF SketchTyped, ListLockInv, Merging, Converting, ConvFormat, At, Goto,
       locks, locals, history
<1>14. ASSUME NEW t \in Threads, ConvDense(t), UNCHANGED usage
      PROVE  ListLockInv'
  BY <1>14, Constants DEF SketchTyped, ListLockInv, Merging, Converting, ConvDense, At, Goto,
       locks, history
<1>15. ASSUME NEW t \in Threads, ConvDrop(t), UNCHANGED usage
      PROVE  ListLockInv'
  BY <1>15, Constants DEF SketchTyped, ListLockInv, Merging, Converting, ConvDrop, At, Goto,
       Return, locks, locals, history
<1>16. ASSUME NEW t \in Threads, ElemLoad(t), UNCHANGED usage
      PROVE  ListLockInv'
  BY <1>16, Constants DEF SketchTyped, ListLockInv, Merging, Converting, ElemLoad, At, Goto,
       Crash, repr, locks, locals, history
<1>17. ASSUME NEW t \in Threads, ElemSparse(t), UNCHANGED usage
      PROVE  ListLockInv'
  BY <1>17, Constants DEF SketchTyped, ListLockInv, Merging, Converting, ElemSparse, At, Return,
       MergeTempSet, SparseFree, locks, Goto
<1>18. ASSUME NEW t \in Threads, ElemDense(t), UNCHANGED usage
      PROVE  ListLockInv'
  BY <1>18, Constants DEF SketchTyped, ListLockInv, Merging, Converting, ElemDense, At, Return,
       Crash, repr, locks, locals, history, Goto
<1>19. ASSUME NEW t \in Threads, ExpLock(t), UNCHANGED usage
      PROVE  ListLockInv'
  BY <1>19, Constants DEF SketchTyped, ListLockInv, Merging, Converting, ExpLock, At, Goto,
       repr, locals, history
<1>20. ASSUME NEW t \in Threads, ExpMerge(t), UNCHANGED usage
      PROVE  ListLockInv'
  BY <1>20, Constants DEF SketchTyped, ListLockInv, Merging, Converting, ExpMerge, At, Goto,
       MergeTempSet, SparseFree, locks, locals, history
<1>21. ASSUME NEW t \in Threads, ExpCopy(t), UNCHANGED usage
      PROVE  ListLockInv'
  BY <1>21, Constants DEF SketchTyped, ListLockInv, Merging, Converting, ExpCopy, At, Return,
       SparseFree, repr, Goto
<1>22. ASSUME NEW t \in Threads, ExpDense(t), UNCHANGED usage
      PROVE  ListLockInv'
  BY <1>22, Constants DEF SketchTyped, ListLockInv, Merging, Converting, ExpDense, At, Return,
       repr, locks, Goto, locals, history
<1>23. ASSUME NEW t \in Threads, MergeLock(t), UNCHANGED usage
      PROVE  ListLockInv'
  BY <1>23, Constants DEF SketchTyped, ListLockInv, Merging, Converting, MergeLock, At, Goto,
       Deciding, repr, history
<1>24. ASSUME NEW t \in Threads, MergeBoth(t), UNCHANGED usage
      PROVE  ListLockInv'
  BY <1>24, Constants DEF SketchTyped, ListLockInv, Merging, Converting, MergeBoth, At, Goto,
       Return, SparseFree, locals, history
<1>25. ASSUME NEW t \in Threads, MergeRegs(t), UNCHANGED usage
      PROVE  ListLockInv'
  BY <1>25, Constants DEF SketchTyped, ListLockInv, Merging, Converting, MergeRegs, At, Return,
       SetRegisterMax, locks, history, Goto
<1>26. ASSUME NEW t \in Threads, ResetLock(t), UNCHANGED usage
      PROVE  ListLockInv'
  BY <1>26, Constants DEF SketchTyped, ListLockInv, Merging, Converting, ResetLock, At, Goto,
       repr, locals, history
<1>27. ASSUME NEW t \in Threads, ResetSparse(t), UNCHANGED usage
      PROVE  ListLockInv'
  BY <1>27, Constants DEF SketchTyped, ListLockInv, Merging, Converting, ResetSparse, At, Goto,
       ForgetAll, SparseFree, locals
<1>28. ASSUME NEW t \in Threads, ResetDense(t), UNCHANGED usage
      PROVE  ListLockInv'
  BY <1>28, Constants DEF SketchTyped, ListLockInv, Merging, Converting, ResetDense, At, Goto,
       ForgetAll, locals
<1>29. CASE UNCHANGED vars
  BY <1>29 DEF SketchTyped, ListLockInv, Merging, Converting, vars, repr, locks, locals, history
<1>30. ASSUME NEW t \in Threads, ExpRegs(t), UNCHANGED usage
      PROVE  ListLockInv'
  BY <1>30, Constants DEF SketchTyped, ListLockInv, Merging, Converting, ExpRegs, At, Return,
       repr, locks, Goto
<1>31. QED
  BY <1>1, <1>2, <1>3, <1>4, <1>5, <1>6, <1>7, <1>8, <1>9, <1>10, <1>11, <1>12, <1>13, <1>14,
       <1>15, <1>16, <1>17, <1>18, <1>19, <1>20, <1>21, <1>22, <1>23, <1>24, <1>25, <1>26,
       <1>27, <1>28, <1>29, <1>30 DEF Next, Call, Step, Convert


\* What can block a call, for every mix of calls: whoever has the list has h.mu
\* as well, so that the locks are taken in one order, and the thread with h.mu
\* goes on unless it waits for the list that it has locked itself.
THEOREM OnlySelfWaitBlocks ==
  Spec => [](NoSelfWait => SomeCallProceeds)
<1>1. Init => ListLockInv
  BY Constants DEF Init, ListLockInv, Merging, Converting
<1>2. SafeInv /\ ListLockInv /\ [Next]_vars => ListLockInv'
  BY ListLockStep DEF SafeInv
<1>3. SafeInv /\ ListLockInv => (NoSelfWait => SomeCallProceeds)
  <2> SUFFICES ASSUME SafeInv, ListLockInv, NoSelfWait,
                      NEW t \in Threads, pc[t] # "idle"
               PROVE  \E u \in Threads : pc[u] # "idle" /\ ~Waits(u)
    BY DEF SomeCallProceeds
  <2>1. spMu # NoThread => spMu \in Threads /\ hMu = spMu
    BY DEF SafeInv, SketchTyped, LockInv, Holding, ListLockInv
  <2>2. CASE hMu = NoThread
    <3>1. SparseFree
      BY <2>1, <2>2 DEF SparseFree
    <3>2. CASE HMuFree
      BY <2>2, <3>1, <3>2 DEF Waits
    <3>3. ASSUME NEW u \in Threads, pc[u] = "expRegs"
          PROVE  pc[u] # "idle" /\ ~Waits(u)
      BY <3>3 DEF Waits
    <3>4. QED
      BY <2>2, <3>2, <3>3 DEF HMuFree
  <2>3. CASE hMu # NoThread
    <3>1. hMu \in Threads /\ pc[hMu] \in Holding
      BY <2>3 DEF SafeInv, SketchTyped, LockInv
    <3>2. spMu # NoThread => spMu = hMu /\ pc[hMu] \in Converting \ {"convMerge", "convCopy"}
      BY <2>1, <3>1 DEF ListLockInv, NoSelfWait
    <3>3. pc[hMu] # "idle" /\ ~Waits(hMu)
      BY <3>1, <3>2 DEF Holding, Converting, Waits, SparseFree
    <3>4. QED
      BY <3>1, <3>3
  <2>4. QED
    BY <2>2, <2>3
<1>4. QED
  BY <1>1, <1>2, <1>3, SafeInvariant, PTL DEF Spec

\* What the list of a sketch with usage u can come to hold.
SmallOf(u) == {in \in u.incoming : in.format = "sparse"}
InList(u) ==
  (IF \E t \in Threads : "insert" \in u.roles[t] THEN Hash ELSE {})
    \cup UNION {in.hashes : in \in SmallOf(u)}

SmallInv ==
  /\ \A t \in Threads :
       /\ pc[t] \in Inserting => "insert" \in usage.roles[t]
       /\ source[t] = "sparse" => \E in \in SmallOf(usage) : arg[t] = in.hashes
  /\ temp \cup sorted \subseteq InList(usage)
  /\ spMu = NoThread

LEMMA SmallStep ==
  ASSUME SparseStaysSmall, SketchTyped, ListLockInv, SmallInv, [Next]_vars
  PROVE  SmallInv'
<1>1. ASSUME NEW t \in Threads, NEW h \in Hash, CallInsert(t, h), UNCHANGED usage
      PROVE  SmallInv'
  BY <1>1, IncomingType DEF SketchTyped, ListLockInv, SmallInv, InList, Inserting, Merging,
       Converting, CallInsert, At, Goto, BeginUpdate, repr, locks
<1>2. ASSUME NEW t \in Threads, NEW in \in usage.incoming, CallMerge(t, in), UNCHANGED usage
      PROVE  SmallInv'
  <2>1. /\ pc' = [pc EXCEPT ![t] = "mergeLock"] /\ arg' = [arg EXCEPT ![t] = in.hashes]
        /\ source' = [source EXCEPT ![t] = in.format] /\ UNCHANGED <<temp, sorted, spMu, usage>>
    BY <1>2 DEF CallMerge, BeginUpdate, Goto, repr, locks
  <2>2. in.format = "sparse" => in \in SmallOf(usage)
    BY DEF SmallOf
  <2>3. \A u \in Threads : pc'[u] \in Inserting => "insert" \in usage.roles[u]
    BY <2>1 DEF SketchTyped, SmallInv, Inserting
  <2>4. \A u \in Threads : source'[u] = "sparse" => \E g \in SmallOf(usage) : arg'[u] = g.hashes
    BY <2>1, <2>2 DEF SketchTyped, SmallInv
  <2>5. QED
    BY <2>1, <2>3, <2>4 DEF SmallInv
<1>3. ASSUME NEW t \in Threads, CallElements(t), UNCHANGED usage
      PROVE  SmallInv'
  BY <1>3, IncomingType DEF SketchTyped, ListLockInv, SmallInv, InList, Inserting, Merging,
       Converting, CallElements, At, Goto, BeginRead, repr, locks
<1>4. ASSUME NEW t \in Threads, CallExport(t), UNCHANGED usage
      PROVE  SmallInv'
  BY <1>4, IncomingType DEF SketchTyped, ListLockInv, SmallInv, InList, Inserting, Merging,
       Converting, CallExport, At, Goto, BeginRead, repr, locks
<1>5. ASSUME NEW t \in Threads, CallReset(t), UNCHANGED usage
      PROVE  SmallInv'
  BY <1>5, IncomingType DEF SketchTyped, ListLockInv, SmallInv, InList, Inserting, Merging,
       Converting, CallReset, At, Goto, repr, locks, locals, history
<1>6. ASSUME NEW t \in Threads, LoadSparse(t), UNCHANGED usage
      PROVE  SmallInv'
  BY <1>6, IncomingType DEF SketchTyped, ListLockInv, SmallInv, InList, Inserting, Merging,
       Converting, LoadSparse, At, Goto, repr, locks, locals, history
<1>7. ASSUME NEW t \in Threads, InsertSparse(t), UNCHANGED usage
      PROVE  SmallInv'
  BY <1>7, IncomingType DEF SketchTyped, ListLockInv, SmallInv, InList, Inserting, Merging,
       Converting, InsertSparse, At, Goto, SparseFree, locks, locals, history
<1>8. ASSUME NEW t \in Threads, CheckLen(t), UNCHANGED usage
      PROVE  SmallInv'
  BY <1>8, IncomingType DEF SketchTyped, ListLockInv, SmallInv, InList, Inserting, Merging,
       Converting, CheckLen, At, Goto, Return, SparseFree, repr, locks, locals, history
<1>9. ASSUME NEW t \in Threads, LockConvert(t), UNCHANGED usage
      PROVE  SmallInv'
  BY <1>9, IncomingType DEF SketchTyped, ListLockInv, SmallInv, InList, Inserting, Merging,
       Converting, LockConvert, At, Goto, Return, repr, locals, history
<1>10. ASSUME NEW t \in Threads, InsertDense(t), UNCHANGED usage
      PROVE  SmallInv'
  BY <1>10, IncomingType DEF SketchTyped, ListLockInv, SmallInv, InList, Inserting, Merging,
       Converting, InsertDense, At, Return, Crash, SetRegisterMax, locks, repr, locals,
       history, Goto
<1>11. ASSUME NEW t \in Threads, ConvMerge(t), UNCHANGED usage
      PROVE  SmallInv'
  BY <1>11, IncomingType DEF SketchTyped, ListLockInv, SmallInv, InList, Inserting, Merging,
       Converting, ConvMerge, At, Goto, MergeTempSet, SparseFree, locks, locals, history
<1>12. ASSUME NEW t \in Threads, ConvCopy(t), UNCHANGED usage
      PROVE  SmallInv'
  BY <1>12, IncomingType DEF SketchTyped, ListLockInv, SmallInv, InList, Inserting, Merging,
       Converting, ConvCopy, At, Goto, SparseFree, repr, locks, history
<1>13. ASSUME NEW t \in Threads, ConvFormat(t), UNCHANGED usage
      PROVE  SmallInv'
  BY <1>13, IncomingType DEF SketchTyped, ListLockInv, SmallInv, InList, Inserting, Merging,
       Converting, ConvFormat, At, Goto, locks, locals, history
<1>14. ASSUME NEW t \in Threads, ConvDense(t), UNCHANGED usage
      PROVE  SmallInv'
  BY <1>14, IncomingType DEF SketchTyped, ListLockInv, SmallInv, InList, Inserting, Merging,
       Converting, ConvDense, At, Goto, locks, history
<1>15. ASSUME NEW t \in Threads, ConvDrop(t), UNCHANGED usage
      PROVE  SmallInv'
  BY <1>15, IncomingType DEF SketchTyped, ListLockInv, SmallInv, InList, Inserting, Merging,
       Converting, ConvDrop, At, Goto, Return, locks, locals, history
<1>16. ASSUME NEW t \in Threads, ElemLoad(t), UNCHANGED usage
      PROVE  SmallInv'
  BY <1>16, IncomingType DEF SketchTyped, ListLockInv, SmallInv, InList, Inserting, Merging,
       Converting, ElemLoad, At, Goto, Crash, repr, locks, locals, history
<1>17. ASSUME NEW t \in Threads, ElemSparse(t), UNCHANGED usage
      PROVE  SmallInv'
  BY <1>17, IncomingType DEF SketchTyped, ListLockInv, SmallInv, InList, Inserting, Merging,
       Converting, ElemSparse, At, Return, MergeTempSet, SparseFree, locks, Goto
<1>18. ASSUME NEW t \in Threads, ElemDense(t), UNCHANGED usage
      PROVE  SmallInv'
  BY <1>18, IncomingType DEF SketchTyped, ListLockInv, SmallInv, InList, Inserting, Merging,
       Converting, ElemDense, At, Return, Crash, repr, locks, locals, history, Goto
<1>19. ASSUME NEW t \in Threads, ExpLock(t), UNCHANGED usage
      PROVE  SmallInv'
  BY <1>19, IncomingType DEF SketchTyped, ListLockInv, SmallInv, InList, Inserting, Merging,
       Converting, ExpLock, At, Goto, repr, locals, history
<1>20. ASSUME NEW t \in Threads, ExpMerge(t), UNCHANGED usage
      PROVE  SmallInv'
  BY <1>20, IncomingType DEF SketchTyped, ListLockInv, SmallInv, InList, Inserting, Merging,
       Converting, ExpMerge, At, Goto, MergeTempSet, SparseFree, locks, locals, history
<1>21. ASSUME NEW t \in Threads, ExpCopy(t), UNCHANGED usage
      PROVE  SmallInv'
  BY <1>21, IncomingType DEF SketchTyped, ListLockInv, SmallInv, InList, Inserting, Merging,
       Converting, ExpCopy, At, Return, SparseFree, repr, Goto
<1>22. ASSUME NEW t \in Threads, ExpDense(t), UNCHANGED usage
      PROVE  SmallInv'
  BY <1>22, IncomingType DEF SketchTyped, ListLockInv, SmallInv, InList, Inserting, Merging,
       Converting, ExpDense, At, Return, repr, locks, Goto, locals, history
<1>23. ASSUME NEW t \in Threads, MergeLock(t), UNCHANGED usage
      PROVE  SmallInv'
  BY <1>23, IncomingType DEF SketchTyped, ListLockInv, SmallInv, InList, Inserting, Merging,
       Converting, MergeLock, At, Goto, Deciding, repr, history
<1>24. ASSUME NEW t \in Threads, MergeBoth(t), UNCHANGED usage
      PROVE  SmallInv'
  <2>1. PICK in \in SmallOf(usage) : arg[t] = in.hashes
    BY <1>24 DEF ListLockInv, SmallInv, MergeBoth, At
  <2>2. in.hashes \subseteq InList(usage)
    BY DEF InList
  <2>3. sorted' \subseteq InList(usage) /\ temp' = {}
    BY <1>24, <2>1, <2>2 DEF SmallInv, MergeBoth
  <2>4. Cardinality(InList(usage)) \in Nat /\ Cardinality(InList(usage)) < DenseLen
        /\ IsFiniteSet(InList(usage))
    <3>1. InList(usage) \subseteq Hash
      BY IncomingType DEF InList, SmallOf
    <3>2. IsFiniteSet(InList(usage))
      BY <3>1, RegisterMapAssumption, FS_Subset
    <3>3. Cardinality(InList(usage)) < DenseLen
      BY <2>1 DEF SparseStaysSmall, SketchTyped, InList, SmallOf
    <3>4. QED
      BY <3>2, <3>3, FS_CardinalityType
  <2>5. ~(Cardinality(sorted') >= DenseLen)
    <3>1. Cardinality(sorted') \in Nat /\ Cardinality(sorted') <= Cardinality(InList(usage))
      BY <2>3, <2>4, FS_Subset, FS_CardinalityType
    <3>2. QED
      BY <2>4, <3>1, HllppAssumption
  <2>6. Return(t) /\ UNCHANGED spMu
    BY <1>24, <2>5 DEF MergeBoth
  <2>7. QED
    BY <1>24, <2>3, <2>6 DEF SketchTyped, SmallInv, Return, Goto, Inserting
<1>25. ASSUME NEW t \in Threads, MergeRegs(t), UNCHANGED usage
      PROVE  SmallInv'
  BY <1>25, IncomingType DEF SketchTyped, ListLockInv, SmallInv, InList, Inserting, Merging,
       Converting, MergeRegs, At, Return, SetRegisterMax, locks, history, Goto
<1>26. ASSUME NEW t \in Threads, ResetLock(t), UNCHANGED usage
      PROVE  SmallInv'
  BY <1>26, IncomingType DEF SketchTyped, ListLockInv, SmallInv, InList, Inserting, Merging,
       Converting, ResetLock, At, Goto, repr, locals, history
<1>27. ASSUME NEW t \in Threads, ResetSparse(t), UNCHANGED usage
      PROVE  SmallInv'
  BY <1>27, IncomingType DEF SketchTyped, ListLockInv, SmallInv, InList, Inserting, Merging,
       Converting, ResetSparse, At, Goto, ForgetAll, SparseFree, locals
<1>28. ASSUME NEW t \in Threads, ResetDense(t), UNCHANGED usage
      PROVE  SmallInv'
  BY <1>28, IncomingType DEF SketchTyped, ListLockInv, SmallInv, InList, Inserting, Merging,
       Converting, ResetDense, At, Goto, ForgetAll, locals
<1>29. CASE UNCHANGED vars
  BY <1>29 DEF SketchTyped, SmallInv, InList, Inserting, vars, repr, locks, locals, history
<1>30. ASSUME NEW t \in Threads, ExpRegs(t), UNCHANGED usage
      PROVE  SmallInv'
  BY <1>30, IncomingType DEF SketchTyped, ListLockInv, SmallInv, InList, Inserting, Merging,
       Converting, ExpRegs, At, Return, repr, locks, Goto
<1>31. QED
  BY <1>1, <1>2, <1>3, <1>4, <1>5, <1>6, <1>7, <1>8, <1>9, <1>10, <1>11, <1>12, <1>13, <1>14,
       <1>15, <1>16, <1>17, <1>18, <1>19, <1>20, <1>21, <1>22, <1>23, <1>24, <1>25, <1>26,
       <1>27, <1>28, <1>29, <1>30 DEF Next, Call, Step, Convert


\* As long as sparse sketches alone cannot fill the list, as in the sketch of a
\* window, which nothing is merged into, no call waits for itself and some call
\* always goes on.
THEOREM SmallListsNeverBlock ==
  ASSUME SparseStaysSmall
  PROVE  Spec => []NoSelfWait /\ []SomeCallProceeds
<1>1. Init => ListLockInv /\ SmallInv
  BY Constants DEF Init, ListLockInv, SmallInv, Inserting, Merging, Converting
<1>2. SafeInv /\ ListLockInv /\ SmallInv /\ [Next]_vars => ListLockInv' /\ SmallInv'
  BY ListLockStep, SmallStep DEF SafeInv
<1>3. SmallInv => NoSelfWait
  BY Constants DEF SmallInv, NoSelfWait
<1>4. QED
  BY <1>1, <1>2, <1>3, SafeInvariant, OnlySelfWaitBlocks, PTL DEF Spec
==============================================================================
