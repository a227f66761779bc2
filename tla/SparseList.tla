------------------------------ MODULE SparseList ------------------------------
(***************************************************************************)
(* The sparse representation of types/sparse.SparseHLL: hashes encoded as  *)
(* in general.EncodeHash, a temporary set of codes and a list that the set *)
(* is merged into, ordered by p'-index.                                    *)
(*                                                                         *)
(* Every operation runs with s.mu held, so each is one step.  Hashes have  *)
(* W bits instead of 64; a code keeps its layout, index in front of six    *)
(* bits of rank and the flag or in front of the flag alone.                *)
(***************************************************************************)
EXTENDS Integers, Sequences, FiniteSets, FiniteSetsExt

CONSTANTS
  W,         \* bits of a hash
  P,         \* precision: bits of a register number
  PP,        \* p': bits of a sparse index
  Sketches,  \* the sparse sketches
  Streams,   \* sets of hashes, one of which is inserted
  MaxLen     \* bound: entries of a list that still grows

SparseListAssumption ==
  /\ {W, P, PP, MaxLen} \subseteq Nat
  /\ 2 < P /\ P < PP /\ PP < W /\ W - PP < 63
  /\ Streams \subseteq SUBSET (0 .. 2^W - 1)

VARIABLES
  stream,       \* the hashes that arrive, fixed at the start
  temp_set,     \* codes not yet in the list
  sorted_list,  \* the list, as long as the estimate counts
  absorbed,     \* history: the hashes the sketch stands for
  disordered    \* history: a merge had codes out of index order

vars == <<stream, temp_set, sorted_list, absorbed, disordered>>

------------------------------------------------------------------------------
(* Codes *)

\* Position of the first 1 in len bits.
Rho(w, len) ==
  LET x == w % 2^len
  IN  IF x = 0 THEN len + 1 ELSE CHOOSE r \in 1 .. len : x \div 2^(len - r) = 1

\* The bits of an index that the register number lacks.
Zone(index) == index % 2^(PP - P)

Flagged(index, rho) == index * 128 + rho * 2 + 1

EncodeHash(x) ==
  LET index == x \div 2^(W - PP)
  IN  IF Zone(index) = 0 THEN Flagged(index, Rho(x, W - PP)) ELSE index * 2

\* decodeHashForMerge.
IndexOf(code) == IF code % 2 = 1 THEN code \div 128 ELSE code \div 2
RhoPrime(code) == IF code % 2 = 1 THEN (code \div 2) % 64 ELSE 0

\* DecodeHash.
DecodeHash(code) ==
  [index |-> IndexOf(code) \div 2^(PP - P),
   rho   |-> IF code % 2 = 1 THEN RhoPrime(code) + PP - P ELSE Rho(code \div 2, PP - P)]

\* Where hllSet.Insert puts a hash.
DensePlace(x) == [index |-> x \div 2^(W - P), rho |-> Rho(x, W - P)]

\* Registers of a set of places: hllSet.SetRegisterMax for each.
Registers(places) ==
  [i \in 0 .. 2^P - 1 |-> Max({0} \cup {q.rho : q \in {r \in places : r.index = i}})]

------------------------------------------------------------------------------
(* Merging *)

\* Mutant of Larger: the entry of the list stays.
OldOne(old, new) == <<old>>

\* Mutant of Larger: both stay.
BothOfThem(old, new) == <<old, new>>

\* Of two entries with an index, the one with the larger rank.
Larger(old, new) == <<IF RhoPrime(new) >= RhoPrime(old) THEN new ELSE old>>

\* The merge loop of mergeTempSetNoLock and MergeSparse.
Merge(old, new) ==
  LET merged[at \in (1 .. Len(old) + 1) \X (1 .. Len(new) + 1)] ==
        LET i == at[1]
            j == at[2]
        IN  IF i > Len(old) \/ j > Len(new)
            THEN SubSeq(old, i, Len(old)) \o SubSeq(new, j, Len(new))
            ELSE IF IndexOf(old[i]) < IndexOf(new[j]) THEN <<old[i]>> \o merged[<<i + 1, j>>]
            ELSE IF IndexOf(new[j]) < IndexOf(old[i]) THEN <<new[j]>> \o merged[<<i, j + 1>>]
            ELSE Larger(old[i], new[j]) \o merged[<<i + 1, j + 1>>]
  IN  merged[<<1, 1>>]

\* The temporary set as a slice, in the order of the codes.
TempSlice(temp) ==
  CHOOSE q \in [1 .. Cardinality(temp) -> temp] : \A i, j \in DOMAIN q : i < j => q[i] < q[j]

Ascending(codes) ==
  \A i \in 1 .. Len(codes) - 1 : IndexOf(codes[i]) < IndexOf(codes[i + 1])

Merged(s) == Merge(sorted_list[s], TempSlice(temp_set[s]))

------------------------------------------------------------------------------
Codes ==
  {index * 2 : index \in {i \in 0 .. 2^PP - 1 : Zone(i) # 0}} \cup
  {Flagged(index, rho) : index \in {i \in 0 .. 2^PP - 1 : Zone(i) = 0}, rho \in 1 .. W - PP + 1}

TypeOK ==
  /\ stream \in Streams
  /\ temp_set \in [Sketches -> SUBSET Codes]
  /\ \A s \in Sketches : Cardinality(temp_set[s]) < 2^P \div 8
  /\ sorted_list \in [Sketches -> Seq(Codes)]
  /\ absorbed \in [Sketches -> SUBSET stream]
  /\ disordered \in [Sketches -> BOOLEAN]

\* NewSparseHLL.
Init ==
  /\ stream \in Streams
  /\ temp_set = [s \in Sketches |-> {}]
  /\ sorted_list = [s \in Sketches |-> <<>>]
  /\ absorbed = [s \in Sketches |-> {}]
  /\ disordered = [s \in Sketches |-> FALSE]

------------------------------------------------------------------------------
Growing(s) == Len(sorted_list[s]) < MaxLen  \* bound

Insert(s, x) ==
  /\ Growing(s)
  /\ LET temp == temp_set[s] \cup {EncodeHash(x)}
     IN  IF Cardinality(temp) >= 2^P \div 8
         THEN /\ sorted_list' = [sorted_list EXCEPT ![s] = Merge(@, TempSlice(temp))]
              /\ temp_set' = [temp_set EXCEPT ![s] = {}]
              /\ disordered' = [disordered EXCEPT ![s] = @ \/ ~Ascending(TempSlice(temp))]
         ELSE /\ temp_set' = [temp_set EXCEPT ![s] = temp]
              /\ UNCHANGED <<sorted_list, disordered>>
  /\ absorbed' = [absorbed EXCEPT ![s] = @ \cup {x}]

\* GetElements, MergeTempSetIfNeeded before an export or a conversion.
MergeTempSet(s) ==
  /\ temp_set[s] # {}
  /\ sorted_list' = [sorted_list EXCEPT ![s] = Merged(s)]
  /\ temp_set' = [temp_set EXCEPT ![s] = {}]
  /\ disordered' = [disordered EXCEPT ![s] = @ \/ ~Ascending(TempSlice(temp_set[s]))]
  /\ UNCHANGED absorbed

\* MergeSets of two sparse sketches, which merges both temporary sets first.
MergeSparse(s, other) ==
  /\ Growing(s) /\ s # other
  /\ sorted_list' = [sorted_list EXCEPT ![s] = Merge(Merged(s), Merged(other)),
                                        ![other] = Merged(other)]
  /\ temp_set' = [temp_set EXCEPT ![s] = {}, ![other] = {}]
  /\ LET mixed(t) == disordered[t] \/ ~Ascending(TempSlice(temp_set[t]))
     IN  disordered' = [disordered EXCEPT ![s] = mixed(s) \/ mixed(other),
                                          ![other] = mixed(other)]
  /\ absorbed' = [absorbed EXCEPT ![s] = @ \cup absorbed[other]]

\* SetSortedList with a list that ExportSketch returned for another sketch.
SetSortedList(s, other) ==
  /\ s # other /\ temp_set[other] = {}
  /\ sorted_list' = [sorted_list EXCEPT ![s] = sorted_list[other]]
  /\ temp_set' = [temp_set EXCEPT ![s] = {}]
  /\ disordered' = [disordered EXCEPT ![s] = disordered[other]]
  /\ absorbed' = [absorbed EXCEPT ![s] = absorbed[other]]

Reset(s) ==
  /\ temp_set' = [temp_set EXCEPT ![s] = {}]
  /\ sorted_list' = [sorted_list EXCEPT ![s] = <<>>]
  /\ disordered' = [disordered EXCEPT ![s] = FALSE]
  /\ absorbed' = [absorbed EXCEPT ![s] = {}]

Next ==
  /\ UNCHANGED stream
  /\ \E s \in Sketches :
       \/ \E x \in stream : Insert(s, x)
       \/ MergeTempSet(s)
       \/ \E other \in Sketches : MergeSparse(s, other) \/ SetSortedList(s, other)
       \/ Reset(s)

Spec == Init /\ [][Next]_vars

------------------------------------------------------------------------------
(* Properties *)

Entries(s) == {sorted_list[s][i] : i \in DOMAIN sorted_list[s]}

\* Whatever the order of the merges, MergeIntoDense of the list and the
\* temporary set yields the registers of all hashes inserted or merged in.
NoRankLost ==
  \A s \in Sketches :
    Registers({DecodeHash(c) : c \in Entries(s) \cup temp_set[s]})
      = Registers({DensePlace(x) : x \in absorbed[s]})

\* The list has each index once, in order, as long as every temporary set had
\* the same order by code as by index.
ExactInOrder == \A s \in Sketches : ~disordered[s] => Ascending(sorted_list[s])

\* The estimate never counts more than the distinct hashes that were absorbed,
\* however often they are inserted and in whatever batches they are merged.
NeverOvercounts == \A s \in Sketches : Len(sorted_list[s]) <= Cardinality(absorbed[s])
==============================================================================
