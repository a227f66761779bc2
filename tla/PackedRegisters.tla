---------------------------- MODULE PackedRegisters ----------------------------
(***************************************************************************)
(* The dense registers of types/hll.hllSet: 6-bit registers packed into    *)
(* bytes (types/register), the running sum and zero counter beside them    *)
(* (dataclasses), and the locks of NewBucketLockManager.                   *)
(*                                                                         *)
(* Set loads the two bytes its register begins in and stores both again,   *)
(* so it also stores the bits of the neighbours, whose bucket locks are    *)
(* others.  Inserts share stateLock; Reset has it alone.  Merge does not   *)
(* take it, and shares a thread with Reset because both run with the lock  *)
(* h.mu of the sketch above held.                                          *)
(*                                                                         *)
(* Two adjacent loads are one step: they can only differ when two Sets     *)
(* touch a common byte, which is what the properties are conditional on.   *)
(***************************************************************************)
EXTENDS Integers, FiniteSets

CONSTANTS
  N,         \* number of registers
  NumLocks,  \* number of bucket locks
  Ranks,     \* the ranks that hashes have
  MaxRank,   \* the largest of them
  Inserters, \* goroutines that call Insert or SetRegisterMax
  Holder,    \* the goroutine that holds h.mu: Merge, Reset and the copy for an export
  Other,     \* registers of the sketch that Merge reads
  Stored     \* sketches the registers may be made from: SetRegisters

Reg == 0 .. N - 1

PackedRegistersAssumption ==
  /\ N \in Nat \ {0} /\ NumLocks \in Nat \ {0}
  /\ MaxRank \in 1 .. 63
  /\ Ranks \subseteq 1 .. MaxRank
  /\ Holder \notin Inserters
  /\ Other \in [Reg -> {0} \cup Ranks]
  /\ Stored \subseteq [Reg -> {0} \cup Ranks]

Threads == Inserters \cup {Holder}

NumBytes == (6 * N + 7) \div 8
Bits == 0 .. 8 * NumBytes - 1

VARIABLES
  data,       \* _data, bit by bit
  sum,        \* Sum, in units of 2^-MaxRank
  zeros,      \* Zeros
  pc,         \* next step of a thread
  idx,        \* register it is at
  rank,       \* rank it brings
  old,        \* u, the value Set found
  word,       \* cur, the two bytes Set works on
  regs,       \* history: what the registers should be
  overlapped, \* history: two Sets worked on a common byte at a time
  copied,     \* dataCopy, the bits copied so far
  during      \* history: the ranks a register had or was getting since the copy began

memory == <<data, sum, zeros>>
locals == <<idx, rank, old, word>>
export == <<copied, during>>
vars == <<memory, pc, locals, regs, overlapped, export>>

------------------------------------------------------------------------------
(* Packing *)

FirstByte(i) == (6 * i) \div 8
BytesOf(i) == {FirstByte(i), FirstByte(i) + 1} \cap (0 .. NumBytes - 1)

BitsOf(b) == 8 * b .. 8 * b + 7

BitOf(v, k) == (v \div 2^k) % 2

\* Registers.Get and getNoLock.
Value(bits, i) ==
  LET b(k) == bits[6 * i + k] * 2^k IN b(0) + b(1) + b(2) + b(3) + b(4) + b(5)

\* cur with register i replaced.
Packed(bits, i, v) ==
  [p \in DOMAIN bits |-> IF p \in 6 * i .. 6 * i + 5 THEN BitOf(v, p - 6 * i) ELSE bits[p]]

StoreByte(bits, b, w) == [p \in DOMAIN bits |-> IF p \in BitsOf(b) THEN w[p] ELSE bits[p]]

\* The bytes that SetData copies.
Image(m) == [p \in Bits |-> IF p \div 6 < N THEN BitOf(m[p \div 6], p % 6) ELSE 0]

\* Recalculate.
Weight(v) == 2^(MaxRank - v)
SumOf(m) == LET total[n \in 0 .. N] == IF n = 0 THEN 0 ELSE total[n - 1] + Weight(m[n - 1])
            IN  total[N]
ZerosOf(m) == Cardinality({i \in Reg : m[i] = 0}) % 2^16

------------------------------------------------------------------------------
TypeOK ==
  /\ data \in [Bits -> {0, 1}]
  /\ sum \in Int
  /\ zeros \in 0 .. 2^16 - 1
  /\ pc \in [Threads -> {"idle", "next", "copy", "value", "sum", "load", "low", "high", "zeros"}]
  /\ idx \in [Threads -> 0 .. N]
  /\ rank \in [Threads -> 0 .. 63]
  /\ old \in [Threads -> 0 .. 63]
  /\ word \in [Threads -> {<<>>} \cup [Bits -> {0, 1}]]
  /\ regs \in [Reg -> {0} \cup Ranks]
  /\ overlapped \in BOOLEAN
  /\ \E copiedBytes \in SUBSET (0 .. NumBytes - 1) :
       copied \in [UNION {BitsOf(b) : b \in copiedBytes} -> {0, 1}]
  /\ during \in [Reg -> SUBSET ({0} \cup Ranks)]

\* NewPackedRegisters, or NewHllppSetFromSketch with the bytes of a sketch.
Init ==
  /\ regs \in Stored
  /\ data = Image(regs)
  /\ sum = SumOf(regs)
  /\ zeros = ZerosOf(regs)
  /\ pc = [t \in Threads |-> "idle"]
  /\ idx = [t \in Threads |-> 0]
  /\ rank = [t \in Threads |-> 0]
  /\ old = [t \in Threads |-> 0]
  /\ word = [t \in Threads |-> <<>>]
  /\ overlapped = FALSE
  /\ copied = <<>> /\ during = [i \in Reg |-> {}]

------------------------------------------------------------------------------
Goto(t, to) == pc' = [pc EXCEPT ![t] = to]

Locking(t) == pc[t] \in {"value", "sum", "load", "low", "high", "zeros"}

\* GetLockForBucket: the lock of register i.
LockOf(i) == i % NumLocks
LockFree(i) == \A t \in Threads : Locking(t) => LockOf(idx[t]) # LockOf(i)

\* Bound: a sketch that is being copied has one inserting goroutine, and its
\* registers change once before the copy is complete.
AloneBesideCopy(t) == \A u \in Inserters \ {t} : pc[u] = "idle"
UnchangedBesideCopy == \A i \in Reg : during[i] = {regs[i]}

\* Insert and SetRegisterMax, with stateLock shared and the bucket locked.
CallInsert(t, i, r) ==
  /\ ~overlapped  \* bound: sum and zeros drift for ever after an overlap
  /\ pc[Holder] = "copy" => AloneBesideCopy(t) /\ UnchangedBesideCopy
  /\ pc[t] = "idle"
  /\ LockFree(i)
  /\ idx' = [idx EXCEPT ![t] = i]
  /\ rank' = [rank EXCEPT ![t] = r]
  /\ Goto(t, "value")
  /\ UNCHANGED <<memory, old, word, regs, overlapped, export>>

\* Merge: register after register; zero ranks take no lock.
CallMerge ==
  /\ ~overlapped  \* bound
  /\ pc[Holder] = "idle"
  /\ idx' = [idx EXCEPT ![Holder] = 0]
  /\ Goto(Holder, "next")
  /\ UNCHANGED <<memory, rank, old, word, regs, overlapped, export>>

MergeNext ==
  /\ pc[Holder] = "next"
  /\ LET i == idx[Holder]
     IN  \/ /\ i = N
            /\ idx' = [idx EXCEPT ![Holder] = 0]
            /\ Goto(Holder, "idle")
            /\ UNCHANGED rank
         \/ /\ i < N /\ Other[i] = 0
            /\ idx' = [idx EXCEPT ![Holder] = i + 1]
            /\ UNCHANGED <<pc, rank>>
         \/ /\ i < N /\ Other[i] > 0 /\ LockFree(i)
            /\ rank' = [rank EXCEPT ![Holder] = Other[i]]
            /\ Goto(Holder, "value")
            /\ UNCHANGED idx
  /\ UNCHANGED <<memory, old, word, regs, overlapped, export>>

\* The lock is released: Insert returns, Merge goes on.
Unlocked(t) ==
  /\ Goto(t, IF t = Holder THEN "next" ELSE "idle")
  /\ idx' = [idx EXCEPT ![t] = IF t = Holder THEN @ + 1 ELSE 0]
  /\ rank' = [rank EXCEPT ![t] = 0]
  /\ old' = [old EXCEPT ![t] = 0]

\* Get; the larger of the two ranks is set, by Merge only if it is its own.
ReadValue(t) ==
  /\ pc[t] = "value"
  /\ LET v == Value(data, idx[t])
     IN  IF t = Holder /\ rank[t] <= v
         THEN Unlocked(t)
         ELSE /\ rank' = [rank EXCEPT ![t] = IF v > @ THEN v ELSE @]
              /\ Goto(t, "sum")
              /\ UNCHANGED <<idx, old>>
  /\ UNCHANGED <<memory, word, regs, overlapped, export>>

\* Mutant of ChangeSum: the old value's share stays in the sum.
ChangeSumAdds(t) ==
  /\ pc[t] = "sum"
  /\ old' = [old EXCEPT ![t] = Value(data, idx[t])]
  /\ sum' = sum + (IF old'[t] = rank[t] THEN 0 ELSE Weight(rank[t]))
  /\ Goto(t, "load")
  /\ UNCHANGED <<data, zeros, idx, rank, word, regs, overlapped, export>>

\* Set begins: getNoLock, and ChangeSum with its compare-and-swap.
ChangeSum(t) ==
  /\ pc[t] = "sum"
  /\ old' = [old EXCEPT ![t] = Value(data, idx[t])]
  /\ sum' = sum - Weight(old'[t]) + Weight(rank[t])
  /\ Goto(t, "load")
  /\ UNCHANGED <<data, zeros, idx, rank, word, regs, overlapped, export>>

\* Another Set is between its loads and its stores of one of these bytes.
Overlaps(t) ==
  \E s \in Threads \ {t} :
    pc[s] \in {"low", "high"} /\ BytesOf(idx[s]) \cap BytesOf(idx[t]) # {}

\* Both bytes are loaded and the register is replaced in the copy.
LoadWord(t) ==
  /\ pc[t] = "load"
  /\ word' = [word EXCEPT ![t] = Packed(data, idx[t], rank[t])]
  /\ overlapped' = (overlapped \/ Overlaps(t))
  /\ Goto(t, "low")
  /\ UNCHANGED <<memory, idx, rank, old, regs, export>>

StoreLow(t) ==
  /\ pc[t] = "low"
  /\ data' = StoreByte(data, FirstByte(idx[t]), word[t])
  /\ during' = IF pc[Holder] = "copy" THEN [during EXCEPT ![idx[t]] = @ \cup {rank[t]}] ELSE during
  /\ Goto(t, "high")
  /\ UNCHANGED <<sum, zeros, locals, regs, overlapped, copied>>

\* The last register has no second byte.
StoreHigh(t) ==
  /\ pc[t] = "high"
  /\ data' = StoreByte(data, FirstByte(idx[t]) + 1, word[t])
  /\ word' = [word EXCEPT ![t] = <<>>]
  /\ regs' = [regs EXCEPT ![idx[t]] = rank[t]]
  /\ Goto(t, "zeros")
  /\ UNCHANGED <<sum, zeros, idx, rank, old, overlapped, export>>

\* The zero counter goes down once per register; the lock is released.
CountZeros(t) ==
  /\ pc[t] = "zeros"
  /\ zeros' = IF old[t] = 0 /\ rank[t] # 0 THEN (zeros - 1) % 2^16 ELSE zeros
  /\ Unlocked(t)
  /\ UNCHANGED <<data, sum, word, regs, overlapped, export>>

\* Reset, alone under stateLock.
Reset ==
  /\ pc[Holder] = "idle"
  /\ \A t \in Inserters : pc[t] = "idle"
  /\ data' = [p \in Bits |-> 0]
  /\ regs' = [i \in Reg |-> 0]
  /\ sum' = SumOf(regs') /\ zeros' = ZerosOf(regs')
  /\ UNCHANGED <<pc, locals, overlapped, export>>

\* GetDataCopy, without the bucket locks: bytes are copied in no known order.
CallCopy ==
  /\ ~overlapped /\ \E t \in Inserters : AloneBesideCopy(t)  \* bounds
  /\ pc[Holder] = "idle"
  /\ during' = [i \in Reg |-> {regs[i]} \cup {rank[t] : t \in {u \in Inserters : pc[u] = "high" /\ idx[u] = i}}]
  /\ Goto(Holder, "copy")
  /\ UNCHANGED <<memory, locals, regs, overlapped, copied>>

CopyByte(b) ==
  /\ pc[Holder] = "copy"
  /\ BitsOf(b) \cap DOMAIN copied = {}
  /\ copied' = [p \in DOMAIN copied \cup BitsOf(b) |-> IF p \in BitsOf(b) THEN data[p] ELSE copied[p]]
  /\ UNCHANGED <<memory, pc, locals, regs, overlapped, during>>

CopyReturns ==
  /\ pc[Holder] = "copy" /\ DOMAIN copied = Bits
  /\ copied' = <<>> /\ during' = [i \in Reg |-> {}]
  /\ Goto(Holder, "idle")
  /\ UNCHANGED <<memory, locals, regs, overlapped>>

Set(t) ==
  ReadValue(t) \/ ChangeSum(t) \/ LoadWord(t) \/ StoreLow(t) \/ StoreHigh(t) \/ CountZeros(t)

Next ==
  \/ \E t \in Inserters, i \in Reg, r \in Ranks : CallInsert(t, i, r)
  \/ CallMerge \/ MergeNext
  \/ \E t \in Threads : Set(t)
  \/ Reset
  \/ CallCopy \/ CopyReturns \/ \E b \in 0 .. NumBytes - 1 : CopyByte(b)

Spec == Init /\ [][Next]_vars

------------------------------------------------------------------------------
(* Properties *)

Storing(i) == \E t \in Threads : pc[t] = "high" /\ idx[t] = i

Kept == \A i \in Reg : Storing(i) \/ Value(data, i) = regs[i]

\* A copied register is a rank it had in the meantime, or, lying in two
\* bytes, has its low bits of one and its high bits of another: such a mixture
\* may be larger or smaller than both.
Mixed(i) ==
  \E low, high \in during[i] : \A k \in 0 .. 5 :
    copied[6 * i + k] = BitOf(IF (6 * i + k) \div 8 = FirstByte(i) THEN low ELSE high, k)

\* The packed bytes hold exactly the registers that were set: their bucket lock
\* is all that Sets need.
KeptByBucketLocks == Kept

\* They do as long as no two Sets worked on a common byte at a time, although
\* every Set stores bits of registers that it has no lock for; when no Set is
\* under way the running sum and the zero counter, which are never computed
\* anew, are those of the registers; and what is copied for an export beside
\* the Sets is at worst put together from two ranks of a register.
Faithful ==
  ~overlapped =>
    /\ Kept
    /\ (\A t \in Threads : ~Locking(t)) => sum = SumOf(regs) /\ zeros = ZerosOf(regs)
    /\ DOMAIN copied = Bits => \A i \in Reg : Mixed(i)
==============================================================================
