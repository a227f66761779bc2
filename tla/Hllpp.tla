-------------------------------- MODULE Hllpp ---------------------------------
(***************************************************************************)
(* types/hll.Hllpp_set: a HyperLogLog++ sketch that starts as a sparse     *)
(* list and turns, once, into dense registers, shared by goroutines.       *)
(*                                                                         *)
(* The lock h.mu covers conversion, MergeSets, Reset and the sparse export *)
(* but not Insert and GetElements, which read h.format and h.sparse_set    *)
(* as two separate atomics; the sparse list has a lock of its own.  A step *)
(* here is one lock section or one atomic access.                          *)
(*                                                                         *)
(* A hash stands for its sparse encoding and hashes have distinct sparse   *)
(* slots, so the merge of sorted list and temporary set is a set union     *)
(* (module SparseList looks inside that merge).  The sketch merged in is   *)
(* local to its caller in every call of the repository, so its locks are   *)
(* uncontended and left out.                                               *)
(***************************************************************************)
EXTENDS RegisterMap

CONSTANTS
  Threads,      \* goroutines that share the sketch
  Usages,       \* ways the sketch is used: what each thread calls, what is merged in
  MergeTrigger, \* size of the temporary set at which Insert merges it, m >> 3
  DenseLen,     \* length of the sorted list at which it is as large as the registers
  NoThread,     \* nobody holds the lock
  Nil           \* h.dense_set before the conversion

Ops == {"insert", "elements", "export", "merge", "reset"}

SketchGiven == [format : {"sparse", "dense"}, hashes : SUBSET Hash]

ASSUME HllppAssumption ==
  /\ Usages \subseteq [roles : [Threads -> SUBSET Ops], incoming : SUBSET SketchGiven]
  /\ MergeTrigger \in Nat \ {0}
  /\ DenseLen \in Nat \ {0}
  /\ NoThread \notin Threads
  /\ Nil \notin RegMap
  /\ Idx \subseteq Nat
  /\ MaxRho <= 63

VARIABLES
  usage,      \* how this sketch is used, fixed at the start
  format,     \* h.format
  dense,      \* h.dense_set: Nil or its registers
  sparseNil,  \* h.sparse_set was stored nil
  temp,       \* temp_set of the sparse list
  sorted,     \* sorted_list of the sparse list
  hMu,        \* writer of h.mu
  spMu,       \* MergeSets holding sparse.mu across steps
  pc,         \* next step of a thread
  arg,        \* hashes the call in progress brings in
  source,     \* format of the sketch MergeSets merges in
  todo,       \* hashes MergeSets still has to place in the registers
  snap,       \* copy of the sorted list the conversion works from
  seen,       \* register -> its ranks since an export began to copy the registers
  crashed,    \* a nil dereference ended the process
  must,       \* history: hashes whose insert began and returned since the last reset
  may,        \* history: must and the hashes of calls that may have taken effect
  fresh,      \* history: the call of a thread began after the last reset
  need        \* history: must when the read of a thread began

repr    == <<format, dense, sparseNil, temp, sorted>>
locks   == <<hMu, spMu>>
locals  == <<arg, source, todo, snap>>
history == <<must, may, fresh, need>>
vars    == <<usage, repr, locks, pc, locals, seen, crashed, history>>

PC == {"idle", "loadSparse", "insertSparse", "checkLen", "insertDense",
       "lockConvert", "convMerge", "convCopy", "convFormat", "convDense", "convDrop",
       "elemLoad", "elemSparse", "elemDense",
       "expLock", "expMerge", "expCopy", "expDense", "expRegs",
       "mergeLock", "mergeBoth", "mergeRegs",
       "resetLock", "resetSparse", "resetDense"}

SketchTyped ==
  /\ usage \in Usages
  /\ format \in {"sparse", "dense"}
  /\ dense \in RegMap \cup {Nil}
  /\ sparseNil \in BOOLEAN
  /\ temp \in SUBSET Hash
  /\ sorted \in SUBSET Hash
  /\ hMu \in Threads \cup {NoThread}
  /\ spMu \in Threads \cup {NoThread}
  /\ pc \in [Threads -> PC]
  /\ arg \in [Threads -> SUBSET Hash]
  /\ source \in [Threads -> {"none", "sparse", "dense"}]
  /\ todo \in [Threads -> SUBSET Hash]
  /\ snap \in [Threads -> SUBSET Hash]
  /\ crashed \in BOOLEAN
  /\ must \in SUBSET Hash
  /\ may \in SUBSET Hash
  /\ fresh \in [Threads -> BOOLEAN]
  /\ need \in [Threads -> SUBSET Hash]

SeenTyped == seen \in [Threads -> [Idx -> SUBSET (0 .. MaxRho)]]

TypeOK == SketchTyped /\ SeenTyped

NothingSeen == [i \in Idx |-> {}]

Init ==
  /\ usage \in Usages
  /\ format = "sparse"
  /\ dense = Nil
  /\ sparseNil = FALSE
  /\ temp = {} /\ sorted = {}
  /\ hMu = NoThread /\ spMu = NoThread
  /\ pc = [t \in Threads |-> "idle"]
  /\ arg = [t \in Threads |-> {}]
  /\ source = [t \in Threads |-> "none"]
  /\ todo = [t \in Threads |-> {}]
  /\ snap = [t \in Threads |-> {}]
  /\ seen = [t \in Threads |-> NothingSeen]
  /\ crashed = FALSE
  /\ must = {} /\ may = {}
  /\ fresh = [t \in Threads |-> FALSE]
  /\ need = [t \in Threads |-> {}]

------------------------------------------------------------------------------
Goto(t, to) == pc' = [pc EXCEPT ![t] = to]

At(t, from) == ~crashed /\ pc[t] = from

\* A call that changes the sketch begins.
BeginUpdate(t, S) ==
  /\ arg' = [arg EXCEPT ![t] = S]
  /\ fresh' = [fresh EXCEPT ![t] = TRUE]
  /\ may' = may \cup S
  /\ UNCHANGED <<must, need>>

\* A call that only reads begins.
BeginRead(t) ==
  /\ need' = [need EXCEPT ![t] = must]
  /\ UNCHANGED <<arg, must, may, fresh>>

\* The call of t returns.
Return(t) ==
  /\ Goto(t, "idle")
  /\ arg' = [arg EXCEPT ![t] = {}]
  /\ source' = [source EXCEPT ![t] = "none"]
  /\ must' = must \cup (IF fresh[t] THEN arg[t] ELSE {})
  /\ fresh' = [fresh EXCEPT ![t] = FALSE]
  /\ need' = [need EXCEPT ![t] = {}]
  /\ UNCHANGED may

\* A reset takes effect: nothing inserted before it has to be there after.
ForgetAll ==
  /\ must' = {}
  /\ may' = UNION {arg[t] : t \in Threads}
  /\ fresh' = [t \in Threads |-> FALSE]
  /\ need' = [t \in Threads |-> {}]

SparseFree == spMu = NoThread

\* h.mu can be locked: nobody writes, and no export reads the registers.
HMuFree == hMu = NoThread /\ \A t \in Threads : pc[t] # "expRegs"

\* sparse.MergeTempSetIfNeeded, under sparse.mu.
MergeTempSet ==
  /\ sorted' = sorted \cup temp
  /\ temp' = {}

Crash == crashed' = TRUE /\ UNCHANGED <<repr, locks, pc, locals, history>>

------------------------------------------------------------------------------
(* Insert *)

\* Line 39: the format is read with no lock held.
CallInsert(t, h) ==
  /\ At(t, "idle")
  /\ "insert" \in usage.roles[t]
  /\ BeginUpdate(t, {h})
  /\ Goto(t, IF format = "sparse" THEN "loadSparse" ELSE "insertDense")
  /\ UNCHANGED <<repr, locks, source, todo, snap, crashed>>

\* Lines 40-41: the list is read after the format, it may be gone by now.
LoadSparse(t) ==
  /\ At(t, "loadSparse")
  /\ Goto(t, IF sparseNil THEN "insertDense" ELSE "insertSparse")
  /\ UNCHANGED <<repr, locks, locals, crashed, history>>

\* Mutant of InsertSparse: the merge starts a new list.
InsertSparseNewList(t) ==
  /\ At(t, "insertSparse")
  /\ SparseFree
  /\ LET grown == temp \cup arg[t]
     IN  IF Cardinality(grown) >= MergeTrigger
         THEN sorted' = grown /\ temp' = {}
         ELSE temp' = grown /\ UNCHANGED sorted
  /\ Goto(t, "checkLen")
  /\ UNCHANGED <<format, dense, sparseNil, locks, locals, crashed, history>>

\* Line 45: into the list that was loaded, whoever else has replaced it since.
InsertSparse(t) ==
  /\ At(t, "insertSparse")
  /\ SparseFree
  /\ LET grown == temp \cup arg[t]
     IN  IF Cardinality(grown) >= MergeTrigger
         THEN sorted' = sorted \cup grown /\ temp' = {}
         ELSE temp' = grown /\ UNCHANGED sorted
  /\ Goto(t, "checkLen")
  /\ UNCHANGED <<format, dense, sparseNil, locks, locals, crashed, history>>

\* Lines 50-51: the length is read under the list's own lock.
CheckLen(t) ==
  /\ At(t, "checkLen")
  /\ SparseFree
  /\ IF Cardinality(sorted) >= DenseLen
     THEN Goto(t, "lockConvert") /\ UNCHANGED <<locals, history>>
     ELSE Return(t) /\ UNCHANGED <<todo, snap>>
  /\ UNCHANGED <<repr, locks, crashed>>

\* Lines 52-56: only the first thread to arrive converts.
LockConvert(t) ==
  /\ At(t, "lockConvert")
  /\ HMuFree
  /\ IF format = "sparse"
     THEN hMu' = t /\ Goto(t, "convMerge") /\ UNCHANGED <<locals, history>>
     ELSE Return(t) /\ UNCHANGED <<hMu, todo, snap>>
  /\ UNCHANGED <<repr, spMu, crashed>>

\* The exports that copy the registers may find either rank of each.
ShowCopiers ==
  seen' = [t \in Threads |->
             IF pc[t] = "expRegs" THEN [i \in Idx |-> seen[t][i] \cup {dense'[i]}] ELSE seen[t]]

\* Lines 42 and 59: one register, under its bucket lock.
InsertDense(t) ==
  /\ At(t, "insertDense")
  /\ IF dense = Nil
     THEN Crash /\ UNCHANGED seen
     ELSE /\ \E h \in arg[t] : dense' = SetRegisterMax(dense, h)
          /\ ShowCopiers
          /\ Return(t)
          /\ UNCHANGED <<format, sparseNil, temp, sorted, locks, todo, snap, crashed>>

------------------------------------------------------------------------------
(* convertToDenseNoLock, called by Insert and MergeSets with h.mu held *)

\* Mutant of ConvMerge: the temporary set is not merged first.
ConvMergeNothing(t) ==
  /\ At(t, "convMerge")
  /\ SparseFree
  /\ Goto(t, "convCopy")
  /\ UNCHANGED <<repr, locks, locals, crashed, history>>

\* Line 71 takes sparse.mu: MergeSets of two sparse lists already holds it.
ConvMerge(t) ==
  /\ At(t, "convMerge")
  /\ SparseFree
  /\ MergeTempSet
  /\ Goto(t, "convCopy")
  /\ UNCHANGED <<format, dense, sparseNil, locks, locals, crashed, history>>

\* Mutant of ConvCopy: it takes h.mu, which its caller holds.
ConvCopyLocks(t) ==
  /\ At(t, "convCopy")
  /\ SparseFree /\ HMuFree
  /\ snap' = [snap EXCEPT ![t] = sorted]
  /\ Goto(t, "convFormat")
  /\ UNCHANGED <<repr, locks, arg, source, todo, crashed, history>>

\* Line 82: the registers are built from a copy.
ConvCopy(t) ==
  /\ At(t, "convCopy")
  /\ SparseFree
  /\ snap' = [snap EXCEPT ![t] = sorted]
  /\ Goto(t, "convFormat")
  /\ UNCHANGED <<repr, locks, arg, source, todo, crashed, history>>

\* Mutant of ConvFormat: the lock is released with the first store.
ConvFormatUnlocks(t) ==
  /\ At(t, "convFormat")
  /\ format' = "dense"
  /\ hMu' = NoThread
  /\ Goto(t, "convDense")
  /\ UNCHANGED <<dense, sparseNil, temp, sorted, spMu, locals, crashed, history>>

\* Lines 90-92, three stores that Insert and GetElements can come between.
ConvFormat(t) ==
  /\ At(t, "convFormat")
  /\ format' = "dense"
  /\ Goto(t, "convDense")
  /\ UNCHANGED <<dense, sparseNil, temp, sorted, locks, locals, crashed, history>>

ConvDense(t) ==
  /\ At(t, "convDense")
  /\ dense' = RegsOf(snap[t])
  /\ snap' = [snap EXCEPT ![t] = {}]
  /\ Goto(t, "convDrop")
  /\ UNCHANGED <<format, sparseNil, temp, sorted, locks, arg, source, todo, crashed, history>>

\* Mutant of ConvDrop: the list is emptied when it is dropped.
ConvDropEmpties(t) ==
  /\ At(t, "convDrop")
  /\ sparseNil' = TRUE
  /\ temp' = {} /\ sorted' = {}
  /\ hMu' = NoThread
  /\ Return(t)
  /\ UNCHANGED <<format, dense, spMu, todo, snap, crashed>>

\* The caller goes on: Insert and a sparse merge unlock and return, a merge of
\* dense registers places them now.
ConvDrop(t) ==
  /\ At(t, "convDrop")
  /\ sparseNil' = TRUE
  /\ IF source[t] = "dense"
     THEN Goto(t, "mergeRegs") /\ UNCHANGED <<locks, locals, history>>
     ELSE /\ hMu' = NoThread
          /\ spMu' = IF spMu = t THEN NoThread ELSE spMu
          /\ Return(t)
          /\ UNCHANGED <<todo, snap>>
  /\ UNCHANGED <<format, dense, temp, sorted, crashed>>

------------------------------------------------------------------------------
(* GetElements *)

CallElements(t) ==
  /\ At(t, "idle")
  /\ "elements" \in usage.roles[t]
  /\ BeginRead(t)
  /\ Goto(t, IF format = "sparse" THEN "elemLoad" ELSE "elemDense")
  /\ UNCHANGED <<repr, locks, source, todo, snap, crashed>>

\* Line 130: nothing checks that the list is still there.
ElemLoad(t) ==
  /\ At(t, "elemLoad")
  /\ IF sparseNil
     THEN Crash
     ELSE /\ Goto(t, "elemSparse")
          /\ UNCHANGED <<repr, locks, locals, crashed, history>>

\* SparseHLL.GetElements merges the temporary set before it counts.
ElemSparse(t) ==
  /\ At(t, "elemSparse")
  /\ SparseFree
  /\ MergeTempSet
  /\ Return(t)
  /\ UNCHANGED <<format, dense, sparseNil, locks, todo, snap, crashed>>

\* Line 133: nothing checks that the registers are there yet.
ElemDense(t) ==
  /\ At(t, "elemDense")
  /\ IF dense = Nil
     THEN Crash
     ELSE Return(t) /\ UNCHANGED <<repr, locks, todo, snap, crashed>>

------------------------------------------------------------------------------
(* ExportSketch *)

CallExport(t) ==
  /\ At(t, "idle")
  /\ "export" \in usage.roles[t]
  /\ BeginRead(t)
  /\ Goto(t, IF format = "sparse" THEN "expLock" ELSE "expDense")
  /\ UNCHANGED <<repr, locks, source, todo, snap, crashed>>

\* Mutant of ExpLock: h.mu is kept on the way to the dense path.
ExpLockKeeps(t) ==
  /\ At(t, "expLock")
  /\ HMuFree
  /\ hMu' = t
  /\ Goto(t, IF format = "sparse" THEN "expMerge" ELSE "expDense")
  /\ UNCHANGED <<repr, spMu, locals, crashed, history>>

\* Lines 268-284: the format is read again under h.mu.
ExpLock(t) ==
  /\ At(t, "expLock")
  /\ HMuFree
  /\ IF format = "sparse"
     THEN hMu' = t /\ Goto(t, "expMerge")
     ELSE UNCHANGED hMu /\ Goto(t, "expDense")
  /\ UNCHANGED <<repr, spMu, locals, crashed, history>>

ExpMerge(t) ==
  /\ At(t, "expMerge")
  /\ SparseFree
  /\ MergeTempSet
  /\ Goto(t, "expCopy")
  /\ UNCHANGED <<format, dense, sparseNil, locks, locals, crashed, history>>

ExpCopy(t) ==
  /\ At(t, "expCopy")
  /\ SparseFree
  /\ hMu' = NoThread
  /\ Return(t)
  /\ UNCHANGED <<repr, spMu, todo, snap, crashed>>

\* Lines 286-291: h.mu is taken for reading.  Registers that are not there are an
\* error here, not a crash.
ExpDense(t) ==
  /\ At(t, "expDense")
  /\ hMu = NoThread
  /\ IF dense = Nil
     THEN Return(t) /\ UNCHANGED seen
     ELSE /\ Goto(t, "expRegs")
          /\ seen' = [seen EXCEPT ![t] = [i \in Idx |-> {dense[i]}]]
          /\ UNCHANGED <<arg, source, history>>
  /\ UNCHANGED <<repr, locks, todo, snap, crashed>>

\* GetDataCopy is done.  It takes no bucket lock: an insert that has its pointer
\* goes on beside it, and what the copy holds is a choice over what it may have
\* met (Copied).
ExpRegs(t) ==
  /\ At(t, "expRegs")
  /\ Return(t)
  /\ seen' = [seen EXCEPT ![t] = NothingSeen]
  /\ UNCHANGED <<repr, locks, todo, snap, crashed>>

\* A register has six bits and starts at bit 6i, so that two of four lie in two
\* bytes: the first byte holds the bits of its rank below ByteEdge(i).
ByteEdge(i) == CASE i % 4 = 1 -> 4 [] i % 4 = 2 -> 16 [] OTHER -> 64

\* Register i as it reads when its first byte is of rank a, its second of rank b.
Mixed(i, a, b) == (a % ByteEdge(i)) + (b - (b % ByteEdge(i)))

\* The ranks of which the copy of t may have met a byte, that of an insert which
\* has stored the first of its two bytes included.
Shown(t, i) ==
  seen[t][i] \cup {SetRegisterMax(dense, h)[i] :
                     h \in UNION {arg[u] : u \in {v \in Threads : pc[v] = "insertDense"}}}

\* What the copy of t may hold for register i.
Copied(t, i) == {Mixed(i, a, b) : a, b \in Shown(t, i)}

\* Register i lies in two bytes and was raised while t copied.
Torn(t, i) == ByteEdge(i) < 64 /\ \E a, b \in Shown(t, i) : a # b

------------------------------------------------------------------------------
(* MergeSets *)

CallMerge(t, in) ==
  /\ At(t, "idle")
  /\ "merge" \in usage.roles[t]
  /\ BeginUpdate(t, in.hashes)
  /\ source' = [source EXCEPT ![t] = in.format]
  /\ Goto(t, "mergeLock")
  /\ UNCHANGED <<repr, locks, todo, snap, crashed>>

\* Lines 167-223: the four cases.  With h.mu held the format tells which
\* pointer is set (StableUnderLock), so the nil errors cannot happen.
MergeLock(t) ==
  /\ At(t, "mergeLock")
  /\ HMuFree
  /\ hMu' = t
  /\ \/ /\ format = "sparse" /\ source[t] = "sparse"
        /\ Goto(t, "mergeBoth")
        /\ UNCHANGED todo
     \/ /\ format = "sparse" /\ source[t] = "dense"
        /\ Goto(t, "convMerge")
        /\ todo' = [todo EXCEPT ![t] = Deciding(arg[t])]
     \/ /\ format = "dense"
        /\ Goto(t, "mergeRegs")
        /\ todo' = [todo EXCEPT ![t] =
                      IF source[t] = "dense" THEN Deciding(arg[t]) ELSE arg[t]]
  /\ UNCHANGED <<repr, spMu, arg, source, snap, crashed, history>>

\* Lines 186-209: both lists locked, merged, and the length checked; the lock
\* is still held when the conversion starts.
MergeBoth(t) ==
  /\ At(t, "mergeBoth")
  /\ SparseFree
  /\ sorted' = sorted \cup temp \cup arg[t]
  /\ temp' = {}
  /\ IF Cardinality(sorted') >= DenseLen
     THEN /\ spMu' = t
          /\ Goto(t, "convMerge")
          /\ UNCHANGED <<hMu, locals, history>>
     ELSE /\ hMu' = NoThread
          /\ Return(t)
          /\ UNCHANGED <<spMu, todo, snap>>
  /\ UNCHANGED <<format, dense, sparseNil, crashed>>

\* hllSet.Merge and MergeIntoDense: one register at a time.
MergeRegs(t) ==
  /\ At(t, "mergeRegs")
  /\ IF todo[t] = {}
     THEN /\ hMu' = NoThread
          /\ Return(t)
          /\ UNCHANGED <<dense, spMu, todo, snap>>
     ELSE /\ \E h \in todo[t] :
               /\ dense' = SetRegisterMax(dense, h)
               /\ todo' = [todo EXCEPT ![t] = @ \ {h}]
          /\ UNCHANGED <<locks, pc, arg, source, snap, history>>
  /\ UNCHANGED <<format, sparseNil, temp, sorted, crashed>>

------------------------------------------------------------------------------
(* Reset: a dense sketch is emptied but stays dense *)

CallReset(t) ==
  /\ At(t, "idle")
  /\ "reset" \in usage.roles[t]
  /\ Goto(t, "resetLock")
  /\ UNCHANGED <<repr, locks, locals, crashed, history>>

ResetLock(t) ==
  /\ At(t, "resetLock")
  /\ HMuFree
  /\ hMu' = t
  /\ Goto(t, IF format = "sparse" THEN "resetSparse" ELSE "resetDense")
  /\ UNCHANGED <<repr, spMu, locals, crashed, history>>

ResetSparse(t) ==
  /\ At(t, "resetSparse")
  /\ SparseFree
  /\ temp' = {} /\ sorted' = {}
  /\ hMu' = NoThread
  /\ Goto(t, "idle")
  /\ ForgetAll
  /\ UNCHANGED <<format, dense, sparseNil, spMu, locals, crashed>>

\* Mutant of ResetDense: the registers are kept.
ResetDenseNothing(t) ==
  /\ At(t, "resetDense")
  /\ hMu' = NoThread
  /\ Goto(t, "idle")
  /\ ForgetAll
  /\ UNCHANGED <<repr, spMu, locals, crashed>>

ResetDense(t) ==
  /\ At(t, "resetDense")
  /\ dense' = Zero
  /\ hMu' = NoThread
  /\ Goto(t, "idle")
  /\ ForgetAll
  /\ UNCHANGED <<format, sparseNil, temp, sorted, spMu, locals, crashed>>

------------------------------------------------------------------------------
Call(t) ==
  /\ UNCHANGED <<usage, seen>>
  /\ \/ \E h \in Hash : CallInsert(t, h)
     \/ \E in \in usage.incoming : CallMerge(t, in)
     \/ CallElements(t) \/ CallExport(t) \/ CallReset(t)

Convert(t) ==
  ConvMerge(t) \/ ConvCopy(t) \/ ConvFormat(t) \/ ConvDense(t) \/ ConvDrop(t)

Step(t) ==
  /\ UNCHANGED usage
  /\ \/ InsertDense(t) \/ ExpDense(t) \/ ExpRegs(t)
     \/ /\ UNCHANGED seen
        /\ \/ LoadSparse(t) \/ InsertSparse(t) \/ CheckLen(t) \/ LockConvert(t)
           \/ Convert(t)
           \/ ElemLoad(t) \/ ElemSparse(t) \/ ElemDense(t)
           \/ ExpLock(t) \/ ExpMerge(t) \/ ExpCopy(t)
           \/ MergeLock(t) \/ MergeBoth(t) \/ MergeRegs(t)
           \/ ResetLock(t) \/ ResetSparse(t) \/ ResetDense(t)

Next == \E t \in Threads : Call(t) \/ Step(t)

Spec == Init /\ [][Next]_vars

------------------------------------------------------------------------------
(* Properties *)

\* A goroutine that inserts is the only one that adds to the sketch, as the
\* drain goroutine of a window is.
OneInserter ==
  \A u \in Usages, t, v \in Threads :
    "insert" \in u.roles[t] /\ v # t => u.roles[v] \cap {"insert", "merge"} = {}

\* The sketch as a reader with all locks would see it: until the registers
\* are stored, the list is the sketch.
Contents == IF dense = Nil THEN RegsOf(temp \cup sorted) ELSE dense

\* Every insert and merge that began after the last reset and has returned is
\* in the sketch, through merges of the temporary set, conversion and resets
\* by other threads.
NoLostInsert == \A h \in must : Contents[IdxOf[h]] >= RhoOf[h]

\* A register holds nothing but the rank of a hash that some call brought in
\* since the last reset: a reset leaves nothing behind, even when it overtakes
\* an insert or finds the sketch converted.
NothingForeign ==
  \A i \in Idx : Contents[i] = 0 \/ \E h \in may : IdxOf[h] = i /\ RhoOf[h] = Contents[i]

\* What a reader is about to return contains every insert that had returned
\* when the read began, although the sketch may turn dense between its steps:
\* a reader that loaded the list before it was dropped counts a list that is
\* still complete.  An export of registers may miss one only in a register that
\* lies in two bytes and is raised during the copy (ExportsSeeCompleted): a
\* register raised in one byte, or by nobody, is never read too low.
ReadsSeeCompleted ==
  \A t \in Threads :
    /\ pc[t] \in {"elemSparse", "expMerge"} => need[t] \subseteq temp \cup sorted
    /\ pc[t] = "expCopy" => need[t] \subseteq sorted
    /\ pc[t] \in {"elemDense", "expDense"} /\ dense # Nil =>
         \A h \in need[t] : dense[IdxOf[h]] >= RhoOf[h]
    /\ pc[t] = "expRegs" =>
         \A h \in need[t] : \/ Torn(t, IdxOf[h])
                            \/ \A r \in Copied(t, IdxOf[h]) : r >= RhoOf[h]

\* The same without that exception, as the README promises it of exports.  It does
\* not hold: of a register that rises from 3 to 4 beside the copy, the old first
\* byte and the new second one make 0.
ExportsSeeCompleted ==
  \A t \in Threads : pc[t] = "expRegs" =>
    \A h \in need[t] : \A r \in Copied(t, IdxOf[h]) : r >= RhoOf[h]

\* Whoever takes h.mu finds the format and both pointers in agreement.
StableUnderLock ==
  hMu = NoThread => /\ format = "dense" <=> dense # Nil
                    /\ format = "dense" <=> sparseNil

\* No goroutine waits for a lock that it holds itself.
NoSelfWait == \A t \in Threads : pc[t] \in {"convMerge", "convCopy"} => spMu # t

\* t waits for h.mu, or for the lock of the list.
Waits(t) ==
  \/ pc[t] \in {"lockConvert", "expLock", "mergeLock", "resetLock"} /\ ~HMuFree
  \/ pc[t] = "expDense" /\ hMu # NoThread
  \/ pc[t] \in {"insertSparse", "checkLen", "elemSparse", "convMerge", "convCopy",
                "expMerge", "expCopy", "mergeBoth", "resetSparse"} /\ ~SparseFree

\* As long as a call is in progress, some call can go on: whatever the threads
\* hold and wait for, h.mu and the lock of the list never block everyone.
SomeCallProceeds ==
  (\E t \in Threads : pc[t] # "idle") /\ ~crashed =>
    \E t \in Threads : pc[t] # "idle" /\ ~Waits(t)

\* Nothing but those locks stops a call: no step of it waits for a condition
\* that only another call brings about, the nil pointers of a conversion that
\* is half done included.
OnlyLocksBlock ==
  \A t \in Threads : pc[t] # "idle" /\ ~crashed => (ENABLED Step(t) <=> ~Waits(t))

\* The merges of sparse sketches, and the inserts between them, never fill the
\* list.  So it is for the sketch of a window, which nothing is merged into.
SparseStaysSmall ==
  \A u \in Usages :
    LET small == {in \in u.incoming : in.format = "sparse"}
        inserted == IF \E t \in Threads : "insert" \in u.roles[t] THEN Hash ELSE {}
    IN small = {} \/ Cardinality(inserted \cup UNION {in.hashes : in \in small}) < DenseLen

\* The sketch only absorbs hashes and is only cleared whole.
Abstract == INSTANCE Sketch WITH regs <- Contents
ImplementsSketch == Abstract!Spec
==============================================================================
