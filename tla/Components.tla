------------------------------ MODULE Components -------------------------------
(***************************************************************************)
(* The components that share no state, side by side: part says which of    *)
(* them is at work, and the variables of the others are not used.  The     *)
(* rate limiter's are at their first values then.                          *)
(***************************************************************************)
EXTENDS RateLimiter, Sequences

CONSTANTS
  W, P, PP, Sketches, Streams, MaxLen,                                     \* of SparseList
  N, NumLocks, Ranks, MaxRank, Inserters, Holder, Other, Stored,           \* of PackedRegisters
  Counts, MinHistory, MaxHistory, Squared, AlphaInverse, AloneInverse,     \* of Detectors
  EwmaWarmup, Deviation, CountUnit, LodaWarmup, HstWindow, Threshold,
  MaxDepth, WindowSize, MassUnit,                                          \* of HalfSpaceTrees
  MaxPackets, ChanSize, BatchSize,                                         \* of Ingest
  TotalWindows, AttackLists, Skew                                          \* of Evaluation

VARIABLES
  part,
  stream, temp_set, sorted_list, absorbed, disordered,
  data, sum, zeros, regPc, idx, rank, old, word, regs, overlapped, copied, during,
  kind, zHistory, ewma, samples, last, attack, current, least, level, alarms,
  mass, refMass, samplesSeen, trained, seen, refSeen,
  source, reader, read, batch, calls, ipsChan, bytesChan, held, inserted, limited,
  packets, dropped, bytesDropped, unsent,
  attackList, generated, windowID, detect, wid, events, result, summary

List == INSTANCE SparseList

listVars == <<stream, temp_set, sorted_list, absorbed, disordered>>

Registers == INSTANCE PackedRegisters WITH pc <- regPc

registerVars == <<data, sum, zeros, regPc, idx, rank, old, word, regs, overlapped, copied, during>>

Detector == INSTANCE Detectors WITH Unit <- CountUnit, history <- zHistory

detectorVars == <<kind, zHistory, ewma, samples, last, attack, current, least, level, alarms>>

Trees == INSTANCE HalfSpaceTrees WITH Unit <- MassUnit

treeVars == <<mass, refMass, samplesSeen, trained, seen, refSeen>>

Input == INSTANCE Ingest

inputVars == <<source, reader, read, batch, calls, ipsChan, bytesChan, held, inserted, limited,
               packets, dropped, bytesDropped, unsent>>

Run == INSTANCE Evaluation

runVars == <<attackList, generated, windowID, detect, wid, events, result, summary>>

ASSUME ComponentsAssumption ==
  /\ List!SparseListAssumption /\ Registers!PackedRegistersAssumption
  /\ Detector!DetectorsAssumption /\ Trees!HalfSpaceTreesAssumption
  /\ Input!IngestAssumption /\ Run!EvaluationAssumption

------------------------------------------------------------------------------
(* One of them at work *)

NoList ==
  /\ stream = 0 /\ temp_set = 0 /\ sorted_list = 0 /\ absorbed = 0
  /\ disordered = 0
NoRegisters ==
  /\ data = 0 /\ sum = 0 /\ zeros = 0 /\ regPc = 0 /\ idx = 0 /\ rank = 0
  /\ old = 0 /\ word = 0 /\ regs = 0 /\ overlapped = 0 /\ copied = 0 /\ during = 0
NoDetector ==
  /\ kind = 0 /\ zHistory = 0 /\ ewma = 0 /\ samples = 0 /\ last = 0
  /\ attack = 0 /\ current = 0 /\ least = 0 /\ level = 0 /\ alarms = 0
NoTrees ==
  /\ mass = 0 /\ refMass = 0 /\ samplesSeen = 0 /\ trained = 0 /\ seen = 0
  /\ refSeen = 0
NoInput ==
  /\ source = 0 /\ reader = 0 /\ read = 0 /\ batch = 0 /\ calls = 0
  /\ ipsChan = 0 /\ bytesChan = 0 /\ held = 0 /\ inserted = 0 /\ limited = 0
  /\ packets = 0 /\ dropped = 0 /\ bytesDropped = 0 /\ unsent = 0
NoRun ==
  /\ attackList = 0 /\ generated = 0 /\ windowID = 0 /\ detect = 0 /\ wid = 0
  /\ events = 0 /\ result = 0 /\ summary = 0

AnyInit ==
  /\ part \in {"limiter", "list", "registers", "detector", "trees", "input", "run"}
  /\ Init
  /\ IF part = "list" THEN List!Init ELSE NoList
  /\ IF part = "registers" THEN Registers!Init ELSE NoRegisters
  /\ IF part = "detector" THEN Detector!Init ELSE NoDetector
  /\ IF part = "trees" THEN Trees!Init ELSE NoTrees
  /\ IF part = "input" THEN Input!Init ELSE NoInput
  /\ IF part = "run" THEN Run!Init ELSE NoRun

AnyNext ==
  /\ UNCHANGED part
  /\ IF part = "limiter" THEN Next ELSE UNCHANGED vars
  /\ IF part = "list" THEN List!Next ELSE UNCHANGED listVars
  /\ IF part = "registers" THEN Registers!Next ELSE UNCHANGED registerVars
  /\ IF part = "detector" THEN Detector!Next ELSE UNCHANGED detectorVars
  /\ IF part = "trees" THEN Trees!Next ELSE UNCHANGED treeVars
  /\ IF part = "input" THEN Input!Next ELSE UNCHANGED inputVars
  /\ IF part = "run" THEN Run!Next ELSE UNCHANGED runVars

anyVars == <<part, vars, listVars, registerVars, detectorVars, treeVars, inputVars, runVars>>

AnySpec == AnyInit /\ [][AnyNext]_anyVars

------------------------------------------------------------------------------
(* What is checked of each; the rate limiter's properties come as they are. *)

\* PackedRegisters.Faithful: registers, sum and zeros, when no two Sets met on a byte.
Faithful == part = "registers" => Registers!Faithful

\* SparseList.NoRankLost: no register falls below the rank it should have.
NoRankLost == part = "list" => List!NoRankLost

\* SparseList.ExactInOrder: merges in index order leave one code for an index.
ExactInOrder == part = "list" => List!ExactInOrder

\* Detectors.QuietIsNormal: the quietest window yet is no attack.
QuietIsNormal == part = "detector" => Detector!QuietIsNormal

\* Detectors.FloodLasts: the ensemble holds on to an attack that lasts.
FloodLasts == part = "detector" => Detector!FloodLasts

\* Detectors.FloodForgotten: the z-score or the moving average alone lets go of it soon.
FloodForgotten == part = "detector" => Detector!FloodForgotten

\* HalfSpaceTrees.SteadyScore: steady traffic is scored by the age of its window.
SteadyScore == part = "trees" => Trees!SteadyScore

\* Ingest.Accounting: every packet has one fate, and the counters add up.
Accounting == part = "input" => Input!Accounting

\* Evaluation.SummariesAgree: the two counts of a run differ as they must.
SummariesAgree == part = "run" => Run!SummariesAgree
==============================================================================
