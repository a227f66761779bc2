# Verification of distributed-ddos-hllpp

TLA+ models of the agents, the aggregator and the sketch they share, the TLC
configurations that check them on small instances, and theorems about them that
TLAPS proves for every value of the constants. Line numbers are those of the
repository.

## The system

Every host runs an **agent** (`cmd/agent`). Captured source addresses go through
a mitigation controller into the HyperLogLog++ sketch of the current window; a
detector looks at the windows, drives an anomaly state machine
(NORMAL, UNDER_ATTACK, RECOVERY), and the state switches the mitigation on and
off. The sketch of the finished window and the state are shipped to an
**aggregator** (`cmd/aggregator`), which merges the sketches, and decides once
per window from the reported states whether global defense is active. Agents poll
that decision and force themselves into UNDER_ATTACK; the aggregator may lock a
network security group in Azure.

```
 capture --> MitigationController --> WindowManager --> Hllpp_set (current, previous)
               ^  RateLimiter            |  TrafficStats       |  ExportSketch
               |                         v features            v
            UpdateState <-- state machine <-- detector      ship loop
               ^                                               |  MergeSketch
               |  ForceState                                   v
            defense poller <------ GetDefenseCommand ------ aggregator --> NSGController
```

| Component | State | Operations | Correct when | Hard part |
| --- | --- | --- | --- | --- |
| HLL++ sketch (`types/hll/hllpp_set.go`) | format, sparse list, registers, `h.mu` | Insert, GetElements, ExportSketch, MergeSets, Reset | no completed insert is lost, a reset leaves nothing, readers see what was complete | Insert and GetElements take no lock; conversion, merges and resets do |
| Sparse list (`types/sparse`) | temporary set, list | Insert, merges, SetSortedList, Reset | the list holds the largest rank of every index, each once | two orders: by code and by index |
| Dense registers (`types/register`, `dataclasses`, `types/hll/HLL.go`) | packed bytes, sum, zero counter | Insert, SetRegisterMax, Merge, Reset, GetDataCopy | bytes, sum and counter belong to the registers | neighbours share bytes but not locks |
| Window manager (`ddos/window`, `ddos/capture/stats.go`) | two sketches, counters, features | rotation, insert, check, export, Stop | a packet counts for its window, then is forgotten | pointers are taken under the lock and used after it |
| Packet capture and sources (`ddos/capture`, `cmd/serial-bridge`, `cmd/dataset-replay`, the injection handlers of `cmd/agent`) | two channels, batches, calls under way | Run, Stop, InjectIPs, datagrams, drain goroutines | every packet has one fate, and the counters agree with it | full channels, failed calls, two channels for one packet |
| Detectors (`ddos/detector`: z-score, EWMA, ensemble, HST) | histories, baselines, masses | IsAttack, Score, Update | a lasting flood stays an attack, the quietest window is none | a baseline that decides what it learns |
| State machine and controller (`ddos/detector/statemachine.go`, `ddos/mitigation/controller.go`) | state, counters, active | Transition, ForceState, UpdateState, ShouldAllow | changes of state are confirmed, mitigation follows the state | three goroutines, two locks, none around both |
| Classifier and baseline (`ddos/detector/classifier.go`, `cmd/agent`) | samples, classification | ClassifyAttack, learning, shipping | the baseline is calm traffic, a report is of one piece | read and written without a lock |
| Rate limiter (`ddos/mitigation/ratelimiter.go`) | token bucket, Count-Min Sketch | ShouldAllow, DecayCMS, Reset | limits hold, nobody is stopped without cause | saturation, collisions, decay |
| Aggregator (`cmd/aggregator`) | global sketch, node table, defense, grace period | merges, resets, correlation, detection, polls | defense follows fresh reports, honours the grace period, and ends | every handler takes its locks one after the other |
| Firewall (`ddos/firewall`) | locked, and the rule in Azure | Lockdown, Unlock | the controller knows whether the rule is there | failed calls, lost answers, restarts |
| Agents with their aggregator | all tickers | check, poll, ship, correlate | an attack is answered in time, the answer ends, and nothing starts from nothing | the loop from report to command to report |
| Evaluation (`ddos/eval`, `cmd/eval-detection`) | events, ground truth | Run, metrics, experiment summary | the two counts agree | tickers of two goroutines, windows after the end |
| Root server, ESP32 agents, tools, generated code | | | | see "Not modelled" |

## Modules

| Module | Models | Used by |
| --- | --- | --- |
| `RegisterMap` | what a register array means: raise, join, build from hashes | `Sketch`, `Hllpp` |
| `Sketch` | abstract specification: absorb hashes, or be emptied whole | refined by `Hllpp` |
| `Hllpp` | `Hllpp_set`, one step per lock section or atomic access | `MCHllpp`, `HllppProofs` |
| `SparseList` | `SparseHLL` with `EncodeHash`, `DecodeHash`, `Rho` | `MCSparseList`, `Components` |
| `PackedRegisters` | `Registers`, `Sum`, `ZeroCounter`, bucket locks, `hllSet.Insert`/`Merge`/`Reset`, `GetDataCopy` | `MCPackedRegisters`, `Components` |
| `WindowManager` | `WindowManager` and `TrafficStats` | `MCWindowManager`, `WindowManagerProofs` |
| `Ingest` | the ways packets come in, up to sketch and counters | `Components` |
| `Detectors` | `ZScoreDetector`, `EWMADetector`, `EnsembleDetector` | `Components` |
| `HalfSpaceTrees` | a tree of `HSTDetector` | `Components` |
| `AgentControl` | `AnomalyStateMachine`, `MitigationController`, detector, poller and drain goroutines | extended by `Telemetry` |
| `Telemetry` | baseline, `ClassifyAttack`, classification and shipping loop around `AgentControl` | `MCAgentControl`, `AgentProofs` |
| `RateLimiter` | `RateLimiter` and the decay loop | extended by `Components` |
| `Firewall` | `NSGController` and the rule it keeps | extended by `Correlation` |
| `Correlation` | node table, `runCorrelation`, resets and restarts | `MCCorrelation`; refined by `Aggregator` |
| `Aggregator` | the request handlers, HTTP reset and detection loop around `Correlation` | `MCAggregator`, `AggregatorProofs` |
| `System` | agents and aggregator together, second by second | `MCSystem`, `SystemProofs` |
| `Evaluation` | an evaluation run, its metrics and the experiment summary | `Components` |
| `Components` | the components that share no state, one of them at work in each behaviour | `MCComponents`, `ComponentProofs`, `StorageProofs` |
| `Counting` | no code: sums over finite sets, least members, powers of two, for the proofs | `HllppProofs`, `ComponentProofs`, `StorageProofs` |

Each `MC...` module gives constants for TLC, each `...Proofs` module theorems:
`AgentProofs` for `AgentControl` and `Telemetry`, `AggregatorProofs` for
`Correlation`, `Firewall` and `Aggregator`, `ComponentProofs` for `RateLimiter`,
`Ingest`, `Evaluation`, `Detectors` and `HalfSpaceTrees`, `StorageProofs` for
`SparseList` and `PackedRegisters`, the others for the module they are named after.
`Components` puts the components that share no state side by side, so that one run
checks them; a theorem about one of them is a theorem of `AnySpec` too. `mutant`
operators stand before the definition they change: each is a plausible mistake in
that piece of code that the property named with it in `PROJECT.json` must notice.

### Sketch

`Hllpp` has a program counter per goroutine. `hMu` is the writer of `h.mu`
(an export that copies registers holds it for reading, from `ExpDense` to
`ExpRegs`), `spMu` is the lock of
the list where `MergeSets` keeps it across steps; everything else that takes that
lock is one step. `CallInsert` reads the format (line 39), `LoadSparse` the
pointer (41), `InsertSparse` adds to the list and merges at the trigger (45),
`CheckLen` and `LockConvert` are lines 50-56, `ConvMerge` to `ConvDrop` the
conversion with its three stores, and the other operations follow their lines in
the same way. A nil dereference ends the process (`crashed`). `must` and `may`
are history: what completed, and what was at least begun, since the last reset.
`usage` is chosen at the start: the calls each goroutine makes.

Hashes are opaque with a register and a rank; `SparseList` looks inside the list
with real codes at smaller widths (8 bits of hash, 6 of index, 4 of precision,
for 64, 25 and 14), and `PackedRegisters` inside the registers, bit by bit.
Inserts do not take `h.mu`, so one that has its pointer goes on beside an export's
copy. `seen` collects the ranks of which such a copy may have met a byte, those of
inserts under way included; `Copied` is what it may then hold: in a register that
lies in two bytes, the first byte of one rank and the second of another.

`SparseList` is atomic because all its operations run with `s.mu` held.
`PackedRegisters` splits `Set` into its loads and stores, since the bucket lock
does not cover what it stores, and copies byte by byte for an export, in any
order, since nothing orders that copy against the stores.

### Window manager

`RotateSwap`, `RotatePackets` and `RotateBytes` are `rotate`; while they run
`wm.mu` is held. `InsertLoad` and `Insert` are the two halves of
`WindowManager.Insert`, `RecordPackets` and `RecordBytes` those of `RecordPacket`,
`CheckLoad` to `CheckStore` are `runCheck`, each count apart from the load of its
pointer. `spoiled` counts the checks since the last rotation that stored anything
but the current window and the last completed one. Windows have no number: `age[p]`
counts the rotations since the insert of `p` took its pointer.

### Packets

`Ingest` follows numbered packets from one of four sources: the capture loop
(`Capture`, `CaptureEnds`), datagrams (`Datagram`), the serial bridge (`Line`,
`ReadError`, `EndOfInput`, `BridgeStop`) and the replay (`DatasetRow`,
`ReplayEnds`). Bridge and replay collect batches (`Collect`) and give a batch up
whether or not `Call` worked; a call that timed out may have been handled.
`Handle` is one channel operation of a handler, `Take`, `Insert` and `TakeBytes`
are the drain goroutines. Every packet ends in one of four sets: inserted,
limited, dropped, unsent.

### Detectors

`Detectors` works with the integers behind the formulas: sums of powers instead
of mean and deviation, `(c - mean) / stddev > s` squared, scores per mille. A
sigmoid is known at whole numbers, rounded to a thousandth
(0 below -7, 1000 above 7), and free between its neighbours, so that a
score is a choice between a least and a largest one; what LODA and the trees
make of a sample is free once they are trained. The moving average is rounded
down to 1/`Unit`. `HalfSpaceTrees` has the masses, the swap and the score of one
tree; a sample is the leaf it falls into, since the splits are fixed at the
start.

### Agent

`DetScore`, `DetTransition` or `DetForce`, and `DetUpdate` are one round of the
detector goroutine; a score is clean or anomalous by free choice. `PollCheck`,
`PollForce`, `PollUpdate` are the defense poller, `DrainCheck` and `DrainCount`
the two halves of `ShouldAllow`. `attackRun` and `cleanRun` are history: scores in
a row since the last command. `Telemetry` extends the round by what follows it
in the code: `Learn` (the baseline, in NORMAL), `Classify`, and `Store`, the
assignment to `lastClassification` word by word, against the shipping loop that
reads state and classification for a request (`ShipState`, `ShipClassification`,
`ShipSend`). `RateLimiter` has one action per call and outcome, because every
method holds `rl.mu` throughout.

### Aggregator

`Correlation` counts time in windows: `Elapse` ages the node table and the grace
period and makes the correlation tick due. `Correlate` is `runCorrelation` up to
the unlock, `CallFirewall` the call made after it, `WalkScores` and `WalkTypes`
the loops over the table without its lock: a merge meanwhile may end the process
(`crashed`). `Firewall` lets a call succeed, fail, or go through with its answer
lost. `Aggregator` adds the sections of the handlers: `Receive`, `MergeGlobal`,
`Record` for a merge (`MergeUnnamed` if it carries no node id), `ResetGlobal`, `ResetNodes`, `ResetDetector` for an HTTP
reset, `DetCount` and `DetJudge` for the detection loop. A request lasts less
than two windows (agents give up after five seconds). The handlers' return on an
error of `MergeSets` (`main.go:119`, `248`) is no step: that error is a missing
sketch or nil registers, which a decoded sketch and one under `s.mu` do not have
(`StableUnderLock`).

### System

`System` is a clock over both sides. `Tick` passes a second when all ticks of the
last one have been served; every agent checks each second, polls every
`PollEvery` and ships every `Window` seconds, and the aggregator correlates every
`Window` seconds, each ticker with a phase of its own, chosen at the start.
Within a second the ticks are served in any order. `Check` is `Transition`
(the ensemble detector, which alone keeps the hysteresis), `PollAnswered` the
command, `ShipDelivered` the report, `Correlate` the decision over the nodes that
are not stale; calls may fail (`PollFailed`, `ShipFailed`) and the aggregator may
restart with an empty table and a new ticker. Resets with
their grace period are left to `Correlation`. What happens inside a step is the
subject of `AgentControl` and `Correlation`.

### Evaluation

Generator and window manager have tickers of their own (`Generate`, `Rotate`),
up to `Skew` windows apart; `Check` reads the window a judgement will be booked
on, `Judge` books it once, `Finish` computes the metrics of `Run`, `Summarize`
those of the experiment logger from its timeline.

## What is checked

Every property has a comment in its module that says what it claims.

| Run | Instance and bounds | Shows |
| --- | --- | --- |
| `hllpp` | 3 hashes, two of them with ranks 3 and 4 in a register that lies in two bytes; a window (insert, count, export, reset by a goroutine each) or an aggregator (all calls by one, sparse and dense sketches merged in); merge trigger 2, conversion at 2 | `NoLostInsert`, `NothingForeign`, `ReadsSeeCompleted`, `StableUnderLock`, `SomeCallProceeds` and `OnlyLocksBlock`, and `ImplementsSketch`: a refinement of `Sketch` |
| `hllpp_self_wait` | one goroutine, sparse sketches that reach the conversion length | **violated**: `MergeSets` waits for its own lock |
| `sparse_twice` | a stream of five hashes with both kinds of codes, lists of up to 3 entries grow | **violated**: three distinct hashes count as four |
| `registers_lost_update` | four registers in three bytes, two locks, two inserting goroutines and one that merges, resets or exports | **violated**: neighbours take a register back |
| `window` | one packet that comes again and again, up to 2 in the counters | `CountedInItsWindow`, `ForgottenAfterTwo`, `RotationSpoilsOne`, and under fairness `StopReturns` |
| `agent` | confirmation counts of 2, baseline of 2 samples, either kind of detector, with and without an aggregator | `ResidueBound`, `ConfirmedChanges`, `MitigationFollowsScores`, `LearnsFromCalm`, `ReportsAgree`, and under fairness `MitigationCatchesUp`; the assumption `AllSignalsDecide` goes through `ClassifyAttack` at and beside every threshold |
| `components` | one part at a time, see below | `Faithful`; `NoRankLost`, `ExactInOrder`; `WithinLimit`, `WithinRate`, `BlamedFairly`; `QuietIsNormal`, `FloodLasts`, `FloodForgotten`; `SteadyScore`; `Accounting`; `SummariesAgree` |
| `correlation` | two nodes, calls that work, fail or lose their answer, resets, restarts; stale after 2 windows, grace of 2 | `GraceHonoured`, `RuleFollowsDefense`, `ControllerKnows`, and under fairness `DefenseEnds`, `AttackAnswered` |
| `correlation_stranded` | no failures and no restarts | **violated**: a reset during defense leaves the rule in place |
| `aggregator` | one node, stale after 1 window, grace of 3 | `NoOutdatedDefense`, `OneOldSample`, and `ImplementsCorrelation`: with the handlers around it the correlation is still `CorrSpec` |
| `system` | two agents, all phases, lost calls and restarts; confirmation counts of 1 and 2, poll, window and stale timeout of 3 s | `NoSpontaneousDefense`, `AnsweredInTime`, `EndsInTime` |
| `system_feedback` | one agent, no fault, the periods of the code (check 1 s, poll 5 s, window 10 s, stale 20 s, counts 3 and 5) | **violated**: clean scores for ever do not end the defense |

The parts of `components`:

- *registers*: four registers in three bytes, two locks, two inserting goroutines
  and one that merges, resets or exports, from empty or given registers. A sketch
  that is being copied has one inserting goroutine, as an exported window has,
  and changes once meanwhile.
- *list*: widths of 8, 6 and 4 bits for 64, 25 and 14; two sketches; a stream of
  five hashes with both kinds of codes and a shared index, or one of 128 pairs
  that cover all 256 hashes; lists of up to 3 entries grow.
- *limiter*: two addresses sharing a counter in one row of two; counters saturate
  at 7, the limit flag 18 wraps to 2.
- *detector*: counts of 0, 1 and 12, a history of 5, training after 2 and 3
  samples, a lower threshold and sensitivity, which so short a history can reach;
  the moving average alone gives a quarter to each count, in fifths.
- *trees*: depth 2, windows of 4 samples.
- *input*: four packets, channels of one packet, batches of two.
- *run*: three windows, attacks in none, one or two of them, or beyond the end.

**Why the bounds are enough.** The sketch needs two hashes that compete for a
register and one that does not, a trigger and a conversion length that are
reached, and one goroutine per operation, which is what a window has. For the
list, two merged codes are the least that can be out of order, and the lists get long enough
for every case of the loop; for the registers, three bytes hold a register that
straddles two bytes on either side, and the ranks 3 and 4 have no bit in common,
so that a mixture shows. Two nodes or agents make "at least half" differ from
"more than half". The grace period is longer than the oldest report can live
(stale timeout plus two windows for a merge under way), as 70 s is with the
default window of 10 s; with `-window` above 17 s that no longer holds, and
neither does `NoOutdatedDefense`. In `system` poller and shipping have the same
period, so that the distance of their ticks, on which `EndsInTime` depends, is
fixed by the phases; in the code the one divides the other, with the same effect.
The two time bounds are tight: with `HotBound` or `ColdBound` a second less,
`AnsweredInTime` and `EndsInTime` fail. A channel of one packet, a batch of two
and four packets fill, overflow and leave a rest. Counters are capped where more
would show nothing (`MaxAge`, `MaxCount`, `MaxLen`, `MaxOffers`, `MaxWait`,
`HotBound`, `ColdBound`, `MaxAlarms`); registers stop taking calls after an
overlap, since sum and counter drift from then on.

`CHECK_DEADLOCK FALSE` is in runs whose system may stop: after a nil dereference
or a fatal error, in a self-wait, after Stop, at the end of an input or an
evaluation, or at a bound. The agents of `system` are symmetric; no liveness is
checked with symmetry.

**Fairness.** `AgentControl` and `Telemetry`: the ticker wakes the detector
goroutine and a poller that has found a command carries on; nothing is assumed of
commands, packets, scores or shipments. `Correlation`: time passes, and the
correlation loop goes on when it is due, as its context bounds a call of the
firewall; reports, resets and restarts may never come. `System`: tickers fire and
their ticks are served; calls may fail for ever where they may fail at all.
`WindowManager`: strong fairness for the goroutines that
wait for `wm.mu`, which Go's mutexes hand over in bounded time, and for leaving
the loops, because `select` chooses at random between a closed channel and a
ticker. Safety properties assume no fairness.

## What is proved

From the named assumptions on the constants only, except where the table says
more:

| Theorem | Establishes |
| --- | --- |
| `HllppProofs!TypeCorrect` | types, for every set of hashes and goroutines, every trigger, length and usage |
| `StableUnderLockAlways` | `StableUnderLock`, for every mix of calls |
| `NothingForeignAlways` | `NothingForeign`, for every mix of calls |
| `NoLostInsertAlways` | `NoLostInsert`, if `OneInserter` |
| `ReadsSeeCompletedAlways` | `ReadsSeeCompleted`, if `OneInserter` |
| `OnlySelfWaitBlocks` | `NoSelfWait => SomeCallProceeds`, for every mix of calls |
| `SmallListsNeverBlock` | `NoSelfWait` and `SomeCallProceeds`, if `SparseStaysSmall` |
| `SketchImplemented` | `Spec => ImplementsSketch`, if `OneInserter`: the refinement of `Sketch` |
| `AgentProofs!TypeCorrect` | types, and the confirmation counters within their bounds |
| `ResidueBounded` | `ResidueBound`: at most one request of an earlier attack in the limiter |
| `ChangesAreConfirmed` | `ConfirmedChanges`, for every confirmation count |
| `FollowsScores` | `MitigationFollowsScores`: without an aggregator mitigation is active exactly outside NORMAL between rounds |
| `ImplementsAgentControl` | `TSpec => Spec`: telemetry adds nothing to the control loop, so that all of the above holds with it |
| `BaselineIsCalm` | `LearnsFromCalm`, for every confirmation count and size of the baseline |
| `ReportsAreWhole` | `ReportsAgree`, for all signals and with commands at any point |
| `WindowManagerProofs!TypeCorrect` | types, for every set of packets |
| `CountsInItsWindow`, `ForgetsAfterTwo` | `CountedInItsWindow`, `ForgottenAfterTwo` |
| `RotationSpoilsOneCheck` | `RotationSpoilsOne` |
| `ComponentProofs!TypeCorrect` | types, tokens within the bucket, counters within 16 bits |
| `SketchErrsUpwards` | `NeverUnderestimates` |
| `RateRespected` | `WithinRate` |
| `LimitRespected` | `WithinLimit`, for every limit below the largest counter value |
| `BlameIsFair` | `BlamedFairly`: who is blamed shares every counter with enough counted requests |
| `AggregatorProofs!CorrTypeCorrect` | types, and the grace period within its bound |
| `GraceIsHonoured` | `GraceHonoured` |
| `RuleIsKnown`, `RuleIsRight` | `ControllerKnows`, `RuleFollowsDefense` |
| `Implements` | `ImplementsCorrelation`: `Spec => CorrSpec` |
| `NoOutdatedDecision` | `NoOutdatedDefense`, if `Grace >= StaleAfter + 2` |
| `AtMostOneOldSample` | `OneOldSample` |
| `SystemProofs!TypeCorrect` | types, for every set of agents and every period |
| `NothingFromNothing` | `NoSpontaneousDefense`, with every loss and restart |
| `AttackIsAnswered` | `AnsweredInTime`, for every number of agents and all periods and phases |
| `DefenseEnds` | `EndsInTime`, if `Window % PollEvery = 0` |
| `PacketsAccounted` | `Accounting`, for every source, size of channels and batches, and number of packets |
| `SummariesDifferKnowingly` | `SummariesAgree`, for every number of windows and every attack list |
| `FloodIsHeld` | `FloodLasts`, for all counts, histories, warm-ups and thresholds |
| `QuietStaysNormal` | `QuietIsNormal`, if `354 <= Threshold` |
| `ZScoreForgets` | `FloodForgotten` for the z-score, for every history and sensitivity |
| `FloodIsForgotten` | `FloodForgotten` for the moving average as well, if `Deviation > 0` and `FineUnit` |
| `SteadyIsScored` | `SteadyScore`, for trees of every depth and windows of every size |
| `StorageProofs!RanksKept` | `NoRankLost`, for all bit widths, sketches and sets of hashes |
| `OrderKept` | `ExactInOrder`, likewise |
| `RegistersFaithful` | `Faithful`, for every number of registers, locks and goroutines, and all ranks |

**The hypotheses.** `OneInserter`: who inserts is the only one that adds. On an agent
a single goroutine drains the channel (`cmd/agent/main.go:274`) and nobody merges into
the sketch of a window; the aggregator only merges. `MCHllpp` assumes it of both of
its usages, so that TLC evaluates it. The root server does not meet it (see
"Departures"). `SparseStaysSmall`: the sparse sketches that are merged in, and the
inserts between them, do not fill the list. Nothing is merged into the sketch of a
window; an aggregator that gets enough sparse sketches does wait for itself
(`hllpp_self_wait`), and there only `OnlySelfWaitBlocks` speaks. `MCHllpp` assumes
that its usages are small exactly if they are not those of that run. `Deviation > 0`:
the code replaces anything else by 2 (`ewma.go:32`). `FineUnit`: the model keeps the
average in whole units where the code has a double, and loses up to a unit per check;
the unit has to be fine enough that the loss does not hide an average within the
deviation. It is an inequality between constants, which `MCComponents` assumes of the
instance of the run. `Window % PollEvery = 0`: with 10 s and 5 s it holds; without it
the distance of a poll and a shipping tick drifts, an agent that did not ship a
commanded state in one round does so in the next, and with 5 s and 3 s TLC finds
`EndsInTime` violated. `354 <= Threshold`: what the learning detectors and the
sigmoids of a count below the mean can reach together; the code has 600
(`ensemble.go:51`). `Grace >= StaleAfter + 2`: see "Why the bounds are enough". Widths
are `2 < P < PP < W` with ranks that fit into six bits, as in the code (14, 25 and
64); a packed register holds at most 63. Of the sets only addresses, goroutines, nodes
and agents are assumed finite, and of counts that there is a largest.

**The inductive invariants.** *Sketch.* The code has no lock around format and
pointers that Insert would take, so everything rests on what the holder of `h.mu`
knows. `FormatInv` says it per program counter: sparse until `convFormat`, then
dense without registers, then with both, and back to one of them before the lock
is free; types need it too, since a merge indexes registers it does not test for
nil. That proves `StableUnderLock`. `OriginInv` adds where things come from
(`TodoInv`, `ForeignInv`): what a conversion still has in hand was brought in
since the last reset, because both hold `h.mu`. `SoleInv` adds who is where: with
one inserter the conversion's copy of the list is the list (`CopyInv`), since the
only one who could add to it is converting or is kept out, and so a hash that is
placed is present in the list, or in the registers, or in `todo` (`PlacedInv`,
`MustInv`). For exports (`ExportInv`), every rank a copy may have met is at least
that of each hash the export has to contain, so these are in whatever comes from one
rank (`NotMixed`); two bytes of different ranks are the only exception. The refinement maps both representations to `Contents`; every step
absorbs a set or clears all (`AbsorbsOrClears`), and the conversion is a stutter
because the registers of a set are what its hashes leave (`Filled`). For
deadlocks, `ListLockInv` says that the lock of the list is kept across steps only
by a merge that goes on to convert, and so by the holder of `h.mu`: nobody who has
the list waits for `h.mu`, and who has `h.mu` waits for the list at most because it
has it. `SmallInv` bounds list and temporary set by what could be brought in, so
that no merge starts a conversion at all.

*Agent.* For confirmed changes the state machine's own counters
are not enough: `consecutiveAttack` is tied to the history of scores
(`attackRun`) in NORMAL, and `consecutiveRecovery` to `cleanRun` in RECOVERY; a
forced state sets both sides back, which is why commands end the runs. For the
residue the drain goroutine's program counter is counted in: a request that was
let through to the limiter before the reset is the one that may remain. For
`FollowsScores` the invariant says what `newState` is while an update is due.
For the baseline (`LearnInv`), every anomalous sample since the last clean one is
still in `consecutiveAttack` while the state is NORMAL, the one about to be learnt
included; the return to NORMAL needs no case of its own, since its score is clean.
For reports, `StoreInv` says which words of the classification are those of the
verdict already, and `CopyInv` that a request that is alone has copied its words
from a classification that nobody writes.

*Limiter.* `NeverUnderestimates` is inductive with the types; `WithinLimit`
follows from it, because an address is only admitted while its least counter is
within the limit, and that counter is at least what was counted for it.
`WithinRate` needs the refill that is due counted beside the tokens. `BlameIsFair`
needs the other side: a counter is at most the sum of what its sharers had counted
(`SketchBounded`), which decay and saturation only lower.

*Windows.* A packet's pointer is the current slot at age 0 and the previous one at
age 1, a finished insert is in that slot and no other, and it stays until the
second rotation (`PacketInv`). For checks (`SpoiledInv`), once
one has been spoiled since the last rotation, the one under way began after that
rotation and is `OnTrack`: its pointers and counts are those of the two windows.

*Packets.* `Houses` gives every packet read so far a home: the batch, the rest of a
call, a queue, the drain goroutine's hand, or one of the four fates. Every step
moves one packet, or a whole batch, from one home to another, and what is in a home
is exactly what the code's variable there holds. The bytes of a packet take a way
of their own (`BytesHouses`): batch, call, handed over or never sent. When all has
run dry only the fates are inhabited, and their sizes add up.

*Aggregator.* For the firewall the invariant (`Pending`) says what a call that is
about to be made will find: the rule is still as it was before the decision changed. The
refinement needs to know that an HTTP reset is only under way if there are any
(`FlightInv`); types then come from `Correlation`. For `NoOutdatedDefense` it
speaks of ages (`AgeInv`): a merge from before the reset is still in its first
window or has used up at most one window of the grace period, so the age of what
it enters and the grace period left add up to at least `Grace - 1`. When the grace
period is over such an entry is stale and not counted; the other attacks in the
table were reported since (`AttackInv`), and a majority is not empty.
`OneOldSample` counts in the value that the loop has taken and not yet judged.

*System.* `NoSpontaneousDefense` is inductive: a check leaves NORMAL only by confirming, a
report says no more than the state, a majority has a member, and a command needs
a majority. `AnsweredInTime` follows an attack through three stations.
`CountedOrLeft`: an agent in NORMAL has at most `attack` anomalous scores behind
it, so after `AttackConfirm` of them it is under attack. `Reported`: once that is
longer ago than its last shipping tick, its entry is an attack, no older than that
tick. `Decided`: the agents for which even that was before the last correlation
(`Decisive`) are either less than half, or the defense is active; since they
are listed as attackers at a correlation, and no more nodes are listed than there
are agents, half of all agents are enough. Each second moves
the attack and the timers by one, which keeps all three.
`EndsInTime` goes the other way (`Ending`). `Escalated`: with clean scores an agent
is under attack for the rest of this second, or from a poll to the next check, and
no longer. `Outdated`: an agent whose shipping ticks fall elsewhere (not `Exposed`,
which `PhasesKept` shows to be for ever) reported its attack when it was one, so
that entry is as old as the last anomalous score, or stale. `Lifting`: while the
defense lasts, the next correlation is within the bound, and at the bound every
entry is stale.

*Evaluation.* `Written` says what each result and summary is made of when it
exists: sizes of sets of windows, which both counts cut in the same places
(`Regions`), inside and beyond the last window, alerted or not, attacked or not.

*Detectors.* Sums of powers are recursive functions over a list, and what they are
is shown by looking at the first index where it would fail (`Induction`). For
`FloodLasts` the invariant (`Frozen`) is that the baselines, which an alarm has
stopped, give the count that started the flood a score above the threshold with
nothing from the learning detectors; scores grow with the count (`ScoresGrow`,
from the floor of a z-score, `FloorsGrow`, and of a quotient, and the table of the sigmoid), and
the least score is not lower before the learning detectors are trained than
after. For `QuietIsNormal` (`Calm`), nothing the baselines have learnt is below `least`,
so that neither the mean nor the average is. For the z-score alone (`Recent`), the
last alarms are the last counts of the history and not below the current one;
`FewExceed` is Cantelli's inequality for them: the squares of `d (n x - S) + V`,
summed over the history and over its last members alone, leave a share of less than
`1 / (1 + s^2)` to what exceeds `s` deviations. For the moving average (`Fading`), `n`
alarms in a row have brought it as near to the current count as `n` steps of its
rate do, less what rounding can take in all; `PowersRaise` turns the sums of
those steps into powers, and `SomeForgets`, by Bernoulli's inequality
(`WeightsGrow`), says that a number of steps that is enough exists.

*Trees.* `Weighed` counts the samples: on the path of a leaf that all traffic of
the window has reached, every node has the mass of all of them, on the current side
and, after the swap, on the other. A score is a sum over the levels, each weighed
by a power of two; `Levels` is the recursion of `Score` as a function of its own,
`LevelHeights` what it adds up to when every level has the same.

*Sparse list.* A sketch `Stands` for a set of hashes when each code of its list and
its temporary set is that of a hash of the set, and each of the hashes has a code
with its index and a rank that is no smaller (`Represents`). Coding is where the
arithmetic is: `EncodingKeeps` says that a code decodes to the register and the rank
of its hash, by splitting a hash into register number, the rest of the index and
what lies below, and looking for its first 1 in each (`TopAbove`, `TopBelow`).
Merging is where the steps are: `MergeIs` says that what the loop returns
stands for both lists, and is in order if both were, by the distance of its two
positions from the ends (`Near`). With that each operation keeps `Stands`, and
places that outdo one another leave the same registers (`RegistersSame`).

*Registers.* Until two Sets meet on a byte, `Packing` says of every step of a Set
what the memory holds. A register that nobody is halfway through is there bit by
bit; one that is has the new rank in its first byte and the old one in its second
(`BitsHold`). What a Set has loaded still agrees with the memory outside its own
register, because who works on a byte is alone on it (`OneToAByte`), and the bucket
lock keeps others from the register itself (`WordsFit`). `Sum` and `ZeroCounter`
are changed before and after the bytes: there are registers whose sum it is, those
of the Sets under way being a step ahead (`SumHolds`), and others for the zeros
that are a step behind (`ZerosHold`); one register changes either by its own share
(`SumChanges`, `ZerosChange`), also when the counter wraps. For the copy
(`CopyHolds`), the bits copied from a byte are those of one rank that the register
has had. The bounds of the model beside a copy are not used.

**Only model-checked.** `OnlyLocksBlock` speaks of ENABLED, and all liveness
(`StopReturns`, `MitigationCatchesUp`, `DefenseEnds` and `AttackAnswered` of the
correlation) needs fairness: both are out of the prover's reach. What blocks a call
of the sketch is therefore a definition, `Waits`; `OnlyLocksBlock` has TLC compare it
with what is enabled, and the theorems are about it. `ImplementsSketch` and
`ImplementsCorrelation` are proved in full, as neither specification has a
fairness the abstract one would ask for. Every other property of a passing run is
a theorem.
The type invariants of the modules with proofs are theorems and in no run;
`NeverUnderestimates`, on which `WithinLimit` rests, likewise.

## Departures from the docs

Checked, with a run each:

- **Self-wait** (`hllpp_self_wait`): merging two sparse sketches whose union
  reaches the conversion length never returns, with `h.mu` held.
- **Indices counted twice** (`sparse_twice`): the temporary set is sorted by code,
  the list by index.
- **Lost registers** (`registers_lost_update`): neighbouring registers share
  bytes but not locks. Only concurrent inserts into one sketch do this, as in the
  root server `main.go`.
- **Stranded rule** (`correlation_stranded`): `/api/reset` during defense leaves
  the deny-all rule in place.
- **Command and report keep each other up** (`system_feedback`): a commanded
  agent that ships before its next check reports UNDER_ATTACK, and is NORMAL again
  at the next poll. With the periods of the code this can happen if the shipping
  tick falls into the second of a poll or the next, and
  `cmd/agent/main.go:395` says the poller "does not prevent natural recovery".

Seen while modelling, in the models but without a run of their own:

- Two inserting goroutines lose inserts at the conversion: the list still takes a
  hash after it was copied (`hllpp_set.go:45`); `main.go:18` speaks of "the
  single, thread-safe HLL++ instance". In `Hllpp`, a usage with two inserting
  threads violates `NoLostInsert`.
- An export copies the bytes of dense registers beside an insert
  (`registers.go:127`). A register in two bytes may come out as a mixture, larger
  or smaller than both ranks: of 3 becoming 4 it can be 0, so that an insert of
  long ago is missing from the report. On an agent only an insert that took its
  pointer before the rotation can come beside the export of the previous window,
  unless a rotation overtakes the export as well.
  `ReadsSeeCompleted` says that nothing else is ever missing; with
  `ExportsSeeCompleted` as an invariant of `Hllpp.cfg` TLC shows how this is. It
  is against `README.md:61`.
- `PreviousCount` counts after it has released `wm.mu`, and a rotation in between
  makes the sketch the current one, just emptied (`window.go:169`); one between
  the two counts makes a check compare a window with itself. `RotationSpoilsOne`
  says that it is one check per rotation; with `PreviousIsCompleted` as an
  invariant of `Window.cfg` TLC shows how, against `window.go:164`.
- `GetElements` and `Insert` can dereference nil between the stores of a
  conversion (`hllpp_set.go:59`, `130`, `133`): `crashed` in `Hllpp`.
- A command between `Transition` and `UpdateState` (`cmd/agent/main.go:134-136`)
  leaves UNDER_ATTACK with the rate limiter off until the next tick, against
  `ddos/mitigation/controller.go:10`; hence `MitigationFollowsScores` is for
  agents without an aggregator and `MitigationCatchesUp` for all.
- A state is confirmed by check ticks, not by windows as `docs/SYSTEM.md:152`
  and `README.md:56` have it: several ticks may see the same two windows.
- The first anomalous scores of an attack, before it is confirmed, are taken in
  NORMAL and enter the baseline; `LearnsFromCalm` bounds them. After a relapse or
  with a single detector there are none.
- A report that overlaps a round of the detector can join the state of one round
  with the classification of another, or the pointer of one name with the length
  of another (`cmd/agent/main.go:173`, `379`).
- A per-address limit of 65535 is never exceeded, since counters saturate there
  (`ratelimiter.go:108`).
- The z-score alone is asked about an unfinished window at every check and
  remembers the answer's count each time (`zscore.go:54`), so that a flood is the
  norm after `(history - 1) / (1 + s^2) + 1` checks: with 20 counts and a
  sensitivity of 3 after two, which is fewer than confirm an attack; the moving
  average alone likewise. `zscore.go:9` speaks of a history of windows.
- The comments of the ensemble's weights (`ensemble.go:9-14`) are not
  `DefaultEnsembleWeights`; with the commented ones the quietest window can be an
  attack (the mutant `CommentedWeights`).
- A lasting change of legitimate traffic that the ensemble takes for an attack
  freezes its baselines, and nothing thaws them but lower traffic
  (`ensemble.go:196`).
- The trees give the highest score there is right after each swap, when the new
  masses are empty; `hst.go:153` says "Normal data: cur ≈ ref → score ≈ 0".
  `SteadyScore` says how it falls from there. Splits are drawn for
  normalised features and compared with raw ones (`hst.go:63`).
- Packets stopped by the limiter count as traffic when they come through the
  byte channel and not with pcap, so the two kinds of agents compare different
  numbers (`Accounting`).
- The serial bridge counts the packets of failed calls as forwarded, spins at the
  end of its input, and drops its batch at a signal; the replay never sends its
  last partial batch.
- The correlation walks the node table without its lock
  (`cmd/aggregator/main.go:420`, `450`); a merge meanwhile is a fatal error.
- The lockdown gauge is set whatever the call returned (`main.go:389`), and a call
  that failed is not tried again while the defense lasts (`main.go:381`).
- A snapshot of the traffic counters may take packets and bytes of different
  packets (`stats.go:20`), and features may mix two windows (`window.go:112-118`).
- An export may ship a window other than the last one, because the pointer is
  taken before `h.mu` (`window.go:198`).
- An evaluation counts windows after the last one and attack windows beyond the
  end where the experiment summary does not (`eval.go:147`); the ensemble judges
  completed windows, so its alarms are booked a window late.

## Not modelled

- The HTTP shipping loop sends empty registers for a sparse window
  (`cmd/agent/main.go:491`); `System` carries the states of reports and not their
  sketches.
- What LODA makes of a sample, and the estimate itself (bias correction, linear
  counting, the harmonic mean): floating-point formulas without control flow. The
  sum of the registers is an exact integer here and a double in the code, which
  rounds away ranks above 39. The threshold detector has no state, and the
  transition tracker is written and never read.
- Devices and filters of libpcap, Prometheus metrics, files and dashboards: output
  only.
- The root server `main.go`: its sketch is `Hllpp`, but with a combination of
  callers that does not survive, see above.
- ESP32 agents: one loop without goroutines, which repeats the agent with fixed
  thresholds. Load generators, benchmarks and generated code keep no state of
  their own.
- Start and shutdown of the processes.

## Plan

1. The sketches of shipped windows in `System`: which packets the global sketch
   has seen when windows are shipped twice or never, or sparse over HTTP.
2. The loop of the ESP32 agents.
