------------------------------ MODULE Aggregator ------------------------------
(***************************************************************************)
(* cmd/aggregator.aggregatorServer: the request handlers and the detection *)
(* loop around the cross-node correlation.                                 *)
(*                                                                         *)
(* A merge has a section under s.mu, where the sketch goes into globalSet, *)
(* and one under nodesMu, where the report goes into the table; an HTTP    *)
(* reset has one of each and then a third step, the detector's history.    *)
(* GetEstimate, GetSketch, GetDefenseCommand and /api/defense only read.   *)
(* A sketch is known by the node it came from.                             *)
(***************************************************************************)
EXTENDS Correlation

VARIABLES
  global,   \* nodes whose sketches are in s.globalSet
  pc,       \* next section of the merge in progress for a node
  report,   \* the state that merge carries
  slow,     \* it began in an earlier window
  before,   \* history: it began before the last HTTP reset
  outdated, \* history: listed nodes whose entry comes from such a merge
  attacked, \* history: an attack was reported by a merge that began since then
  resetPc,  \* next section of the HTTP reset in progress
  detPc,    \* next step of the detection loop
  sample,   \* the count the detection loop took: of this run or of one reset since
  samples   \* the counts in the detector's history, by run, up to two of each

requests == <<pc, report, slow, before>>
detection == <<detPc, sample, samples>>
origin == <<outdated, attacked>>
aggVars == <<corrVars, global, requests, origin, resetPc, detection>>

TypeOK ==
  /\ CorrTypeOK
  /\ global \in SUBSET Nodes
  /\ pc \in [Nodes -> {"idle", "merge", "record"}]
  /\ report \in [Nodes -> Reports]
  /\ slow \in SUBSET Nodes
  /\ before \in SUBSET Nodes
  /\ outdated \in SUBSET DOMAIN nodes
  /\ attacked \in BOOLEAN
  /\ resetPc \in {"idle", "nodes", "detector"}
  /\ detPc \in {"idle", "judge"}
  /\ sample \in {"current", "reset"}
  /\ samples \in [{"current", "reset"} -> 0 .. 2]

NoSamples == [r \in {"current", "reset"} |-> 0]

UpToTwo(n) == IF n < 2 THEN n ELSE 2

Init ==
  /\ CorrInit
  /\ global = {}
  /\ pc = [n \in Nodes |-> "idle"]
  /\ report = [n \in Nodes |-> "calm"]
  /\ slow = {} /\ before = {} /\ outdated = {} /\ attacked = FALSE
  /\ resetPc = "idle"
  /\ detPc = "idle" /\ sample = "current" /\ samples = NoSamples

------------------------------------------------------------------------------
(* MergeSketch and handleHTTPMerge *)

\* A request arrives and its sketch is decoded.
Receive(n, state) ==
  /\ ~crashed
  /\ pc[n] = "idle"
  /\ pc' = [pc EXCEPT ![n] = "merge"]
  /\ report' = [report EXCEPT ![n] = state]
  /\ UNCHANGED <<corrVars, global, slow, before, origin, resetPc, detection>>

MergeGlobal(n) ==
  /\ ~crashed
  /\ pc[n] = "merge"
  /\ global' = global \cup {n}
  /\ pc' = [pc EXCEPT ![n] = "record"]
  /\ UNCHANGED <<corrVars, report, slow, before, origin, resetPc, detection>>

\* A request without a node id is merged and not recorded.
MergeUnnamed(n) ==
  /\ ~crashed
  /\ pc[n] = "merge"
  /\ global' = global \cup {n}
  /\ pc' = [pc EXCEPT ![n] = "idle"]
  /\ report' = [report EXCEPT ![n] = "calm"]
  /\ slow' = slow \ {n}
  /\ before' = before \ {n}
  /\ UNCHANGED <<corrVars, origin, resetPc, detection>>

Record(n) ==
  /\ pc[n] = "record"
  /\ RecordNode(n, report[n])
  /\ pc' = [pc EXCEPT ![n] = "idle"]
  /\ report' = [report EXCEPT ![n] = "calm"]
  /\ slow' = slow \ {n}
  /\ before' = before \ {n}
  /\ outdated' = IF n \in before THEN outdated \cup {n} ELSE outdated \ {n}
  /\ attacked' = (attacked \/ (n \notin before /\ report[n] = "attack"))
  /\ UNCHANGED <<global, resetPc, detection>>

------------------------------------------------------------------------------
(* Resets *)

\* The gRPC Reset.
RpcReset ==
  /\ ~crashed
  /\ global' = {}
  /\ UNCHANGED <<corrVars, requests, origin, resetPc, detection>>

\* handleHTTPReset, first section: from here on everything earlier is outdated.
ResetGlobal ==
  /\ HttpResets
  /\ ~crashed
  /\ resetPc = "idle"
  /\ global' = {}
  /\ before' = {n \in Nodes : pc[n] # "idle"}
  /\ outdated' = DOMAIN nodes
  /\ sample' = IF detPc = "judge" THEN "reset" ELSE "current"
  /\ samples' = [current |-> 0, reset |-> UpToTwo(samples.current + samples.reset)]
  /\ resetPc' = "nodes"
  /\ UNCHANGED <<corrVars, pc, report, slow, attacked, detPc>>

\* Mutant of ResetNodes: only the table is renewed.
ResetNodesTableOnly ==
  /\ ~crashed
  /\ resetPc = "nodes"
  /\ nodes' = NoNodes
  /\ sameMap' = FALSE
  /\ outdated' = {} /\ attacked' = FALSE
  /\ resetPc' = "detector"
  /\ UNCHANGED <<nsg, defense, grace, due, corrPc, gauge, crashed, faults>>
  /\ UNCHANGED <<global, requests, detection>>

\* handleHTTPReset, second section.
ResetNodes ==
  /\ resetPc = "nodes"
  /\ ClearNodes
  /\ outdated' = {} /\ attacked' = FALSE
  /\ resetPc' = "detector"
  /\ UNCHANGED <<global, requests, detection>>

\* Mutant of ResetDetector: the history is kept.
ResetDetectorKeeps ==
  /\ ~crashed
  /\ resetPc = "detector"
  /\ resetPc' = "idle"
  /\ UNCHANGED <<corrVars, global, requests, origin, detection>>

\* ZScoreDetector.Reset.
ResetDetector ==
  /\ ~crashed
  /\ resetPc = "detector"
  /\ samples' = NoSamples
  /\ resetPc' = "idle"
  /\ UNCHANGED <<corrVars, global, requests, origin, detPc, sample>>

------------------------------------------------------------------------------
(* detectionLoop *)

\* The count is taken and the sketch emptied in one section ...
DetCount ==
  /\ ~crashed
  /\ detPc = "idle"
  /\ global' = {}
  /\ detPc' = "judge"
  /\ sample' = "current"
  /\ UNCHANGED <<corrVars, requests, origin, resetPc, samples>>

\* ... and IsAttack appends it to the history of the detector.
DetJudge ==
  /\ ~crashed
  /\ detPc = "judge"
  /\ samples' = [samples EXCEPT ![sample] = UpToTwo(@ + 1)]
  /\ sample' = "current"
  /\ detPc' = "idle"
  /\ UNCHANGED <<corrVars, global, requests, origin, resetPc>>

------------------------------------------------------------------------------
\* A window passes; a request lasts less than two.
WindowPasses ==
  /\ \A n \in slow : pc[n] = "idle"
  /\ Elapse
  /\ slow' = {n \in Nodes : pc[n] # "idle"}
  /\ UNCHANGED <<global, pc, report, before, origin, resetPc, detection>>

CorrelationStep ==
  /\ CorrelationLoop
  /\ outdated' = outdated \cap DOMAIN nodes'
  /\ UNCHANGED <<global, requests, attacked, resetPc, detection>>

\* Requests in progress die with the process.
RestartServer ==
  /\ Restart
  /\ global' = {}
  /\ pc' = [n \in Nodes |-> "idle"]
  /\ report' = [n \in Nodes |-> "calm"]
  /\ slow' = {} /\ before' = {} /\ outdated' = {} /\ attacked' = FALSE
  /\ resetPc' = "idle"
  /\ detPc' = "idle" /\ sample' = "current" /\ samples' = NoSamples

Next ==
  \/ \E n \in Nodes, state \in Reports : Receive(n, state)
  \/ \E n \in Nodes : MergeGlobal(n) \/ MergeUnnamed(n) \/ Record(n)
  \/ RpcReset
  \/ ResetGlobal \/ ResetNodes \/ ResetDetector
  \/ DetCount \/ DetJudge
  \/ WindowPasses
  \/ CorrelationStep
  \/ RestartServer

Spec == Init /\ [][Next]_aggVars

------------------------------------------------------------------------------
(* Properties *)

\* Defense is active only if some node reported an attack in a merge that began
\* after the last reset, although a merge that was under way enters an older
\* report into the new table: the grace period outlasts that entry.
NoOutdatedDefense == resetPc # "nodes" /\ defense => attacked

\* Once a reset is over the detector's history has at most one count from
\* before it: the one the detection loop had taken and not yet judged.
OneOldSample == resetPc = "idle" => samples["reset"] <= 1

\* With handlers, resets and the detection loop around it, the correlation
\* still behaves as specified.
ImplementsCorrelation == CorrSpec
==============================================================================
