--------------------------- MODULE AggregatorProofs ---------------------------
(***************************************************************************)
(* Theorems of Correlation for every set of nodes, every stale timeout and *)
(* grace period, and whatever a call of the Azure API comes to; and of     *)
(* Aggregator: it implements Correlation, and a grace period that outlasts *)
(* the stale timeout by two windows keeps reports from before a reset out  *)
(* of the decision.                                                        *)
(***************************************************************************)
EXTENDS Aggregator, FiniteSetTheorems, TLAPS

USE CorrelationAssumption, FirewallAssumption

\* The numbers apart from the flags.
TableTyped ==
  /\ DOMAIN nodes \subseteq Nodes
  /\ \A n \in DOMAIN nodes : nodes[n] \in Entry
  /\ grace \in 0 .. Grace

FlagsTyped ==
  /\ NsgTypeOK
  /\ defense \in BOOLEAN
  /\ due \in BOOLEAN
  /\ corrPc \in {"idle", "lockdown", "unlock", "scores", "types"}
  /\ sameMap \in BOOLEAN
  /\ gauge \in BOOLEAN
  /\ crashed \in BOOLEAN
  /\ faults \subseteq {"failed", "lost", "reset", "restart"}

LEMMA SplitTypes == CorrTypeOK <=> TableTyped /\ FlagsTyped
BY DEF CorrTypeOK, TableTyped, FlagsTyped

LEMMA SplitTypesNext == CorrTypeOK' <=> TableTyped' /\ FlagsTyped'
BY DEF CorrTypeOK, TableTyped, FlagsTyped

\* What the controller and the loop know of the rule.  A call that waits to be
\* made is for a change of the rule, which is as it was before the decision.
Pending ==
  NsgEnabled /\ faults = {} =>
    /\ locked <=> rule
    /\ corrPc = "lockdown" => defense /\ ~rule
    /\ corrPc = "unlock" => ~defense /\ rule
    /\ Settled => (rule <=> defense)

IInv == CorrTypeOK /\ GraceHonoured /\ ControllerKnows /\ Pending

------------------------------------------------------------------------------
LEMMA TableStep ==
  ASSUME TableTyped, [CorrNext]_corrVars
  PROVE  TableTyped'
<1> USE DEF TableTyped, Entry, Ages, Reports
<1>1. CASE Elapse
  <2>1. ASSUME NEW n \in DOMAIN nodes'
        PROVE  nodes'[n] \in Entry
    BY <1>1 DEF Elapse, Older
  <2>2. DOMAIN nodes' \subseteq Nodes /\ grace' \in 0 .. Grace
    BY <1>1 DEF Elapse
  <2>3. QED
    BY <2>1, <2>2
<1>2. CASE Correlate
  BY <1>2 DEF Correlate, Listed
<1>3. CASE (\E outcome \in ApiOutcomes : CallFirewall(outcome)) \/ WalkScores \/ WalkTypes
  BY <1>3 DEF CallFirewall, WalkScores, WalkTypes, decision
<1>4. ASSUME NEW n \in Nodes, NEW r \in Reports, RecordNode(n, r)
      PROVE  TableTyped'
  BY <1>4 DEF RecordNode
<1>5. CASE ClearNodes
  BY <1>5 DEF ClearNodes, NoNodes
<1>6. CASE Restart
  BY <1>6 DEF Restart, NoNodes
<1>7. CASE UNCHANGED corrVars
  BY <1>7 DEF corrVars, decision
<1>8. QED
  BY <1>1, <1>2, <1>3, <1>4, <1>5, <1>6, <1>7 DEF CorrNext, CorrelationLoop

\* The flags, and what is known of the rule: every step in turn.
LEMMA FlagsStep ==
  ASSUME FlagsTyped, ControllerKnows, Pending, [CorrNext]_corrVars
  PROVE  FlagsTyped' /\ ControllerKnows' /\ Pending'
<1> USE DEF FlagsTyped, NsgTypeOK, nsg, ControllerKnows, Pending, Settled
<1>1. CASE Elapse
  BY <1>1, Zenon DEF Elapse
<1>2. CASE Correlate
  BY <1>2 DEF Correlate
<1>3. ASSUME NEW outcome \in ApiOutcomes, CallFirewall(outcome)
      PROVE  FlagsTyped' /\ ControllerKnows' /\ Pending'
  <2>1. CASE corrPc = "lockdown"
    BY <1>3, <2>1 DEF CallFirewall, Lockdown, FaultOf, decision
  <2>2. CASE corrPc = "unlock"
    BY <1>3, <2>2 DEF CallFirewall, Unlock, FaultOf, decision
  <2>3. QED
    BY <1>3, <2>1, <2>2 DEF CallFirewall
<1>4. CASE WalkScores \/ WalkTypes
  <2>1. /\ corrPc \in {"scores", "types"} /\ corrPc' \in {"types", "idle"}
        /\ sameMap' \in BOOLEAN
        /\ locked' = locked /\ rule' = rule /\ defense' = defense /\ faults' = faults
        /\ due' = due /\ gauge' = gauge /\ crashed' = crashed
    BY <1>4 DEF WalkScores, WalkTypes, decision
  <2>2. QED
    BY <2>1
<1>5. ASSUME NEW n \in Nodes, NEW r \in Reports, RecordNode(n, r)
      PROVE  FlagsTyped' /\ ControllerKnows' /\ Pending'
  BY <1>5 DEF RecordNode, Walking, loop
<1>6. CASE ClearNodes
  BY <1>6 DEF ClearNodes
<1>7. CASE Restart
  BY <1>7 DEF Restart, ForgetRule
<1>8. CASE UNCHANGED corrVars
  BY <1>8 DEF corrVars, decision, loop
<1>9. QED
  BY <1>1, <1>2, <1>3, <1>4, <1>5, <1>6, <1>7, <1>8 DEF CorrNext, CorrelationLoop

LEMMA GraceStep ==
  ASSUME CorrTypeOK, GraceHonoured, [CorrNext]_corrVars
  PROVE  GraceHonoured'
<1> USE DEF GraceHonoured
<1>1. CASE Elapse
  BY <1>1 DEF Elapse, CorrTypeOK
<1>2. CASE Correlate
  BY <1>2 DEF Correlate, CorrTypeOK
<1>3. CASE (\E outcome \in ApiOutcomes : CallFirewall(outcome)) \/ WalkScores \/ WalkTypes
  BY <1>3 DEF CallFirewall, WalkScores, WalkTypes, decision
<1>4. ASSUME NEW n \in Nodes, NEW r \in Reports, RecordNode(n, r)
      PROVE  GraceHonoured'
  BY <1>4 DEF RecordNode
<1>5. CASE ClearNodes \/ Restart
  BY <1>5 DEF ClearNodes, Restart
<1>6. CASE UNCHANGED corrVars
  BY <1>6 DEF corrVars, decision
<1>7. QED
  BY <1>1, <1>2, <1>3, <1>4, <1>5, <1>6 DEF CorrNext, CorrelationLoop

LEMMA InitIInv == CorrInit => IInv
<1> SUFFICES ASSUME CorrInit PROVE IInv
  OBVIOUS
<1>1. TableTyped
  BY DEF CorrInit, TableTyped, NoNodes
<1>2. FlagsTyped /\ ControllerKnows /\ Pending
  BY DEF CorrInit, NsgInit, FlagsTyped, NsgTypeOK, ControllerKnows, Pending, Settled
<1>3. GraceHonoured
  BY DEF CorrInit, GraceHonoured
<1>4. QED
  BY <1>1, <1>2, <1>3, SplitTypes DEF IInv

LEMMA NextIInv == IInv /\ [CorrNext]_corrVars => IInv'
<1> SUFFICES ASSUME IInv, [CorrNext]_corrVars PROVE IInv'
  OBVIOUS
<1>1. TableTyped /\ FlagsTyped
  BY SplitTypes DEF IInv
<1>2. TableTyped'
  BY <1>1, TableStep
<1>3. FlagsTyped' /\ ControllerKnows' /\ Pending'
  BY <1>1, FlagsStep DEF IInv
<1>4. GraceHonoured'
  BY GraceStep DEF IInv
<1>5. QED
  BY <1>2, <1>3, <1>4, SplitTypesNext DEF IInv

THEOREM Invariance == CorrSpec => []IInv
<1>1. CorrInit => IInv
  BY InitIInv
<1>2. IInv /\ [CorrNext]_corrVars => IInv'
  BY NextIInv
<1>3. QED
  BY <1>1, <1>2, PTL DEF CorrSpec

\* Every variable of the correlation keeps its type: runCorrelation and the
\* merges leave only known nodes with known reports in the table.
THEOREM CorrTypeCorrect == CorrSpec => []CorrTypeOK
<1>1. IInv => CorrTypeOK
  BY DEF IInv
<1>2. QED
  BY Invariance, <1>1, PTL

\* No defense is active in the grace period, however long it is.
THEOREM GraceIsHonoured == CorrSpec => []GraceHonoured
<1>1. IInv => GraceHonoured
  BY DEF IInv
<1>2. QED
  BY Invariance, <1>1, PTL

\* NSGController knows whether its rule is there, unless an answer was lost or
\* the process started again.
THEOREM RuleIsKnown == CorrSpec => []ControllerKnows
<1>1. IInv => ControllerKnows
  BY DEF IInv
<1>2. QED
  BY Invariance, <1>1, PTL

\* Without faults and resets the rule is there exactly while runCorrelation
\* holds the defense active.
THEOREM RuleIsRight == CorrSpec => []RuleFollowsDefense
<1>1. IInv => RuleFollowsDefense
  BY DEF IInv, Pending, RuleFollowsDefense
<1>2. QED
  BY Invariance, <1>1, PTL

------------------------------------------------------------------------------
(* Aggregator *)

InFlight == {n \in Nodes : pc[n] # "idle"}

\* Requests are tracked as long as they are in progress.
FlightInv ==
  /\ pc \in [Nodes -> {"idle", "merge", "record"}]
  /\ report \in [Nodes -> Reports]
  /\ before \subseteq InFlight
  /\ slow \subseteq InFlight
  /\ outdated \subseteq DOMAIN nodes
  /\ resetPc \in {"idle", "nodes", "detector"}
  /\ resetPc # "idle" => HttpResets

------------------------------------------------------------------------------
(* Refinement *)

LEMMA StepCorr ==
  ASSUME FlightInv, [Next]_aggVars
  PROVE  [CorrNext]_corrVars
<1>1. CASE RpcReset \/ ResetGlobal \/ ResetDetector \/ DetCount \/ DetJudge
  BY <1>1 DEF RpcReset, ResetGlobal, ResetDetector, DetCount, DetJudge
<1>2. CASE \E n \in Nodes, state \in Reports : Receive(n, state)
  BY <1>2 DEF Receive
<1>3. CASE \E n \in Nodes : MergeGlobal(n) \/ MergeUnnamed(n)
  BY <1>3 DEF MergeGlobal, MergeUnnamed
<1>4. ASSUME NEW n \in Nodes, Record(n)
      PROVE  CorrNext
  <2>1. report[n] \in Reports
    BY DEF FlightInv
  <2>2. RecordNode(n, report[n])
    BY <1>4 DEF Record
  <2>3. QED
    BY <2>1, <2>2, Zenon DEF CorrNext
<1>5. CASE ResetNodes
  <2>1. HttpResets /\ ClearNodes
    BY <1>5, Zenon DEF ResetNodes, FlightInv
  <2>2. QED
    BY <2>1, Zenon DEF CorrNext
<1>6. CASE WindowPasses
  BY <1>6, Zenon DEF WindowPasses, CorrNext
<1>7. CASE CorrelationStep
  BY <1>7, Zenon DEF CorrelationStep, CorrNext
<1>8. CASE RestartServer
  BY <1>8, Zenon DEF RestartServer, CorrNext
<1>9. CASE UNCHANGED aggVars
  BY <1>9 DEF aggVars
<1>10. QED
  BY <1>1, <1>2, <1>3, <1>4, <1>5, <1>6, <1>7, <1>8, <1>9, Zenon DEF Next

LEMMA FlightStep ==
  ASSUME FlightInv, [Next]_aggVars
  PROVE  FlightInv'
<1> USE DEF FlightInv, InFlight
<1>1. ASSUME NEW n \in Nodes, NEW state \in Reports, Receive(n, state)
      PROVE  FlightInv'
  BY <1>1 DEF Receive, origin, corrVars, decision
<1>2. ASSUME NEW n \in Nodes, MergeGlobal(n)
      PROVE  FlightInv'
  BY <1>2 DEF MergeGlobal, origin, corrVars, decision
<1>3. ASSUME NEW n \in Nodes, Record(n)
      PROVE  FlightInv'
  <2>1. DOMAIN nodes' = DOMAIN nodes \cup {n}
    BY <1>3 DEF Record, RecordNode
  <2>2. outdated' \subseteq outdated \cup {n}
    BY <1>3, Zenon DEF Record
  <2>3. /\ pc' = [pc EXCEPT ![n] = "idle"] /\ report' = [report EXCEPT ![n] = "calm"]
        /\ slow' = slow \ {n} /\ before' = before \ {n} /\ resetPc' = resetPc
    BY <1>3 DEF Record
  <2>4. QED
    BY <2>1, <2>2, <2>3 DEF Reports
<1>4. CASE RpcReset \/ ResetDetector \/ DetCount \/ DetJudge
  BY <1>4 DEF RpcReset, ResetDetector, DetCount, DetJudge, requests, origin, corrVars, decision
<1>5. CASE ResetGlobal
  BY <1>5 DEF ResetGlobal, corrVars, decision
<1>6. CASE ResetNodes
  <2>1. DOMAIN nodes' = {} /\ outdated' = {}
    BY <1>6 DEF ResetNodes, ClearNodes, NoNodes
  <2>2. UNCHANGED <<pc, report, slow, before>> /\ resetPc = "nodes" /\ resetPc' = "detector"
    BY <1>6 DEF ResetNodes, requests
  <2>3. QED
    BY <2>1, <2>2
<1>7. CASE WindowPasses
  <2>1. DOMAIN nodes' = DOMAIN nodes /\ outdated' = outdated
    BY <1>7 DEF WindowPasses, Elapse, origin
  <2>2. slow' = InFlight /\ UNCHANGED <<pc, report, before, resetPc>>
    BY <1>7 DEF WindowPasses
  <2>3. QED
    BY <2>1, <2>2
<1>8. CASE CorrelationStep
  BY <1>8 DEF CorrelationStep, requests
<1>9. CASE RestartServer
  <2>1. outdated' = {} /\ before' = {} /\ slow' = {} /\ resetPc' = "idle"
    BY <1>9 DEF RestartServer
  <2>2. pc' = [n \in Nodes |-> "idle"] /\ report' = [n \in Nodes |-> "calm"]
    BY <1>9 DEF RestartServer
  <2>3. QED
    BY <2>1, <2>2 DEF Reports
<1>10. CASE UNCHANGED aggVars
  BY <1>10 DEF aggVars, requests, origin, corrVars, decision
<1>11. ASSUME NEW n \in Nodes, MergeUnnamed(n)
       PROVE  FlightInv'
  <2>1. /\ pc' = [pc EXCEPT ![n] = "idle"] /\ report' = [report EXCEPT ![n] = "calm"]
        /\ slow' = slow \ {n} /\ before' = before \ {n}
        /\ UNCHANGED <<nodes, outdated, resetPc>>
    BY <1>11 DEF MergeUnnamed, origin, corrVars, decision
  <2>2. QED
    BY <2>1 DEF Reports
<1>12. QED
  BY <1>1, <1>2, <1>3, <1>4, <1>5, <1>6, <1>7, <1>8, <1>9, <1>10, <1>11 DEF Next

LEMMA InitFlight == Init => FlightInv
BY DEF Init, CorrInit, NoNodes, FlightInv, InFlight, Reports

THEOREM FlightInvariance == Spec => []FlightInv
<1>1. Init => FlightInv
  BY InitFlight
<1>2. FlightInv /\ [Next]_aggVars => FlightInv'
  BY FlightStep
<1>3. QED
  BY <1>1, <1>2, PTL DEF Spec

\* The request handlers, the resets and the detection loop of the server only
\* do to the table, the decision and the rule what Correlation says.
THEOREM Implements == Spec => ImplementsCorrelation
<1>1. Init => CorrInit
  BY DEF Init
<1>2. FlightInv /\ [Next]_aggVars => [CorrNext]_corrVars
  BY StepCorr
<1>3. QED
  BY <1>1, <1>2, FlightInvariance, PTL DEF Spec, CorrSpec, ImplementsCorrelation

------------------------------------------------------------------------------
(* Reports from before a reset *)

\* A merge from before the reset lasts less than two windows, so what it
\* enters is stale by the end of the grace period.
AgeInv ==
  resetPc # "nodes" =>
    /\ \A n \in before : grace >= Grace - 1 /\ (n \notin slow => grace >= Grace)
    /\ \A n \in outdated : nodes[n].age > StaleAfter \/ grace + nodes[n].age >= Grace - 1

\* The other attacks in the table were reported since.
AttackInv ==
  \A n \in DOMAIN nodes \ outdated : nodes[n].state = "attack" => attacked

LEMMA AgeStep ==
  ASSUME CorrTypeOK, FlightInv, AgeInv, [Next]_aggVars
  PROVE  AgeInv'
<1>. /\ grace \in 0 .. Grace /\ Grace \in Nat /\ StaleAfter \in Nat
     /\ \A n \in DOMAIN nodes : nodes[n].age \in Nat
     /\ DOMAIN nodes \subseteq Nodes
  <2>1. TableTyped
    BY SplitTypes
  <2>2. QED
    BY <2>1, CorrelationAssumption DEF TableTyped, Entry, Ages
<1> USE DEF AgeInv
<1>1. CASE \/ RpcReset \/ ResetDetector \/ DetCount \/ DetJudge
           \/ \E n \in Nodes, state \in Reports : Receive(n, state)
           \/ \E n \in Nodes : MergeGlobal(n)
           \/ UNCHANGED aggVars
  <2>1. UNCHANGED <<nodes, grace, before, slow, outdated>> /\ (resetPc' = "nodes" <=> resetPc = "nodes")
    BY <1>1 DEF RpcReset, ResetDetector, DetCount, DetJudge, Receive, MergeGlobal,
                requests, origin, corrVars, decision, aggVars
  <2>2. QED
    BY <2>1
<1>2. CASE ResetGlobal
  BY <1>2 DEF ResetGlobal
<1>3. ASSUME NEW n \in Nodes, Record(n)
      PROVE  AgeInv'
  <2>1. /\ nodes' = [m \in DOMAIN nodes \cup {n} |->
                       IF m = n THEN [state |-> report[n], age |-> 0] ELSE nodes[m]]
        /\ grace' = grace /\ resetPc' = resetPc
        /\ before' = before \ {n} /\ slow' = slow \ {n}
    BY <1>3 DEF Record, RecordNode
  <2>2. outdated' = IF n \in before THEN outdated \cup {n} ELSE outdated \ {n}
    BY <1>3 DEF Record
  <2>3. SUFFICES ASSUME resetPc # "nodes"
                 PROVE  /\ \A m \in before' : grace' >= Grace - 1 /\ (m \notin slow' => grace' >= Grace)
                        /\ \A m \in outdated' : nodes'[m].age > StaleAfter \/ grace' + nodes'[m].age >= Grace - 1
    BY <2>1
  <2>4. \A m \in before' : grace' >= Grace - 1 /\ (m \notin slow' => grace' >= Grace)
    BY <2>1, <2>3
  <2>5. ASSUME NEW m \in outdated', m # n
        PROVE  nodes'[m].age > StaleAfter \/ grace' + nodes'[m].age >= Grace - 1
    <3>1. m \in outdated /\ m \in DOMAIN nodes
      BY <2>2, <2>5 DEF FlightInv
    <3>2. nodes'[m] = nodes[m]
      BY <2>1, <2>5, <3>1
    <3>3. QED
      BY <2>1, <2>3, <3>1, <3>2
  <2>6. ASSUME n \in outdated'
        PROVE  grace' + nodes'[n].age >= Grace - 1
    <3>1. n \in before
      BY <2>2, <2>6
    <3>2. nodes'[n].age = 0
      BY <2>1
    <3>3. QED
      BY <2>1, <2>3, <3>1, <3>2
  <2>7. QED
    BY <2>4, <2>5, <2>6
<1>4. CASE ResetNodes
  <2>1. grace' = Grace /\ outdated' = {}
    BY <1>4 DEF ResetNodes, ClearNodes
  <2>2. QED
    BY <2>1
<1>5. CASE WindowPasses
  <2>1. /\ nodes' = [n \in DOMAIN nodes |-> [state |-> nodes[n].state, age |-> Older(nodes[n].age)]]
        /\ grace' = IF grace > 0 THEN grace - 1 ELSE 0
        /\ UNCHANGED <<before, outdated, resetPc>> /\ slow' = InFlight
        /\ \A n \in slow : pc[n] = "idle"
    BY <1>5 DEF WindowPasses, Elapse, origin, InFlight
  <2>2. SUFFICES ASSUME resetPc # "nodes"
                 PROVE  /\ \A n \in before : grace' >= Grace - 1 /\ n \in slow'
                        /\ \A n \in outdated : nodes'[n].age > StaleAfter \/ grace' + nodes'[n].age >= Grace - 1
    BY <2>1
  <2>3. ASSUME NEW n \in before
        PROVE  grace' >= Grace - 1 /\ n \in slow'
    <3>1. n \in InFlight /\ n \notin slow
      BY <2>1 DEF FlightInv, InFlight
    <3>2. QED
      BY <2>1, <2>2, <3>1
  <2>4. ASSUME NEW n \in outdated
        PROVE  nodes'[n].age > StaleAfter \/ grace' + nodes'[n].age >= Grace - 1
    <3>1. n \in DOMAIN nodes
      BY DEF FlightInv
    <3>2. nodes'[n].age = Older(nodes[n].age)
      BY <2>1, <3>1
    <3>3. QED
      BY <2>1, <2>2, <3>1, <3>2 DEF Older
  <2>5. QED
    BY <2>3, <2>4
<1>6. CASE CorrelationStep
  <2>1. /\ UNCHANGED <<before, slow, resetPc>> /\ outdated' = outdated \cap DOMAIN nodes'
        /\ grace' = grace
    BY <1>6 DEF CorrelationStep, CorrelationLoop, Correlate, CallFirewall, WalkScores, WalkTypes,
                decision, requests
  <2>2. \A n \in DOMAIN nodes' : nodes'[n] = nodes[n]
    BY <1>6 DEF CorrelationStep, CorrelationLoop, Correlate, CallFirewall, WalkScores, WalkTypes,
                decision, Listed
  <2>3. QED
    BY <2>1, <2>2
<1>7. CASE RestartServer
  BY <1>7 DEF RestartServer
<1>8. CASE \E n \in Nodes : MergeUnnamed(n)
  <2>1. PICK n \in Nodes : MergeUnnamed(n)
    BY <1>8
  <2>2. /\ UNCHANGED <<nodes, grace, outdated, resetPc>>
        /\ before' = before \ {n} /\ slow' = slow \ {n}
    BY <2>1 DEF MergeUnnamed, origin, corrVars, decision
  <2>3. QED
    BY <2>2
<1>9. QED
  BY <1>1, <1>2, <1>3, <1>4, <1>5, <1>6, <1>7, <1>8 DEF Next

LEMMA AttackStep ==
  ASSUME CorrTypeOK, FlightInv, AttackInv, [Next]_aggVars
  PROVE  AttackInv'
<1> USE DEF AttackInv
<1>1. CASE \/ RpcReset \/ ResetDetector \/ DetCount \/ DetJudge
           \/ \E n \in Nodes, state \in Reports : Receive(n, state)
           \/ \E n \in Nodes : MergeGlobal(n) \/ MergeUnnamed(n)
           \/ UNCHANGED aggVars
  <2>1. UNCHANGED <<nodes, outdated, attacked>>
    BY <1>1 DEF RpcReset, ResetDetector, DetCount, DetJudge, Receive, MergeGlobal,
                MergeUnnamed, origin, corrVars, decision, aggVars
  <2>2. QED
    BY <2>1
<1>2. CASE ResetGlobal
  BY <1>2 DEF ResetGlobal, corrVars, decision
<1>3. ASSUME NEW n \in Nodes, Record(n)
      PROVE  AttackInv'
  <2>1. /\ nodes' = [m \in DOMAIN nodes \cup {n} |->
                       IF m = n THEN [state |-> report[n], age |-> 0] ELSE nodes[m]]
        /\ attacked' = (attacked \/ (n \notin before /\ report[n] = "attack"))
        /\ outdated' = IF n \in before THEN outdated \cup {n} ELSE outdated \ {n}
    BY <1>3 DEF Record, RecordNode
  <2>2. SUFFICES ASSUME NEW m \in DOMAIN nodes' \ outdated', nodes'[m].state = "attack"
                 PROVE  attacked'
    OBVIOUS
  <2>3. CASE m = n
    <3>1. n \notin before /\ report[n] = "attack"
      BY <2>1, <2>2, <2>3
    <3>2. QED
      BY <2>1, <3>1, Zenon
  <2>4. CASE m # n
    <3>1. m \in DOMAIN nodes \ outdated /\ nodes[m].state = "attack"
      BY <2>1, <2>2, <2>4
    <3>2. attacked
      BY <3>1, Zenon
    <3>3. QED
      BY <2>1, <3>2, Zenon
  <2>5. QED
    BY <2>3, <2>4
<1>4. CASE ResetNodes \/ RestartServer
  <2>1. DOMAIN nodes' = {}
    BY <1>4 DEF ResetNodes, ClearNodes, RestartServer, Restart, NoNodes
  <2>2. QED
    BY <2>1
<1>5. CASE WindowPasses
  <2>1. /\ nodes' = [n \in DOMAIN nodes |-> [state |-> nodes[n].state, age |-> Older(nodes[n].age)]]
        /\ UNCHANGED <<outdated, attacked>>
    BY <1>5 DEF WindowPasses, Elapse, origin
  <2>2. QED
    BY <2>1
<1>6. CASE CorrelationStep
  <2>1. outdated' = outdated \cap DOMAIN nodes' /\ attacked' = attacked
    BY <1>6 DEF CorrelationStep
  <2>2. \A n \in DOMAIN nodes' : n \in DOMAIN nodes /\ nodes'[n] = nodes[n]
    BY <1>6 DEF CorrelationStep, CorrelationLoop, Correlate, CallFirewall, WalkScores, WalkTypes,
                decision, Listed
  <2>3. QED
    BY <2>1, <2>2
<1>7. QED
  BY <1>1, <1>2, <1>3, <1>4, <1>5, <1>6 DEF Next

\* At least half of something is not nothing.
LEMMA SomeAttacker ==
  ASSUME DOMAIN nodes \subseteq Nodes, MajorityAttacked
  PROVE  Attackers # {}
<1>1. IsFiniteSet(Listed) /\ Listed # {}
  BY FS_Subset, CorrelationAssumption DEF Listed, MajorityAttacked
<1>2. Cardinality(Listed) \in Nat /\ Cardinality(Listed) # 0
  BY <1>1, FS_CardinalityType, FS_EmptySet
<1>3. Cardinality({}) = 0
  BY FS_EmptySet
<1>4. ASSUME Attackers = {}
      PROVE  FALSE
  <2>1. 2 * Cardinality(Attackers) >= Cardinality(Listed)
    BY DEF MajorityAttacked
  <2>2. Cardinality(Attackers) = 0
    BY <1>3, <1>4
  <2>3. QED
    BY <1>2, <2>1, <2>2
<1>5. QED
  BY <1>4

\* A decision taken out of the grace period counts no outdated entry.
LEMMA DecisionIsRecent ==
  ASSUME CorrTypeOK, FlightInv, AgeInv, AttackInv, Grace >= StaleAfter + 2,
         resetPc # "nodes", grace = 0, MajorityAttacked
  PROVE  attacked
<1>1. /\ DOMAIN nodes \subseteq Nodes
      /\ \A n \in DOMAIN nodes : nodes[n].age \in Nat
      /\ Grace \in Nat /\ StaleAfter \in Nat
  <2>1. TableTyped
    BY SplitTypes
  <2>2. QED
    BY <2>1, CorrelationAssumption DEF TableTyped, Entry, Ages
<1>2. PICK n \in Attackers : TRUE
  BY <1>1, SomeAttacker
<1>3. n \in DOMAIN nodes /\ nodes[n].age <= StaleAfter /\ nodes[n].state = "attack"
  BY <1>2 DEF Attackers, Listed
<1>4. n \notin outdated
  BY <1>1, <1>3 DEF AgeInv
<1>5. QED
  BY <1>3, <1>4 DEF AttackInv

LEMMA DefenseStep ==
  ASSUME CorrTypeOK, FlightInv, AgeInv, AttackInv, NoOutdatedDefense,
         Grace >= StaleAfter + 2, [Next]_aggVars
  PROVE  NoOutdatedDefense'
<1> USE DEF NoOutdatedDefense
<1>1. CASE \/ RpcReset \/ ResetDetector \/ DetCount \/ DetJudge \/ WindowPasses
           \/ \E n \in Nodes, state \in Reports : Receive(n, state)
           \/ \E n \in Nodes : MergeGlobal(n) \/ MergeUnnamed(n)
           \/ UNCHANGED aggVars
  <2>1. UNCHANGED <<defense, attacked>> /\ (resetPc' = "nodes" <=> resetPc = "nodes")
    BY <1>1 DEF RpcReset, ResetDetector, DetCount, DetJudge, Receive, MergeGlobal, MergeUnnamed, WindowPasses,
                Elapse, origin, corrVars, decision, aggVars
  <2>2. QED
    BY <2>1
<1>2. CASE ResetGlobal
  BY <1>2 DEF ResetGlobal
<1>3. ASSUME NEW n \in Nodes, Record(n)
      PROVE  NoOutdatedDefense'
  <2>1. /\ defense' = defense /\ resetPc' = resetPc
        /\ attacked' = (attacked \/ (n \notin before /\ report[n] = "attack"))
    BY <1>3 DEF Record, RecordNode
  <2>2. QED
    BY <2>1, Zenon
<1>4. CASE ResetNodes \/ RestartServer
  BY <1>4 DEF ResetNodes, ClearNodes, RestartServer, Restart
<1>5. CASE CorrelationStep
  <2>1. attacked' = attacked /\ resetPc' = resetPc
    BY <1>5 DEF CorrelationStep
  <2>2. CASE Correlate
    <3>1. defense' = (grace = 0 /\ MajorityAttacked)
      BY <2>2 DEF Correlate
    <3>2. CASE grace = 0 /\ MajorityAttacked
      BY <2>1, <3>2, DecisionIsRecent
    <3>3. QED
      BY <3>1, <3>2
  <2>3. CASE (\E outcome \in ApiOutcomes : CallFirewall(outcome)) \/ WalkScores \/ WalkTypes
    <3>1. defense' = defense
      BY <2>3 DEF CallFirewall, WalkScores, WalkTypes, decision
    <3>2. QED
      BY <2>1, <3>1
  <2>4. QED
    BY <1>5, <2>2, <2>3 DEF CorrelationStep, CorrelationLoop
<1>6. QED
  BY <1>1, <1>2, <1>3, <1>4, <1>5 DEF Next

LEMMA AggTypes == Spec => []CorrTypeOK
BY Implements, CorrTypeCorrect, PTL DEF ImplementsCorrelation

OriginInv == AgeInv /\ AttackInv /\ NoOutdatedDefense

\* Wherever a reset falls between the sections of merges and of runCorrelation,
\* a report from before it decides no defense after it, for every grace period
\* of at least two windows more than the stale timeout.
THEOREM NoOutdatedDecision ==
  ASSUME Grace >= StaleAfter + 2
  PROVE  Spec => []NoOutdatedDefense
<1>1. Init => OriginInv
  BY DEF Init, CorrInit, NoNodes, OriginInv, AgeInv, AttackInv, NoOutdatedDefense
<1>2. CorrTypeOK /\ FlightInv /\ OriginInv /\ [Next]_aggVars => OriginInv'
  BY AgeStep, AttackStep, DefenseStep DEF OriginInv
<1>3. OriginInv => NoOutdatedDefense
  BY DEF OriginInv
<1>4. QED
  BY <1>1, <1>2, <1>3, AggTypes, FlightInvariance, PTL DEF Spec

------------------------------------------------------------------------------
(* The detector's history *)

\* What the detection loop may still add to the old counts.
Unjudged == IF detPc = "judge" /\ sample = "reset" THEN 1 ELSE 0

SampleInv ==
  /\ detPc \in {"idle", "judge"}
  /\ sample \in {"current", "reset"}
  /\ samples \in [{"current", "reset"} -> 0 .. 2]
  /\ resetPc = "idle" => samples["reset"] + Unjudged <= 1

LEMMA SampleStep ==
  ASSUME FlightInv, SampleInv, [Next]_aggVars
  PROVE  SampleInv'
<1> USE DEF SampleInv, Unjudged, NoSamples, UpToTwo
<1>1. CASE \/ RpcReset \/ WindowPasses \/ CorrelationStep
           \/ \E n \in Nodes, state \in Reports : Receive(n, state)
           \/ \E n \in Nodes : MergeGlobal(n) \/ MergeUnnamed(n) \/ Record(n)
           \/ UNCHANGED aggVars
  <2>1. UNCHANGED <<detPc, sample, samples, resetPc>>
    BY <1>1 DEF RpcReset, WindowPasses, CorrelationStep, Receive, MergeGlobal, MergeUnnamed, Record,
                detection, aggVars
  <2>2. QED
    BY <2>1
<1>2. CASE ResetGlobal
  <2>1. /\ samples' = [current |-> 0, reset |-> UpToTwo(samples.current + samples.reset)]
        /\ resetPc' = "nodes" /\ sample' \in {"current", "reset"} /\ detPc' = detPc
    BY <1>2 DEF ResetGlobal
  <2>2. QED
    BY <2>1
<1>3. CASE ResetNodes
  <2>1. UNCHANGED <<detPc, sample, samples>> /\ resetPc' = "detector"
    BY <1>3 DEF ResetNodes, detection
  <2>2. QED
    BY <2>1
<1>4. CASE ResetDetector
  BY <1>4 DEF ResetDetector
<1>5. CASE DetCount
  BY <1>5 DEF DetCount
<1>6. CASE DetJudge
  BY <1>6 DEF DetJudge
<1>7. CASE RestartServer
  BY <1>7 DEF RestartServer
<1>8. QED
  BY <1>1, <1>2, <1>3, <1>4, <1>5, <1>6, <1>7 DEF Next

THEOREM SampleInvariance == Spec => []SampleInv
<1>1. Init => SampleInv
  BY DEF Init, SampleInv, Unjudged, NoSamples
<1>2. FlightInv /\ SampleInv /\ [Next]_aggVars => SampleInv'
  BY SampleStep
<1>3. QED
  BY <1>1, <1>2, FlightInvariance, PTL DEF Spec

\* The detection loop carries at most one count over an HTTP reset.
THEOREM AtMostOneOldSample == Spec => []OneOldSample
<1>1. SampleInv => OneOldSample
  BY DEF SampleInv, Unjudged, OneOldSample
<1>2. QED
  BY SampleInvariance, <1>1, PTL
==============================================================================
