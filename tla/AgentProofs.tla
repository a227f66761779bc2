------------------------------ MODULE AgentProofs ------------------------------
(***************************************************************************)
(* Theorems of AgentControl for every confirmation count and every kind of *)
(* detector, with and without an aggregator, and of Telemetry, which adds  *)
(* to it, for every size of the baseline and all signals.                  *)
(***************************************************************************)
EXTENDS Telemetry, TLAPS

USE AgentControlAssumption DEF AgentControlAssumption

\* The counters of the state machine never run ahead of the scores that were
\* really seen, and hold nothing in the states that do not use them.
CountersJustified ==
  /\ consecutiveAttack < AttackConfirm
  /\ consecutiveAttack <= attackRun
  /\ state = "RECOVERY" => /\ consecutiveAttack = 0
                           /\ consecutiveRecovery >= 1
                           /\ consecutiveRecovery < CleanNeeded
                           /\ consecutiveRecovery <= cleanRun

\* A request whose ShouldAllow is under way when mitigation goes off finds a
\* limiter that was just reset.
ResidueInv == ~active => residue <= 1 /\ (drainPc = "count" => residue = 0)

IInv == TypeOK /\ CountersJustified /\ ResidueInv

LEMMA CleanNeededBounds ==
  CleanNeeded \in Nat /\ CleanNeeded >= 2 /\ CleanNeeded >= RecoveryConfirm
BY DEF CleanNeeded

LEMMA CountUpToType ==
  ASSUME NEW cap \in Nat, NEW n \in 0 .. cap
  PROVE  /\ CountUpTo(n, cap) \in 0 .. cap
         /\ CountUpTo(n, cap) >= n
         /\ n < cap => CountUpTo(n, cap) = n + 1
BY DEF CountUpTo

LEMMA InitIInv == Init => IInv
<1> SUFFICES ASSUME Init PROVE IInv
  OBVIOUS
<1>1. TypeOK
  <2>1. active \in BOOLEAN /\ agent \in Agents
    BY DEF Init
  <2>2. attackRun \in 0 .. AttackConfirm
    BY DEF Init
  <2>3. consecutiveRecovery \in 0 .. CleanNeeded /\ cleanRun \in 0 .. CleanNeeded
    BY CleanNeededBounds DEF Init
  <2>4. residue \in 0 .. 2 /\ consecutiveAttack \in 0 .. AttackConfirm
    BY DEF Init
  <2>5. QED
    BY <2>1, <2>2, <2>3, <2>4 DEF Init, TypeOK, States
<1>2. CountersJustified
  BY DEF Init, CountersJustified
<1>3. ResidueInv
  BY DEF Init, ResidueInv
<1>4. QED
  BY <1>1, <1>2, <1>3 DEF IInv

\* What the state machine and its history have to satisfy, without the types
\* of the other variables.
MachineInv ==
  /\ state \in States
  /\ consecutiveAttack \in Nat
  /\ consecutiveRecovery \in 0 .. CleanNeeded
  /\ attackRun \in 0 .. AttackConfirm
  /\ cleanRun \in 0 .. CleanNeeded
  /\ CountersJustified

FlagsTyped == active \in BOOLEAN /\ agent \in Agents

OthersTyped ==
  /\ residue \in 0 .. 2
  /\ detPc \in {"idle", "transition", "force", "update"}
  /\ score \in {"clean", "anomalous"}
  /\ newState \in States
  /\ pollPc \in {"idle", "force", "update"}
  /\ drainPc \in {"idle", "count"}

LEMMA Split == IInv <=> MachineInv /\ FlagsTyped /\ OthersTyped /\ ResidueInv
BY DEF IInv, TypeOK, MachineInv, FlagsTyped, OthersTyped, CountersJustified

LEMMA SplitNext == IInv' <=> MachineInv' /\ FlagsTyped' /\ OthersTyped' /\ ResidueInv'
BY DEF IInv, TypeOK, MachineInv, FlagsTyped, OthersTyped, CountersJustified

\* One Transition with the history it leaves.
LEMMA TransitionMachine ==
  ASSUME MachineInv, score \in {"clean", "anomalous"}, Transition, ScoreSeen
  PROVE  /\ MachineInv'
         /\ state = "NORMAL" /\ state' = "UNDER_ATTACK" => attackRun' >= AttackConfirm
         /\ state # "NORMAL" /\ state' = "NORMAL" =>
              state = "RECOVERY" /\ cleanRun' >= CleanNeeded
<1> USE CleanNeededBounds DEF MachineInv, CountersJustified, States, Transition, machine
<1>1. /\ attackRun' \in 0 .. AttackConfirm
      /\ score = "clean" => attackRun' = 0
      /\ score = "anomalous" => /\ attackRun' >= attackRun
                                /\ attackRun < AttackConfirm => attackRun' = attackRun + 1
  BY CountUpToType DEF ScoreSeen
<1>2. /\ cleanRun' \in 0 .. CleanNeeded
      /\ score = "anomalous" => cleanRun' = 0
      /\ score = "clean" => /\ cleanRun' >= cleanRun
                            /\ cleanRun < CleanNeeded => cleanRun' = cleanRun + 1
  BY CountUpToType DEF ScoreSeen
<1>3. CASE state = "NORMAL"
  BY <1>1, <1>2, <1>3 DEF FromNormal
<1>4. CASE state = "UNDER_ATTACK"
  BY <1>1, <1>2, <1>4 DEF FromUnderAttack
<1>5. CASE state = "RECOVERY"
  <2>1. CASE score = "anomalous"
    BY <1>1, <1>2, <1>5, <2>1 DEF FromRecovery
  <2>2. CASE score = "clean" /\ consecutiveRecovery + 1 >= RecoveryConfirm
    BY <1>1, <1>2, <1>5, <2>2 DEF FromRecovery, CleanNeeded
  <2>3. CASE score = "clean" /\ ~(consecutiveRecovery + 1 >= RecoveryConfirm)
    BY <1>1, <1>2, <1>5, <2>3 DEF FromRecovery, CleanNeeded
  <2>4. QED
    BY <2>1, <2>2, <2>3
<1>6. QED
  BY <1>3, <1>4, <1>5

LEMMA TransitionIInv ==
  ASSUME IInv, DetTransition, UNCHANGED agent
  PROVE  /\ IInv'
         /\ state = "NORMAL" /\ state' = "UNDER_ATTACK" => attackRun' >= AttackConfirm
         /\ state # "NORMAL" /\ state' = "NORMAL" =>
              state = "RECOVERY" /\ cleanRun' >= CleanNeeded
<1>1. MachineInv /\ FlagsTyped /\ OthersTyped /\ ResidueInv
  BY Split
<1>2. /\ MachineInv'
      /\ state = "NORMAL" /\ state' = "UNDER_ATTACK" => attackRun' >= AttackConfirm
      /\ state # "NORMAL" /\ state' = "NORMAL" =>
           state = "RECOVERY" /\ cleanRun' >= CleanNeeded
  BY <1>1, TransitionMachine DEF OthersTyped, DetTransition
<1>3. FlagsTyped'
  BY <1>1 DEF FlagsTyped, DetTransition, ScoreSeen
<1>4. OthersTyped'
  <2>1. newState' \in States
    BY <1>2 DEF MachineInv, DetTransition
  <2>2. QED
    BY <1>1, <2>1 DEF OthersTyped, DetTransition
<1>5. ResidueInv'
  BY <1>1 DEF ResidueInv, DetTransition
<1>6. QED
  BY <1>2, <1>3, <1>4, <1>5, SplitNext

\* A command: the state is forced and every count starts again.
LEMMA CommandIInv ==
  ASSUME IInv, DetForce \/ PollForce, UNCHANGED agent
  PROVE  IInv' /\ state' = "UNDER_ATTACK"
<1> USE DEF DetForce, PollForce, ForceUnderAttack, CommandSeen
<1>1. MachineInv /\ FlagsTyped /\ OthersTyped /\ ResidueInv
  BY Split
<1>2. MachineInv' /\ state' = "UNDER_ATTACK"
  BY <1>1, CleanNeededBounds DEF MachineInv, CountersJustified, States
<1>3. FlagsTyped'
  BY <1>1 DEF FlagsTyped
<1>4. OthersTyped'
  BY <1>1 DEF OthersTyped, States
<1>5. ResidueInv'
  BY <1>1 DEF ResidueInv
<1>6. QED
  BY <1>2, <1>3, <1>4, <1>5, SplitNext

\* The steps that leave the state machine alone.
LEMMA OtherIInv ==
  ASSUME IInv,
         \/ \E s \in {"clean", "anomalous"} : DetScore(s)
         \/ DetUpdate \/ PollCheck \/ PollUpdate \/ Drain \/ UNCHANGED vars,
         UNCHANGED agent
  PROVE  IInv' /\ UNCHANGED state
<1> USE DEF Drain
<1>1. MachineInv /\ FlagsTyped /\ OthersTyped /\ ResidueInv
  BY Split
<1>2. UNCHANGED <<machine, attackRun, cleanRun>>
  BY DEF DetScore, DetUpdate, PollCheck, PollUpdate, DrainCheck, DrainCount, vars, history
<1>3. MachineInv' /\ UNCHANGED state
  BY <1>1, <1>2 DEF MachineInv, CountersJustified, machine, States
<1>4. FlagsTyped'
  BY <1>1 DEF FlagsTyped, DetScore, DetUpdate, UpdateState, PollCheck, PollUpdate,
              DrainCheck, DrainCount, vars, history
<1>5. residue' \in 0 .. 2 /\ drainPc' \in {"idle", "count"}
  BY <1>1 DEF OthersTyped, DetScore, DetUpdate, UpdateState, PollCheck, PollUpdate,
              DrainCheck, DrainCount, CountUpTo, vars
<1>6. OthersTyped'
  <2>1. /\ detPc' \in {"idle", "transition", "force", "update"}
        /\ score' \in {"clean", "anomalous"}
        /\ newState' \in States
        /\ pollPc' \in {"idle", "force", "update"}
    BY <1>1 DEF OthersTyped, DetScore, DetUpdate, PollCheck, PollUpdate,
                DrainCheck, DrainCount, vars
  <2>2. QED
    BY <1>1, <1>2, <1>5, <2>1 DEF OthersTyped
<1>7. ResidueInv'
  <2>1. ASSUME NEW s, UpdateState(s), UNCHANGED drainPc
        PROVE  ResidueInv'
    <3>1. CASE s = "NORMAL" /\ active
      BY <2>1, <3>1 DEF ResidueInv, UpdateState
    <3>2. CASE s = "NORMAL" /\ ~active
      <4>1. residue' = residue
        BY <2>1, <3>2 DEF UpdateState
      <4>2. QED
        BY <1>1, <2>1, <3>2, <4>1 DEF ResidueInv
    <3>3. CASE s # "NORMAL"
      BY <2>1, <3>3 DEF ResidueInv, UpdateState
    <3>4. QED
      BY <3>1, <3>2, <3>3
  <2>2. CASE DetUpdate \/ PollUpdate
    BY <2>1, <2>2 DEF DetUpdate, PollUpdate
  <2>3. CASE DrainCheck
    BY <1>1, <2>3 DEF ResidueInv, DrainCheck
  <2>4. CASE DrainCount
    BY <1>1, <2>4 DEF ResidueInv, DrainCount, CountUpTo, OthersTyped
  <2>5. CASE UNCHANGED <<active, residue, drainPc>>
    BY <1>1, <2>5 DEF ResidueInv
  <2>6. QED
    BY <2>2, <2>3, <2>4, <2>5 DEF DetScore, PollCheck, vars
<1>8. QED
  BY <1>3, <1>4, <1>6, <1>7, SplitNext

LEMMA NextCases ==
  ASSUME [Next]_vars
  PROVE  /\ UNCHANGED agent
         /\ \/ DetTransition
            \/ DetForce \/ PollForce
            \/ \/ \E s \in {"clean", "anomalous"} : DetScore(s)
               \/ DetUpdate \/ PollCheck \/ PollUpdate \/ Drain \/ UNCHANGED vars
BY DEF Next, Detector, Poller, PollerCommands, Drain, vars

LEMMA StepIInv == IInv /\ [Next]_vars => IInv'
BY NextCases, TransitionIInv, CommandIInv, OtherIInv

LEMMA Inductive == Spec => []IInv
<1>1. QED
  BY InitIInv, StepIInv, PTL DEF Spec

\* Every variable keeps its type, the counters of the state machine within
\* their confirmation counts included (statemachine.go 64-122).
THEOREM TypeCorrect == Spec => []TypeOK
<1>1. IInv => TypeOK
  BY DEF IInv
<1>2. QED
  BY <1>1, Inductive, PTL

\* While mitigation is off the limiter holds at most one request of an earlier
\* attack (controller.go 47-73).
THEOREM ResidueBounded == Spec => []ResidueBound
<1>1. IInv => ResidueBound
  BY DEF IInv, ResidueInv, ResidueBound
<1>2. QED
  BY <1>1, Inductive, PTL

\* UNDER_ATTACK is entered from NORMAL by Transition only on AttackConfirm
\* anomalous scores in a row (statemachine.go 71-81).
LEMMA AttackIsConfirmed ==
  ASSUME IInv, [Next]_vars, EntersAttack
  PROVE  attackRun' >= AttackConfirm
<1> USE DEF EntersAttack
<1>1. CASE DetTransition
  BY <1>1, TransitionIInv, NextCases DEF vars
<1>2. CASE DetForce
  BY <1>2 DEF DetForce
<1>3. CASE PollForce
  BY <1>3 DEF PollForce
<1>4. CASE \/ \E s \in {"clean", "anomalous"} : DetScore(s)
           \/ DetUpdate \/ PollCheck \/ PollUpdate \/ Drain \/ UNCHANGED vars
  BY <1>4, OtherIInv, NextCases DEF vars
<1>5. QED
  BY <1>1, <1>2, <1>3, <1>4, NextCases

\* NORMAL is entered only from RECOVERY and only on the clean scores in a row
\* that recovery takes, none of them older than the last command
\* (statemachine.go 90-102, 116-122).
LEMMA RecoveryIsConfirmed ==
  ASSUME IInv, [Next]_vars, state # "NORMAL", state' = "NORMAL"
  PROVE  state = "RECOVERY" /\ cleanRun' >= CleanNeeded
<1>1. UNCHANGED agent
  BY NextCases DEF vars
<1>2. CASE DetTransition
  BY <1>1, <1>2, TransitionIInv
<1>3. CASE DetForce \/ PollForce
  BY <1>1, <1>3, CommandIInv
<1>4. CASE \/ \E s \in {"clean", "anomalous"} : DetScore(s)
           \/ DetUpdate \/ PollCheck \/ PollUpdate \/ Drain \/ UNCHANGED vars
  BY <1>1, <1>4, OtherIInv
<1>5. QED
  BY <1>2, <1>3, <1>4, NextCases

\* For every confirmation count: the agent goes under attack on its own account,
\* and back to NORMAL, on confirmed scores in a row only, none of them older
\* than the last command.
THEOREM ChangesAreConfirmed == Spec => ConfirmedChanges
<1>1. IInv /\ [Next]_vars =>
        [/\ EntersAttack => attackRun' >= AttackConfirm
         /\ state # "NORMAL" /\ state' = "NORMAL" => state = "RECOVERY" /\ cleanRun' >= CleanNeeded]_vars
  BY AttackIsConfirmed, RecoveryIsConfirmed
<1>2. QED
  BY <1>1, Inductive, PTL DEF Spec, ConfirmedChanges

\* Without an aggregator the controller is told every change before the next.
FollowInv ==
  ~agent.polling =>
    /\ pollPc = "idle"
    /\ IF detPc = "update" THEN newState = state ELSE Agreement

\* With no aggregator configured the rate limiter is active exactly in
\* UNDER_ATTACK and RECOVERY whenever the detector goroutine is not between
\* Transition and UpdateState (main.go 134-157, controller.go 45-60).
THEOREM FollowsScores == Spec => []MitigationFollowsScores
<1> USE DEF FollowInv, Agreement
<1>1. Init => FollowInv
  BY DEF Init
<1>2. IInv /\ FollowInv /\ [Next]_vars => FollowInv'
  <2> SUFFICES ASSUME IInv, FollowInv, [Next]_vars, ~agent.polling, UNCHANGED agent
               PROVE  FollowInv'
    BY NextCases
  <2>1. ASSUME DetTransition \/ DetForce PROVE FollowInv'
    BY <2>1 DEF DetTransition, DetForce, ForceUnderAttack
  <2>2. ASSUME DetUpdate PROVE FollowInv'
    BY <2>2 DEF DetUpdate, UpdateState, machine
  <2>3. ASSUME PollForce \/ PollCheck \/ PollUpdate PROVE FollowInv'
    BY <2>3 DEF PollForce, PollCheck, PollUpdate
  <2>4. ASSUME \E s \in {"clean", "anomalous"} : DetScore(s) PROVE FollowInv'
    BY <2>4 DEF DetScore, machine
  <2>5. ASSUME Drain \/ UNCHANGED vars PROVE FollowInv'
    BY <2>5 DEF Drain, DrainCheck, DrainCount, vars, machine
  <2>6. QED
    BY <2>1, <2>2, <2>3, <2>4, <2>5, NextCases
<1>3. FollowInv => MitigationFollowsScores
  BY DEF MitigationFollowsScores, Settled
<1>4. QED
  BY <1>1, <1>2, <1>3, Inductive, PTL DEF Spec

------------------------------------------------------------------------------
(* Telemetry *)

\* Baseline, classification and shipping add nothing to the control loop.
THEOREM ImplementsAgentControl == TSpec => Spec
<1>1. TInit => Init
  BY DEF TInit
<1>2. [TNext]_tvars => [Next]_vars
  <2>1. TDetector => [Next]_vars
    BY DEF TDetector, TScore, TAct, TUpdate, Learn, Classify, Store, Next, Detector
  <2>2. Others => [Next]_vars
    BY DEF Others, Next
  <2>3. Ship \/ UNCHANGED tvars => UNCHANGED vars
    BY DEF Ship, ShipState, ShipClassification, ShipSend, tvars
  <2>4. QED
    BY <2>1, <2>2, <2>3 DEF TNext
<1>3. QED
  BY <1>1, <1>2, PTL DEF TSpec, Spec

LEMMA ControlInductive == TSpec => []IInv
BY ImplementsAgentControl, Inductive, PTL

------------------------------------------------------------------------------
(* The round: control loop first, then baseline and classification *)

RoundInv == telPc = "act" <=> detPc # "idle"

LEMMA RoundStep ==
  ASSUME RoundInv, [TNext]_tvars
  PROVE  RoundInv'
<1> USE DEF RoundInv, TelMove, round
<1>1. CASE \E s \in {"clean", "anomalous"} : TScore(s)
  BY <1>1 DEF TScore, DetScore
<1>2. CASE TAct
  BY <1>2 DEF TAct, DetTransition, DetForce
<1>3. CASE TUpdate
  BY <1>3 DEF TUpdate, DetUpdate
<1>4. CASE Learn \/ Classify \/ Store
  BY <1>4 DEF Learn, Classify, Store, vars
<1>5. CASE Others
  BY <1>5 DEF Others, Poller, PollerCommands, PollCheck, PollForce, PollUpdate, Drain, DrainCheck, DrainCount
<1>6. CASE Ship \/ UNCHANGED tvars
  BY <1>6 DEF Ship, ShipState, ShipClassification, ShipSend, tvars, vars
<1>7. QED
  BY <1>1, <1>2, <1>3, <1>4, <1>5, <1>6 DEF TNext, TDetector

\* Commands and packets change nothing of the round and never lead to NORMAL.
LEMMA OthersAlarm ==
  ASSUME Others
  PROVE  /\ UNCHANGED <<round, shipPc, report, alone, detPc, score>>
         /\ state' = "UNDER_ATTACK" \/ UNCHANGED <<state, consecutiveAttack>>
BY DEF Others, Poller, PollerCommands, PollCheck, PollForce, PollUpdate, ForceUnderAttack,
       Drain, DrainCheck, DrainCount, machine

------------------------------------------------------------------------------
(* The baseline *)

\* The score of this round has reached the state machine, not the baseline.
Unlearned == telPc = "learn" \/ (telPc = "act" /\ detPc = "update")

\* Every anomalous sample since the last clean one is still in the count
\* towards an attack, the one about to be learnt included.
LearnInv ==
  /\ learned \in Nat /\ learned < AttackConfirm
  /\ state = "NORMAL" /\ samples < MaxSamples =>
       IF Unlearned THEN score = "anomalous" => learned + 1 <= consecutiveAttack
                    ELSE learned <= consecutiveAttack

\* What Transition does to the count when NORMAL stays or comes back.
LEMMA TransitionCounts ==
  ASSUME IInv, DetTransition, state' = "NORMAL", score = "anomalous"
  PROVE  state = "NORMAL" /\ consecutiveAttack' = consecutiveAttack + 1
BY DEF IInv, TypeOK, States, DetTransition, Transition, FromNormal, FromUnderAttack, FromRecovery, machine

LEMMA LearnStep ==
  ASSUME IInv, RoundInv, LearnInv, [TNext]_tvars
  PROVE  LearnInv'
<1> USE DEF LearnInv, Unlearned, TelMove
<1>0. consecutiveAttack \in Nat /\ consecutiveAttack < AttackConfirm
  BY DEF IInv, TypeOK, CountersJustified
<1>1. CASE \E s \in {"clean", "anomalous"} : TScore(s)
  BY <1>1 DEF TScore, DetScore, machine
<1>2. CASE TAct
  <2>1. UNCHANGED <<telPc, samples, learned>> /\ telPc = "act" /\ score' = score /\ detPc' = "update"
    BY <1>2 DEF TAct, round, DetTransition, DetForce
  <2>2. CASE DetForce
    BY <2>1, <2>2 DEF DetForce, ForceUnderAttack
  <2>3. CASE DetTransition
    <3>1. detPc = "transition"
      BY <2>3 DEF DetTransition
    <3>2. QED
      BY <1>0, <2>1, <2>3, <3>1, TransitionCounts
  <2>4. QED
    BY <1>2, <2>2, <2>3 DEF TAct
<1>3. CASE TUpdate
  BY <1>3 DEF TUpdate, DetUpdate, machine, RoundInv
<1>4. CASE Learn
  <2>1. UNCHANGED <<state, consecutiveAttack, score>> /\ telPc = "learn" /\ telPc' = "classify"
    BY <1>4 DEF Learn, vars, machine
  <2>2. CASE state = "NORMAL" /\ samples < MaxSamples
    <3>1. CASE score = "clean"
      BY <1>0, <1>4, <2>1, <2>2, <3>1 DEF Learn
    <3>2. CASE score = "anomalous"
      <4>1. learned' = learned + 1 /\ learned + 1 <= consecutiveAttack
        BY <1>4, <2>1, <2>2, <3>2 DEF Learn, CountUpTo
      <4>2. QED
        BY <1>0, <2>1, <4>1
    <3>3. QED
      BY <3>1, <3>2 DEF IInv, TypeOK
  <2>3. CASE ~(state = "NORMAL" /\ samples < MaxSamples)
    BY <1>4, <2>1, <2>3 DEF Learn
  <2>4. QED
    BY <2>2, <2>3
<1>5. CASE Classify \/ Store
  BY <1>5 DEF Classify, Store, vars, machine
<1>6. CASE Others
  BY <1>6, OthersAlarm DEF round
<1>7. CASE Ship \/ UNCHANGED tvars
  BY <1>7 DEF Ship, ShipState, ShipClassification, ShipSend, tvars, vars, machine, round
<1>8. QED
  BY <1>1, <1>2, <1>3, <1>4, <1>5, <1>6, <1>7 DEF TNext, TDetector

\* For every confirmation count and size of the baseline, and however commands
\* fall between scores: between two clean samples the baseline takes fewer
\* anomalous ones than confirm an attack (main.go 158-169).
THEOREM BaselineIsCalm == TSpec => []LearnsFromCalm
<1>1. TInit => RoundInv /\ LearnInv
  BY DEF TInit, Init, RoundInv, LearnInv, Unlearned
<1>2. LearnInv => LearnsFromCalm
  BY DEF LearnInv, LearnsFromCalm
<1>3. QED
  BY <1>1, <1>2, RoundStep, LearnStep, ControlInductive, PTL DEF TSpec

------------------------------------------------------------------------------
(* Reports *)

Shaped(c) == c = [name |-> c.name, length |-> c.length, confidence |-> c.confidence]

Quiet(c) == c.name \in {"NONE", ""} /\ c.confidence = 0

\* The classification is whole between two rounds and takes the words of the
\* verdict in turn; in NORMAL it is quiet, or about to be.
StoreInv ==
  /\ Shaped(verdict) /\ Shaped(classification)
  /\ verdict.name = verdict.length
  /\ telPc \notin {"length", "confidence"} => classification.name = classification.length
  /\ telPc \in {"length", "confidence"} => classification.name = verdict.name
  /\ telPc = "confidence" => classification.length = verdict.length
  /\ state = "NORMAL" /\ telPc \in {"name", "length", "confidence"} => verdict = None
  /\ state = "NORMAL" /\ telPc = "idle" => Quiet(classification)

\* A request that is alone copies a classification that nobody changes.
CopyInv ==
  /\ report = [state |-> report.state, name |-> report.name,
               length |-> report.length, confidence |-> report.confidence]
  /\ alone =>
       /\ telPc = "idle"
       /\ shipPc \in {"length", "confidence", "send"} => report.name = classification.name
       /\ shipPc \in {"confidence", "send"} => report.length = classification.length
       /\ shipPc = "send" => report.confidence = classification.confidence
       /\ report.state = "NORMAL" => Quiet(classification)

LEMMA Verdicts ==
  /\ Shaped(None) /\ None.name = None.length /\ Quiet(None)
  /\ \A f : LET c == ClassifyAttack(f) IN Shaped(c) /\ c.name = c.length
<1> DEFINE Even(c) == Shaped(c) /\ c.name = c.length
<1>1. \A type, conf : Even(Classification(type, conf))
  BY DEF Classification, Shaped
<1>2. Even(None) /\ Quiet(None)
  BY <1>1 DEF None, Classification, Quiet
<1>3. ASSUME NEW f PROVE Even(ClassifyAttack(f))
  <2> HIDE DEF Even
  <2>1. \/ ClassifyAttack(f) = None
        \/ \E type, conf : ClassifyAttack(f) = Classification(type, conf)
    BY DEF ClassifyAttack
  <2>2. QED
    BY <1>1, <1>2, <2>1
<1>4. QED
  BY <1>2, <1>3

LEMMA StoreStep ==
  ASSUME RoundInv, StoreInv, [TNext]_tvars
  PROVE  StoreInv'
<1> USE DEF StoreInv, TelMove
<1>1. CASE \E s \in {"clean", "anomalous"} : TScore(s)
  BY <1>1 DEF TScore, DetScore
<1>2. CASE TAct
  BY <1>2 DEF TAct, round
<1>3. CASE TUpdate \/ Learn
  BY <1>3 DEF TUpdate, Learn
<1>4. CASE Classify
  <2>1. Shaped(verdict') /\ verdict'.name = verdict'.length /\ (state = "NORMAL" => verdict' = None)
    BY <1>4, Verdicts DEF Classify
  <2>2. QED
    BY <1>4, <2>1 DEF Classify, vars, machine
<1>5. CASE Store
  <2> USE Verdicts DEF Shaped, Quiet
  <2>0. UNCHANGED state
    BY <1>5 DEF Store, vars, machine
  <2>1. CASE TelMove("name", "length") /\ classification' = [classification EXCEPT !.name = verdict.name]
    BY <1>5, <2>0, <2>1 DEF Store
  <2>2. CASE TelMove("length", "confidence") /\ classification' = [classification EXCEPT !.length = verdict.length]
    BY <1>5, <2>0, <2>2 DEF Store
  <2>3. CASE TelMove("confidence", "idle") /\ classification' = [classification EXCEPT !.confidence = verdict.confidence]
    BY <1>5, <2>0, <2>3 DEF Store
  <2>4. QED
    BY <1>5, <2>1, <2>2, <2>3 DEF Store
<1>6. CASE Others
  BY <1>6, OthersAlarm DEF round
<1>7. CASE Ship \/ UNCHANGED tvars
  BY <1>7 DEF Ship, ShipState, ShipClassification, ShipSend, tvars, vars, machine, round
<1>8. QED
  BY <1>1, <1>2, <1>3, <1>4, <1>5, <1>6, <1>7 DEF TNext, TDetector

LEMMA CopyStep ==
  ASSUME StoreInv, CopyInv, [TNext]_tvars
  PROVE  CopyInv'
<1> USE DEF CopyInv, TelMove, ShipMove
<1>1. CASE \E s \in {"clean", "anomalous"} : TScore(s)
  BY <1>1 DEF TScore
<1>2. CASE TAct \/ TUpdate \/ Learn \/ Classify \/ Store
  BY <1>2 DEF TAct, TUpdate, Learn, Classify, Store, round
<1>3. CASE Others
  BY <1>3, OthersAlarm DEF round
<1>4. CASE ShipState
  BY <1>4 DEF ShipState, StoreInv, round
<1>5. CASE ShipClassification
  <2>1. UNCHANGED <<telPc, classification, alone>>
    BY <1>5 DEF ShipClassification, round
  <2>2. CASE ShipMove("name", "length") /\ report' = [report EXCEPT !.name = classification.name]
    BY <2>1, <2>2
  <2>3. CASE ShipMove("length", "confidence") /\ report' = [report EXCEPT !.length = classification.length]
    BY <2>1, <2>3
  <2>4. CASE ShipMove("confidence", "send") /\ report' = [report EXCEPT !.confidence = classification.confidence]
    BY <2>1, <2>4
  <2>5. QED
    BY <1>5, <2>2, <2>3, <2>4 DEF ShipClassification
<1>6. CASE ShipSend
  BY <1>6 DEF ShipSend, Blank
<1>7. CASE UNCHANGED tvars
  BY <1>7 DEF tvars, round
<1>8. QED
  BY <1>1, <1>2, <1>3, <1>4, <1>5, <1>6, <1>7 DEF TNext, TDetector, Ship

\* For all signals and confirmation counts, and with commands at any point: a
\* request that no round overlaps carries a whole classification, and no attack
\* type with NORMAL (main.go 170-175, 366-382).
THEOREM ReportsAreWhole == TSpec => []ReportsAgree
<1>1. TInit => RoundInv /\ StoreInv /\ CopyInv
  <2>1. TInit => RoundInv
    BY DEF TInit, Init, RoundInv
  <2>2. Shaped(Unset) /\ Unset.name = Unset.length /\ Quiet(Unset)
    BY DEF Unset, Classification, Shaped, Quiet
  <2>3. TInit => StoreInv
    BY <2>2, Verdicts DEF TInit, StoreInv
  <2>4. TInit => CopyInv
    BY DEF TInit, CopyInv, Blank
  <2>5. QED
    BY <2>1, <2>3, <2>4
<1>2. StoreInv /\ CopyInv => ReportsAgree
  BY DEF StoreInv, CopyInv, ReportsAgree, Quiet
<1>3. QED
  BY <1>1, <1>2, RoundStep, StoreStep, CopyStep, PTL DEF TSpec
==============================================================================
