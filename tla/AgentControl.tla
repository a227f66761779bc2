----------------------------- MODULE AgentControl ------------------------------
(***************************************************************************)
(* The control loop of an agent (cmd/agent): the anomaly state machine,    *)
(* the mitigation controller, and the goroutines that drive them.          *)
(*                                                                         *)
(*   detector  once per check interval: score, Transition, UpdateState     *)
(*   poller    every five seconds: the aggregator's defense command        *)
(*   drain     for every packet: is mitigation active, is the source       *)
(*             within its limit                                            *)
(*                                                                         *)
(* State machine and controller have a lock each; nothing holds both, so   *)
(* the goroutines interleave between a change of state and the UpdateState *)
(* that reports it.                                                        *)
(***************************************************************************)
EXTENDS Integers

CONSTANTS
  AttackConfirm,    \* anomalous scores in a row that enter UNDER_ATTACK
  RecoveryConfirm,  \* clean scores in a row that return to NORMAL
  Agents            \* the configurations of an agent

ASSUME AgentControlAssumption ==
  /\ AttackConfirm \in Nat \ {0}
  /\ RecoveryConfirm \in Nat \ {0}
  /\ Agents \subseteq [ensemble : BOOLEAN, polling : BOOLEAN]

VARIABLES
  agent,                \* -detector ensemble or one detector alone; an aggregator or none
  state,                \* sm.state
  consecutiveAttack,    \* sm.consecutiveAttack
  consecutiveRecovery,  \* sm.consecutiveRecovery
  active,               \* mc.active
  residue,              \* requests in the limiter's counters since its Reset, up to 2
  detPc, score, newState,
  pollPc,
  drainPc,
  \* History variables
  attackRun,      \* anomalous scores in a row, none of them before a command
  cleanRun        \* clean scores in a row, none of them before a command

machine == <<state, consecutiveAttack, consecutiveRecovery>>
history == <<attackRun, cleanRun>>
vars == <<agent, machine, active, residue, detPc, score, newState, pollPc, drainPc, history>>

States == {"NORMAL", "UNDER_ATTACK", "RECOVERY"}

CountUpTo(n, cap) == IF n < cap THEN n + 1 ELSE cap

\* One more than RecoveryConfirm: the clean score that enters RECOVERY is
\* counted but not compared, so RecoveryConfirm = 1 takes two of them.
CleanNeeded == IF RecoveryConfirm = 1 THEN 2 ELSE RecoveryConfirm

TypeOK ==
  /\ agent \in Agents
  /\ state \in States
  /\ consecutiveAttack \in 0 .. AttackConfirm
  /\ consecutiveRecovery \in 0 .. CleanNeeded
  /\ active \in BOOLEAN
  /\ residue \in 0 .. 2
  /\ detPc \in {"idle", "transition", "force", "update"}
  /\ score \in {"clean", "anomalous"}
  /\ newState \in States
  /\ pollPc \in {"idle", "force", "update"}
  /\ drainPc \in {"idle", "count"}
  /\ attackRun \in 0 .. AttackConfirm
  /\ cleanRun \in 0 .. CleanNeeded

Init ==
  /\ agent \in Agents
  /\ state = "NORMAL"
  /\ consecutiveAttack = 0
  /\ consecutiveRecovery = 0
  /\ active = FALSE
  /\ residue = 0
  /\ detPc = "idle" /\ score = "clean" /\ newState = "NORMAL"
  /\ pollPc = "idle"
  /\ drainPc = "idle"
  /\ attackRun = 0 /\ cleanRun = 0

------------------------------------------------------------------------------
(* AnomalyStateMachine *)

\* Mutant of FromNormal: a clean score does not start the count again.
FromNormalKeepsCount ==
  IF score = "anomalous"
  THEN IF consecutiveAttack + 1 >= AttackConfirm
       THEN state' = "UNDER_ATTACK" /\ consecutiveAttack' = 0 /\ consecutiveRecovery' = 0
       ELSE /\ consecutiveAttack' = consecutiveAttack + 1
            /\ UNCHANGED <<state, consecutiveRecovery>>
  ELSE UNCHANGED machine

\* Transition(score), one lock section.
FromNormal ==
  IF score = "anomalous"
  THEN IF consecutiveAttack + 1 >= AttackConfirm
       THEN state' = "UNDER_ATTACK" /\ consecutiveAttack' = 0 /\ consecutiveRecovery' = 0
       ELSE /\ consecutiveAttack' = consecutiveAttack + 1
            /\ UNCHANGED <<state, consecutiveRecovery>>
  ELSE consecutiveAttack' = 0 /\ UNCHANGED <<state, consecutiveRecovery>>

FromUnderAttack ==
  IF score = "anomalous"
  THEN UNCHANGED machine
  ELSE state' = "RECOVERY" /\ consecutiveRecovery' = 1 /\ consecutiveAttack' = 0

\* Mutant of FromRecovery: an anomalous score is ignored.
FromRecoveryNoRelapse ==
  IF score = "anomalous"
  THEN UNCHANGED machine
  ELSE /\ IF consecutiveRecovery + 1 >= RecoveryConfirm
          THEN state' = "NORMAL" /\ consecutiveRecovery' = 0
          ELSE consecutiveRecovery' = consecutiveRecovery + 1 /\ UNCHANGED state
       /\ UNCHANGED consecutiveAttack

FromRecovery ==
  IF score = "anomalous"
  THEN state' = "UNDER_ATTACK" /\ consecutiveRecovery' = 0 /\ consecutiveAttack' = 0
  ELSE /\ IF consecutiveRecovery + 1 >= RecoveryConfirm
          THEN state' = "NORMAL" /\ consecutiveRecovery' = 0
          ELSE consecutiveRecovery' = consecutiveRecovery + 1 /\ UNCHANGED state
       /\ UNCHANGED consecutiveAttack

Transition ==
  /\ state = "NORMAL" => FromNormal
  /\ state = "UNDER_ATTACK" => FromUnderAttack
  /\ state = "RECOVERY" => FromRecovery

\* ForceState(UNDER_ATTACK), the only state a caller forces.
ForceUnderAttack ==
  /\ state' = "UNDER_ATTACK"
  /\ consecutiveAttack' = 0
  /\ consecutiveRecovery' = 0

\* Mutant of UpdateState: the limiter is not reset.
UpdateStateNoReset(s) ==
  /\ active' = (s # "NORMAL")
  /\ UNCHANGED residue

\* MitigationController.UpdateState(s): leaving mitigation resets the limiter.
UpdateState(s) ==
  /\ active' = (s # "NORMAL")
  /\ residue' = IF s = "NORMAL" /\ active THEN 0 ELSE residue

------------------------------------------------------------------------------
(* The runs of scores the state machine is meant to act on. *)

ScoreSeen ==
  IF score = "anomalous"
  THEN /\ attackRun' = CountUpTo(attackRun, AttackConfirm)
       /\ cleanRun' = 0
  ELSE /\ cleanRun' = CountUpTo(cleanRun, CleanNeeded)
       /\ attackRun' = 0

CommandSeen ==
  /\ attackRun' = 0
  /\ cleanRun' = 0

------------------------------------------------------------------------------
(* Detector goroutine, lines 112-157 *)

\* A tick: the features are read and scored.  A single detector that fires
\* skips the hysteresis and forces the state.
DetScore(s) ==
  /\ detPc = "idle"
  /\ score' = s
  /\ detPc' = IF ~agent.ensemble /\ s = "anomalous" THEN "force" ELSE "transition"
  /\ UNCHANGED <<machine, active, residue, newState, pollPc, drainPc, history>>

DetTransition ==
  /\ detPc = "transition"
  /\ Transition
  /\ newState' = state'
  /\ ScoreSeen
  /\ detPc' = "update"
  /\ UNCHANGED <<active, residue, score, pollPc, drainPc>>

\* Mutant of DetForce: the controller is not told.
DetForceSilent ==
  /\ detPc = "force"
  /\ ForceUnderAttack
  /\ newState' = "UNDER_ATTACK"
  /\ CommandSeen
  /\ detPc' = "idle"
  /\ UNCHANGED <<active, residue, score, pollPc, drainPc>>

DetForce ==
  /\ detPc = "force"
  /\ ForceUnderAttack
  /\ newState' = "UNDER_ATTACK"
  /\ CommandSeen
  /\ detPc' = "update"
  /\ UNCHANGED <<active, residue, score, pollPc, drainPc>>

\* Mutant of DetUpdate: the controller hears of clean scores only.
DetUpdateIfClean ==
  /\ detPc = "update"
  /\ IF score = "clean" THEN UpdateState(newState) ELSE UNCHANGED <<active, residue>>
  /\ detPc' = "idle"
  /\ UNCHANGED <<machine, score, newState, pollPc, drainPc, history>>

\* The controller is told the state the detector goroutine left behind.
DetUpdate ==
  /\ detPc = "update"
  /\ UpdateState(newState)
  /\ detPc' = "idle"
  /\ UNCHANGED <<machine, score, newState, pollPc, drainPc, history>>

------------------------------------------------------------------------------
(* Poller goroutine, lines 396-412 and 526-552 *)

\* The aggregator answered that defense is activated and the state was NORMAL;
\* any other answer leaves everything as it is.
PollCheck ==
  /\ agent.polling
  /\ pollPc = "idle"
  /\ state = "NORMAL"
  /\ pollPc' = "force"
  /\ UNCHANGED <<machine, active, residue, detPc, score, newState, drainPc, history>>

PollForce ==
  /\ pollPc = "force"
  /\ ForceUnderAttack
  /\ CommandSeen
  /\ pollPc' = "update"
  /\ UNCHANGED <<active, residue, detPc, score, newState, drainPc>>

PollUpdate ==
  /\ pollPc = "update"
  /\ UpdateState("UNDER_ATTACK")
  /\ pollPc' = "idle"
  /\ UNCHANGED <<machine, detPc, score, newState, drainPc, history>>

------------------------------------------------------------------------------
(* Drain goroutine: MitigationController.ShouldAllow *)

\* mc.active is read under the lock and used after it.
DrainCheck ==
  /\ drainPc = "idle"
  /\ active
  /\ drainPc' = "count"
  /\ UNCHANGED <<machine, active, residue, detPc, score, newState, pollPc, history>>

\* limiter.ShouldAllow counts the request in the sketch of its source.
DrainCount ==
  /\ drainPc = "count"
  /\ residue' = CountUpTo(residue, 2)
  /\ drainPc' = "idle"
  /\ UNCHANGED <<machine, active, detPc, score, newState, pollPc, history>>

------------------------------------------------------------------------------
Detector ==
  /\ UNCHANGED agent
  /\ \/ \E s \in {"clean", "anomalous"} : DetScore(s)
     \/ DetTransition \/ DetForce \/ DetUpdate

PollerCommands == (PollForce \/ PollUpdate) /\ UNCHANGED agent

Poller == PollerCommands \/ (PollCheck /\ UNCHANGED agent)

Drain == (DrainCheck \/ DrainCount) /\ UNCHANGED agent

Next == Detector \/ Poller \/ Drain

Spec == Init /\ [][Next]_vars

\* The ticker keeps waking the detector goroutine, and a poll that found
\* something to do carries on.
FairSpec == Spec /\ WF_vars(Detector) /\ WF_vars(PollerCommands)

------------------------------------------------------------------------------
(* Properties *)

\* The state machine enters UNDER_ATTACK from NORMAL on its own account.
EntersAttack ==
  state = "NORMAL" /\ state' = "UNDER_ATTACK" /\ detPc = "transition" /\ detPc' = "update"

\* It does so only after AttackConfirm anomalous scores in a row, and the agent
\* is back in NORMAL only by way of RECOVERY and only after as many clean scores
\* in a row as that takes.  All of them are after the last command of the
\* aggregator: no count survives a score of the other kind or a command.
ConfirmedChanges ==
  [][/\ EntersAttack => attackRun' >= AttackConfirm
     /\ state # "NORMAL" /\ state' = "NORMAL" => state = "RECOVERY" /\ cleanRun' >= CleanNeeded]_vars

\* While mitigation is off the limiter remembers nothing of an earlier attack
\* but the one request whose ShouldAllow overlapped the reset.
ResidueBound == ~active => residue <= 1

\* Neither goroutine is between a change of state and its UpdateState.
Settled == detPc # "update" /\ pollPc # "update"

Agreement == active <=> state # "NORMAL"

\* The rate limiter is active exactly in UNDER_ATTACK and RECOVERY as long as
\* no aggregator commands the agent: only the detector goroutine moves the
\* state then, whichever detector decides.
MitigationFollowsScores == ~agent.polling /\ Settled => Agreement

\* Whatever the goroutines do to each other, controller and state machine
\* agree again and again.
MitigationCatchesUp == []<>Agreement
==============================================================================
