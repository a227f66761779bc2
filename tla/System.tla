-------------------------------- MODULE System --------------------------------
(***************************************************************************)
(* Agents and an aggregator together, second by second.                    *)
(*                                                                         *)
(* An agent checks its score every second, asks for the defense command    *)
(* every PollEvery seconds and ships a report every Window seconds; the    *)
(* aggregator correlates every Window seconds.  Every ticker has its own   *)
(* phase, and the tickers that fire in the same second do so in any order. *)
(* A call takes no time here and may fail; nothing is tried again before   *)
(* the next tick.  AgentControl and Correlation have the steps inside.     *)
(***************************************************************************)
EXTENDS Integers, FiniteSets

CONSTANTS
  Agents,           \* the agents that report to the aggregator
  AttackConfirm,    \* anomalous scores in a row that enter UNDER_ATTACK
  RecoveryConfirm,  \* clean scores in a row that return to NORMAL
  PollEvery,        \* period of the poller, 5 s
  Window,           \* -window and -ship-interval, 10 s
  Stale,            \* seconds after which a silent node is removed, 2 * Window
  Faults            \* "lost": a call may fail; "restart": the aggregator may

ASSUME SystemAssumption ==
  /\ IsFiniteSet(Agents) /\ Agents # {}
  /\ AttackConfirm \in Nat \ {0}
  /\ RecoveryConfirm \in Nat \ {0}
  /\ PollEvery \in Nat \ {0}
  /\ Window \in Nat \ {0}
  /\ Stale \in Nat /\ Stale >= Window
  /\ Faults \subseteq {"lost", "restart"}

VARIABLES
  machine,   \* sm of each agent: its state and the two confirmation counters
  heard,     \* s.nodes: the last report of each agent and its age
  defense,   \* s.defenseActivated
  toPoll, toShip, toCorr,  \* seconds to the next tick
  due,       \* ticks of this second an agent has yet to serve
  corrDue,   \* the aggregator has yet to correlate in this second
  \* History variables
  hot,       \* anomalous scores in a row, no report lost and no restart since
  cold,      \* seconds since the last anomalous score
  confirmed  \* some agent has entered UNDER_ATTACK by its own scores

timers == <<toPoll, toShip, toCorr>>
history == <<hot, cold, confirmed>>
vars == <<machine, heard, defense, timers, due, corrDue, history>>

CountUpTo(n, cap) == IF n < cap THEN n + 1 ELSE cap

\* The agent confirms, ships within a window, and the aggregator correlates
\* within another; a tick is served somewhere in its second.
HotBound == AttackConfirm + 2 * Window + 1

\* The last report of an attack grows stale, and a correlation removes it.
ColdBound == Stale + Window + 2

States == {"NORMAL", "UNDER_ATTACK", "RECOVERY"}
Machine == [state : States, attack : 0 .. AttackConfirm, recovery : 0 .. RecoveryConfirm]
Entry == [state : {"none", "attack", "calm"}, age : 0 .. Stale + 1]

TypeOK ==
  /\ machine \in [Agents -> Machine]
  /\ heard \in [Agents -> Entry]
  /\ defense \in BOOLEAN
  /\ toPoll \in [Agents -> 1 .. PollEvery]
  /\ toShip \in [Agents -> 1 .. Window]
  /\ toCorr \in 1 .. Window
  /\ due \in [Agents -> SUBSET {"check", "poll", "ship"}]
  /\ corrDue \in BOOLEAN
  /\ hot \in [Agents -> 0 .. HotBound]
  /\ cold \in 0 .. ColdBound
  /\ confirmed \in BOOLEAN

Normal == [state |-> "NORMAL", attack |-> 0, recovery |-> 0]
UnderAttack == [state |-> "UNDER_ATTACK", attack |-> 0, recovery |-> 0]
Unheard == [state |-> "none", age |-> 0]

Init ==
  /\ machine = [a \in Agents |-> Normal]
  /\ heard = [a \in Agents |-> Unheard]
  /\ defense = FALSE
  /\ toPoll \in [Agents -> 1 .. PollEvery]
  /\ toShip \in [Agents -> 1 .. Window]
  /\ toCorr \in 1 .. Window
  /\ due = [a \in Agents |-> {}]
  /\ corrDue = FALSE
  /\ hot = [a \in Agents |-> 0]
  /\ cold = 0
  /\ confirmed = FALSE

------------------------------------------------------------------------------
(* AnomalyStateMachine.Transition *)

Confirms(m, s) == m.state = "NORMAL" /\ s = "anomalous" /\ m.attack + 1 >= AttackConfirm

AfterAnomalous(m) ==
  IF m.state = "NORMAL" /\ m.attack + 1 < AttackConfirm
  THEN [m EXCEPT !.attack = m.attack + 1]
  ELSE IF m.state = "UNDER_ATTACK" THEN m ELSE UnderAttack

AfterClean(m) ==
  IF m.state = "UNDER_ATTACK"
  THEN [state |-> "RECOVERY", attack |-> 0, recovery |-> 1]
  ELSE IF m.state = "RECOVERY" /\ m.recovery + 1 < RecoveryConfirm
       THEN [m EXCEPT !.recovery = m.recovery + 1]
       ELSE Normal

------------------------------------------------------------------------------
(* An agent: detector goroutine, poller and shipping loop *)

Served(a, tick) == due' = [due EXCEPT ![a] = @ \ {tick}]

Check(a, s) ==
  /\ "check" \in due[a]
  /\ machine' = [machine EXCEPT ![a] = IF s = "anomalous" THEN AfterAnomalous(@) ELSE AfterClean(@)]
  /\ hot' = [hot EXCEPT ![a] = IF s = "anomalous" THEN CountUpTo(@, HotBound) ELSE 0]
  /\ cold' = IF s = "anomalous" THEN 0 ELSE cold
  /\ confirmed' = (confirmed \/ Confirms(machine[a], s))
  /\ Served(a, "check")
  /\ UNCHANGED <<heard, defense, timers, corrDue>>

\* Mutant of PollAnswered: the command is followed whether or not it is activated.
PollAnsweredAlways(a) ==
  /\ "poll" \in due[a]
  /\ machine' = [machine EXCEPT ![a] = IF @.state = "NORMAL" THEN UnderAttack ELSE @]
  /\ Served(a, "poll")
  /\ UNCHANGED <<heard, defense, timers, corrDue, history>>

\* What the aggregator answers: the flag of its last correlation.
GetDefenseCommand == defense

\* The answer escalates NORMAL and leaves the other states alone.
PollAnswered(a) ==
  /\ "poll" \in due[a]
  /\ machine' = [machine EXCEPT ![a] = IF GetDefenseCommand /\ @.state = "NORMAL" THEN UnderAttack ELSE @]
  /\ Served(a, "poll")
  /\ UNCHANGED <<heard, defense, timers, corrDue, history>>

PollFailed(a) ==
  /\ "lost" \in Faults
  /\ "poll" \in due[a]
  /\ Served(a, "poll")
  /\ UNCHANGED <<machine, heard, defense, timers, corrDue, history>>

\* The state is read when the request is built; RECOVERY counts as calm.
ShipDelivered(a) ==
  /\ "ship" \in due[a]
  /\ heard' = [heard EXCEPT ![a] =
       [state |-> IF machine[a].state = "UNDER_ATTACK" THEN "attack" ELSE "calm", age |-> 0]]
  /\ Served(a, "ship")
  /\ UNCHANGED <<machine, defense, timers, corrDue, history>>

ShipFailed(a) ==
  /\ "lost" \in Faults
  /\ "ship" \in due[a]
  /\ hot' = [hot EXCEPT ![a] = 0]
  /\ Served(a, "ship")
  /\ UNCHANGED <<machine, heard, defense, timers, corrDue, cold, confirmed>>

------------------------------------------------------------------------------
(* The aggregator *)

Listed == {a \in Agents : heard[a].state # "none" /\ heard[a].age <= Stale}
Attackers == {a \in Listed : heard[a].state = "attack"}

\* Mutant of MajorityAttacked: silent nodes are counted, more than half needed.
MajorityOfAll == 2 * Cardinality(Attackers) > Cardinality(Agents)

MajorityAttacked == Listed # {} /\ 2 * Cardinality(Attackers) >= Cardinality(Listed)

\* Mutant of Correlate: a defense is never given up.
CorrelateNeverLifts ==
  /\ corrDue
  /\ corrDue' = FALSE
  /\ heard' = [a \in Agents |-> IF a \in Listed THEN heard[a] ELSE Unheard]
  /\ defense' = (defense \/ MajorityAttacked)
  /\ UNCHANGED <<machine, timers, due, history>>

\* runCorrelation: stale nodes are removed, then the rest decides.
Correlate ==
  /\ corrDue
  /\ corrDue' = FALSE
  /\ heard' = [a \in Agents |-> IF a \in Listed THEN heard[a] ELSE Unheard]
  /\ defense' = MajorityAttacked
  /\ UNCHANGED <<machine, timers, due, history>>

\* The new ticker runs for a whole window first.
Restart ==
  /\ "restart" \in Faults
  /\ heard' = [a \in Agents |-> Unheard]
  /\ defense' = FALSE
  /\ corrDue' = FALSE
  /\ toCorr' = Window
  /\ hot' = [a \in Agents |-> 0]
  /\ UNCHANGED <<machine, toPoll, toShip, due, cold, confirmed>>

------------------------------------------------------------------------------
(* The clock *)

CountDown(t, period) == IF t = 1 THEN period ELSE t - 1

Older(e) == [state |-> e.state, age |-> CountUpTo(e.age, Stale + 1)]

\* A second passes once every tick of the last one has been served.
Tick ==
  /\ ~corrDue
  /\ \A a \in Agents : due[a] = {}
  /\ toPoll' = [a \in Agents |-> CountDown(toPoll[a], PollEvery)]
  /\ toShip' = [a \in Agents |-> CountDown(toShip[a], Window)]
  /\ toCorr' = CountDown(toCorr, Window)
  /\ due' = [a \in Agents |->
       {"check"} \cup (IF toPoll[a] = 1 THEN {"poll"} ELSE {})
                 \cup (IF toShip[a] = 1 THEN {"ship"} ELSE {})]
  /\ corrDue' = (toCorr = 1)
  /\ heard' = [a \in Agents |-> Older(heard[a])]
  /\ cold' = CountUpTo(cold, ColdBound)
  /\ UNCHANGED <<machine, defense, hot, confirmed>>

AgentStep(a) ==
  \/ \E s \in {"clean", "anomalous"} : Check(a, s)
  \/ PollAnswered(a) \/ PollFailed(a)
  \/ ShipDelivered(a) \/ ShipFailed(a)

Next == (\E a \in Agents : AgentStep(a)) \/ Correlate \/ Restart \/ Tick

Spec == Init /\ [][Next]_vars

\* Tickers fire and their ticks are served.
FairSpec == Spec /\ WF_vars((\E a \in Agents : AgentStep(a)) \/ Correlate \/ Tick)

------------------------------------------------------------------------------
(* Properties *)

\* Nobody defends itself against nothing: without an agent whose own scores
\* confirmed an attack there is no global defense, and no agent is, or is
\* reported to be, under attack.  Commands, reports, losses and restarts
\* among agents and aggregator cannot start an attack by themselves.
NoSpontaneousDefense ==
  ~confirmed => /\ ~defense
                /\ \A a \in Agents : machine[a].state = "NORMAL" /\ heard[a].state # "attack"

\* An attack is answered in time: once at least half of the agents have had
\* anomalous scores for AttackConfirm seconds and two windows, with none of
\* their reports lost, the global defense is active, whatever the phases of
\* the tickers, the other agents, and the lost calls of earlier times.
Hot == {a \in Agents : hot[a] >= HotBound}
AnsweredInTime == 2 * Cardinality(Hot) >= Cardinality(Agents) => defense

\* The shipping tick of an agent falls into the second of a poll or the next,
\* where an escalated state may not have met a clean score yet.
Exposed(a) == (toShip[a] - toPoll[a]) % PollEvery \in {0, 1}

\* The defense ends in time: once no agent has had an anomalous score for the
\* time that makes a node stale and one window, it is over, although commanded
\* agents go through UNDER_ATTACK on the way, if none of them ships there.
EndsInTime == cold >= ColdBound /\ (\A a \in Agents : ~Exposed(a)) => ~defense

\* Clean scores for ever end the defense for good: the poller "does not
\* prevent natural recovery" (cmd/agent/main.go:395).
NaturalRecovery == <>[](cold > 0) => <>[]~defense
==============================================================================
