------------------------------ MODULE Correlation -----------------------------
(***************************************************************************)
(* The cross-node correlation of cmd/aggregator: the table of nodes, the   *)
(* global defense decided from it once per window, and the firewall that   *)
(* follows the decision.                                                   *)
(*                                                                         *)
(* nodesMu covers the update of the table by a merge, the decision and the *)
(* second half of an HTTP reset.  The firewall is called after nodesMu is  *)
(* released, and the metrics at the end of a correlation walk the table    *)
(* with no lock.  Time passes in units of one window.                      *)
(***************************************************************************)
EXTENDS Firewall, Integers, FiniteSets

CONSTANTS
  Nodes,      \* node ids
  StaleAfter, \* windows after which a silent node is removed, 2
  Grace,      \* windows without defense after a reset, 70 s in windows
  NsgEnabled, \* -nsg-enabled
  HttpResets, \* whether /api/reset is called
  Restarts    \* whether the aggregator may be restarted

ASSUME CorrelationAssumption ==
  /\ IsFiniteSet(Nodes)
  /\ StaleAfter \in Nat
  /\ Grace \in Nat
  /\ NsgEnabled \in BOOLEAN /\ HttpResets \in BOOLEAN /\ Restarts \in BOOLEAN

VARIABLES
  nodes,     \* s.nodes: the nodes listed, with their last state and its age
  defense,   \* s.defenseActivated
  grace,     \* windows left of the grace period
  due,       \* a tick of the correlation loop is waiting
  corrPc,    \* next step of runCorrelation
  sameMap,   \* the table being walked is still s.nodes
  gauge,     \* NSGLockdownGauge
  crashed,   \* the runtime ended the process: map written while it is walked
  faults     \* history: what went wrong, or was reset, so far

decision == <<nodes, defense, grace>>
loop == <<due, corrPc, sameMap, gauge>>
corrVars == <<nsg, decision, loop, crashed, faults>>

\* NORMAL and RECOVERY count the same.
Reports == {"attack", "calm"}
Ages == 0 .. StaleAfter + 1
Entry == [state : Reports, age : Ages]

CorrTypeOK ==
  /\ NsgTypeOK
  /\ DOMAIN nodes \subseteq Nodes
  /\ \A n \in DOMAIN nodes : nodes[n] \in Entry
  /\ defense \in BOOLEAN
  /\ grace \in 0 .. Grace
  /\ due \in BOOLEAN
  /\ corrPc \in {"idle", "lockdown", "unlock", "scores", "types"}
  /\ sameMap \in BOOLEAN
  /\ gauge \in BOOLEAN
  /\ crashed \in BOOLEAN
  /\ faults \subseteq {"failed", "lost", "reset", "restart"}

NoNodes == [n \in {} |-> [state |-> "calm", age |-> 0]]

CorrInit ==
  /\ NsgInit
  /\ nodes = NoNodes
  /\ defense = FALSE
  /\ grace = 0
  /\ due = FALSE
  /\ corrPc = "idle"
  /\ sameMap = FALSE
  /\ gauge = FALSE
  /\ crashed = FALSE
  /\ faults = {}

------------------------------------------------------------------------------
Older(age) == IF age <= StaleAfter THEN age + 1 ELSE age

\* A window passes.
Elapse ==
  /\ nodes' = [n \in DOMAIN nodes |-> [state |-> nodes[n].state, age |-> Older(nodes[n].age)]]
  /\ grace' = IF grace > 0 THEN grace - 1 ELSE 0
  /\ due' = TRUE
  /\ UNCHANGED <<nsg, defense, corrPc, sameMap, gauge, crashed, faults>>

Walking == corrPc \in {"scores", "types"} /\ sameMap

\* The last section of MergeSketch and of handleHTTPMerge.  Writing a map that
\* is being walked is a fatal error when the runtime notices it.
RecordNode(n, report) ==
  /\ ~crashed
  /\ nodes' = [m \in DOMAIN nodes \cup {n} |->
                 IF m = n THEN [state |-> report, age |-> 0] ELSE nodes[m]]
  /\ crashed' \in {FALSE, Walking}
  /\ UNCHANGED <<nsg, defense, grace, loop, faults>>

\* The second section of handleHTTPReset: a new table, no defense, and a grace
\* period.  The firewall is not told.
ClearNodes ==
  /\ ~crashed
  /\ nodes' = NoNodes
  /\ defense' = FALSE
  /\ grace' = Grace
  /\ sameMap' = FALSE
  /\ faults' = faults \cup {"reset"}
  /\ UNCHANGED <<nsg, due, corrPc, gauge, crashed>>

\* Mutant of Listed: nobody is removed.
ListedAll == DOMAIN nodes

\* The nodes left once the stale ones are removed.
Listed == {n \in DOMAIN nodes : nodes[n].age <= StaleAfter}

Attackers == {n \in Listed : nodes[n].state = "attack"}

\* Mutant of MajorityAttacked: more than half.
StrictMajorityAttacked == Listed # {} /\ 2 * Cardinality(Attackers) > Cardinality(Listed)

MajorityAttacked == Listed # {} /\ 2 * Cardinality(Attackers) >= Cardinality(Listed)

\* Mutant of Correlate: no grace period.
CorrelateAtOnce ==
  /\ ~crashed
  /\ corrPc = "idle" /\ due
  /\ due' = FALSE
  /\ nodes' = [n \in Listed |-> nodes[n]]
  /\ defense' = MajorityAttacked
  /\ corrPc' = IF ~NsgEnabled \/ (defense' <=> defense) THEN "scores"
               ELSE IF defense' THEN "lockdown" ELSE "unlock"
  /\ sameMap' = TRUE
  /\ UNCHANGED <<nsg, grace, gauge, crashed, faults>>

\* runCorrelation under nodesMu.  The firewall acts on a change of the decision
\* only, and is called after nodesMu is released.
Correlate ==
  /\ ~crashed
  /\ corrPc = "idle" /\ due
  /\ due' = FALSE
  /\ nodes' = [n \in Listed |-> nodes[n]]
  /\ defense' = (grace = 0 /\ MajorityAttacked)
  /\ corrPc' = IF ~NsgEnabled \/ (defense' <=> defense) THEN "scores"
               ELSE IF defense' THEN "lockdown" ELSE "unlock"
  /\ sameMap' = TRUE
  /\ UNCHANGED <<nsg, grace, gauge, crashed, faults>>

\* What a call of the firewall adds to the faults: the API is only called when
\* the controller believes that there is something to do.
FaultOf(outcome) == IF (corrPc = "unlock") = locked THEN {outcome} \ {"done"} ELSE {}

\* Mutant of CallFirewall: an end of the defense is not passed on.
CallFirewallLockOnly(outcome) ==
  /\ ~crashed
  /\ corrPc \in {"lockdown", "unlock"}
  /\ IF corrPc = "lockdown" THEN Lockdown(outcome) ELSE UNCHANGED nsg
  /\ gauge' = (corrPc = "lockdown")
  /\ corrPc' = "scores"
  /\ sameMap' = TRUE
  /\ faults' = faults \cup FaultOf(outcome)
  /\ UNCHANGED <<decision, due, crashed>>

\* The call is tried once, and the gauge is set whatever came of it.
CallFirewall(outcome) ==
  /\ ~crashed
  /\ corrPc \in {"lockdown", "unlock"}
  /\ IF corrPc = "lockdown" THEN Lockdown(outcome) ELSE Unlock(outcome)
  /\ gauge' = (corrPc = "lockdown")
  /\ corrPc' = "scores"
  /\ sameMap' = TRUE
  /\ faults' = faults \cup FaultOf(outcome)
  /\ UNCHANGED <<decision, due, crashed>>

\* The two loops over s.nodes that feed the metrics.
WalkScores ==
  /\ ~crashed
  /\ corrPc = "scores"
  /\ corrPc' = "types"
  /\ sameMap' = TRUE
  /\ UNCHANGED <<nsg, decision, due, gauge, crashed, faults>>

WalkTypes ==
  /\ ~crashed
  /\ corrPc = "types"
  /\ corrPc' = "idle"
  /\ sameMap' = FALSE
  /\ UNCHANGED <<nsg, decision, due, gauge, crashed, faults>>

\* The deployment starts the aggregator again; all it knew is gone.
Restart ==
  /\ Restarts
  /\ ForgetRule
  /\ nodes' = NoNodes
  /\ defense' = FALSE
  /\ grace' = 0
  /\ due' = FALSE
  /\ corrPc' = "idle"
  /\ sameMap' = FALSE
  /\ gauge' = FALSE
  /\ crashed' = FALSE
  /\ faults' = faults \cup {"restart"}

CorrelationLoop ==
  Correlate \/ (\E outcome \in ApiOutcomes : CallFirewall(outcome)) \/ WalkScores \/ WalkTypes

CorrNext ==
  \/ Elapse
  \/ CorrelationLoop
  \/ \E n \in Nodes, report \in Reports : RecordNode(n, report)
  \/ HttpResets /\ ClearNodes
  \/ Restart

CorrSpec == CorrInit /\ [][CorrNext]_corrVars

\* Time passes, tickers fire, and the context bounds a call of the firewall.
CorrFairSpec == CorrSpec /\ WF_corrVars(Elapse) /\ WF_corrVars(CorrelationLoop)

------------------------------------------------------------------------------
(* Properties *)

\* No defense is active in the grace period after a reset, although the
\* decision, the reset and the reports come from different goroutines.
GraceHonoured == grace > 0 => ~defense

\* The correlation is past the firewall, or has not begun.
Settled == corrPc \in {"idle", "scores", "types"}

\* As long as no call failed and nothing was reset, the rule is there exactly
\* while the global defense is active, once a correlation is past the firewall.
RuleFollowsDefense == NsgEnabled /\ faults = {} /\ Settled => (rule <=> defense)

\* As long as no answer of the API is lost and the process lives, the
\* controller knows whether the rule is there, failed calls and resets of the
\* decision notwithstanding.
ControllerKnows == faults \subseteq {"failed", "reset"} => (locked <=> rule)

\* The defense does not outlive the attack: either reports of an attack keep
\* coming, or the defense is over for good, and with no fault on the way the
\* rule is gone with it.
AttackReported == \E n \in DOMAIN nodes : nodes[n] = [state |-> "attack", age |-> 0]
DefenseEnds ==
  []<>AttackReported \/ <>crashed \/ <>[](~defense /\ (faults = {} => ~rule))

\* If from some time on at least half of the listed nodes, none of them stale,
\* report an attack, the firewall is locked in the end: no reset or restart
\* keeps it from that, only a call that did not succeed.
HalfUnderAttack ==
  /\ grace = 0
  /\ DOMAIN nodes # {}
  /\ \A n \in DOMAIN nodes : nodes[n].age <= StaleAfter
  /\ 2 * Cardinality({n \in DOMAIN nodes : nodes[n].state = "attack"})
       >= Cardinality(DOMAIN nodes)
AttackAnswered ==
  <>[]HalfUnderAttack => <>crashed \/ <>[]rule \/ <>(faults \cap {"failed", "lost"} # {})

\* The rule is removed when the attack subsides, if the process lives.
RuleLifted == rule ~> (~rule \/ defense \/ crashed)
==============================================================================
