------------------------------- MODULE Evaluation ------------------------------
(***************************************************************************)
(* An evaluation run (ddos/eval, cmd/eval-detection): a generator feeds a  *)
(* window manager, a detection goroutine notes the windows it judges       *)
(* attacks, Run counts them against the ground truth, and the experiment   *)
(* logger counts again from a timeline of windows.                         *)
(*                                                                         *)
(* Generator and manager have tickers of their own, up to Skew windows     *)
(* apart, and the manager goes on until Run stops it.  What a detector     *)
(* makes of the traffic is free.                                           *)
(***************************************************************************)
EXTENDS Integers, Sequences, FiniteSets, Functions

CONSTANTS
  TotalWindows,
  AttackLists,   \* values of AttackWindowList
  Skew

VARIABLES
  attackList,    \* scenario.AttackWindowList
  generated,     \* windows the generator has finished
  windowID,      \* wm.windowID
  detect,        \* "running", "judging" a check, or "stopped"
  wid,           \* the window that check is about
  events,        \* window ids of the events, in order
  result,        \* Result, NoResult before the end
  summary        \* ExperimentSummary

\* Windows are numbered from 0, and a scenario names one at most once.
EvaluationAssumption ==
  /\ TotalWindows \in Nat /\ Skew \in Nat
  /\ \A list \in AttackLists : list \in Seq(Nat) /\ IsInjective(list)

vars == <<attackList, generated, windowID, detect, wid, events, result, summary>>

NoResult == [tp |-> 0, fp |-> 0, fn |-> 0, tn |-> 0]

Init ==
  /\ attackList \in AttackLists
  /\ generated = 0
  /\ windowID = 0
  /\ detect = "running" /\ wid = 0
  /\ events = <<>>
  /\ result = NoResult /\ summary = NoResult

attackSet == Range(attackList)

------------------------------------------------------------------------------
(* Run: traffic, rotation, detection *)

\* The generator has sent the traffic of a window and slept for the rest of it.
Generate ==
  /\ generated < TotalWindows
  /\ generated < windowID + Skew
  /\ generated' = generated + 1
  /\ UNCHANGED <<attackList, windowID, detect, wid, events, result, summary>>

Rotate ==
  /\ detect # "stopped"
  /\ windowID < generated + Skew
  /\ windowID' = windowID + 1
  /\ UNCHANGED <<attackList, generated, detect, wid, events, result, summary>>

\* A check reads the counts, and the window they are said to belong to.
Check ==
  /\ detect = "running"
  /\ detect' = "judging"
  /\ wid' = windowID
  /\ UNCHANGED <<attackList, generated, windowID, events, result, summary>>

\* Mutant of Judge: the windows that have been alerted are not remembered.
JudgeAgain ==
  /\ detect = "judging"
  /\ detect' = "running"
  /\ \/ events' = Append(events, wid) /\ Len(events) < TotalWindows + Skew
     \/ UNCHANGED events
  /\ UNCHANGED <<attackList, generated, windowID, wid, result, summary>>

\* One event for a window, however often it is judged an attack.
Judge ==
  /\ detect = "judging"
  /\ detect' = "running"
  /\ \/ wid \notin Range(events) /\ events' = Append(events, wid)
     \/ UNCHANGED events
  /\ UNCHANGED <<attackList, generated, windowID, wid, result, summary>>

------------------------------------------------------------------------------
(* Run: metrics *)

Count(s, Holds(_)) == Cardinality({i \in DOMAIN s : Holds(s[i])})

Metrics ==
  LET fp == Count(events, LAMBDA w : w \notin attackSet)
      tn == TotalWindows - Cardinality(attackSet) - fp
  IN [tp |-> Count(events, LAMBDA w : w \in attackSet),
      fp |-> fp,
      fn |-> Count(attackList, LAMBDA w : w \notin Range(events)),
      tn |-> IF tn < 0 THEN 0 ELSE tn]

\* The traffic has ended and the detection goroutine has stopped.
Finish ==
  /\ detect = "running"
  /\ generated = TotalWindows
  /\ detect' = "stopped"
  /\ result' = Metrics
  /\ UNCHANGED <<attackList, generated, windowID, wid, events, summary>>

------------------------------------------------------------------------------
(* writeExperimentOutput and computeSummary *)

Timeline ==
  [w \in 0 .. TotalWindows - 1 |-> [attack |-> w \in attackSet, predicted |-> w \in Range(events)]]

Tally(attack, predicted) ==
  Cardinality({w \in DOMAIN Timeline : Timeline[w] = [attack |-> attack, predicted |-> predicted]})

Summarize ==
  /\ detect = "stopped" /\ summary = NoResult
  /\ summary' = [tp |-> Tally(TRUE, TRUE), fp |-> Tally(FALSE, TRUE),
                 fn |-> Tally(TRUE, FALSE), tn |-> Tally(FALSE, FALSE)]
  /\ UNCHANGED <<attackList, generated, windowID, detect, wid, events, result>>

Next == Generate \/ Rotate \/ Check \/ Judge \/ Finish \/ Summarize

Spec == Init /\ [][Next]_vars

------------------------------------------------------------------------------
(* Properties *)

\* The experiment logger counts windows of the run, Run counts events, the
\* manager goes on after the last window, and the ground truth may name windows
\* that never come.  The two counts differ by just that: alerts after the last
\* window are right or wrong for Run and nothing for the logger, and attack
\* windows beyond the end are missed for Run, unless alerted, and taken from
\* its true negatives.
SummariesAgree ==
  summary # NoResult =>
    LET beyond == Cardinality({w \in attackSet : w >= TotalWindows})
        lateAttack == Count(events, LAMBDA w : w >= TotalWindows /\ w \in attackSet)
        lateNormal == Count(events, LAMBDA w : w >= TotalWindows /\ w \notin attackSet)
        tn == summary.tn - beyond - lateNormal
    IN result = [tp |-> summary.tp + lateAttack,
                 fp |-> summary.fp + lateNormal,
                 fn |-> summary.fn + beyond - lateAttack,
                 tn |-> IF tn < 0 THEN 0 ELSE tn]
==============================================================================
