------------------------------- MODULE Telemetry -------------------------------
(***************************************************************************)
(* What an agent learns and reports (cmd/agent): after each round of       *)
(* scores the detector goroutine records the transition, learns the        *)
(* baseline and classifies the attack; the shipping loop reads state and   *)
(* classification for its request.  The classification is a variable of    *)
(* three words (pointer and length of the name, confidence) that both      *)
(* goroutines use without a lock.                                          *)
(***************************************************************************)
EXTENDS AgentControl, FiniteSets

CONSTANTS
  Signals,         \* [cards, rate, bytes]: ratios in tenths, bytes per packet
  MaxSamples       \* samples the baseline is made of, 50

VARIABLES
  telPc,
  samples,         \* baselineSamples
  verdict,         \* the classification about to be stored
  classification,  \* lastClassification: [name, length, confidence]
  shipPc, report,
  \* History variables
  learned,         \* anomalous samples in the baseline since the last clean one
  alone            \* no round of the detector has overlapped the request

round == <<telPc, samples, verdict, classification, learned>>
tvars == <<vars, round, shipPc, report, alone>>

------------------------------------------------------------------------------
(* ClassifyAttack: three signals speak for each type, most signals win. *)

Types == <<"SYN_FLOOD", "UDP_FLOOD", "HTTP_FLOOD", "SCAN_PROBE">>

Matches(f) ==
  LET moderate == f.cards > 20 /\ f.cards <= 100
      rules == <<<<f.cards > 50, f.rate > 50, f.bytes > 0 /\ f.bytes < 100>>,
                 <<f.cards > 50, f.rate > 50, f.bytes >= 100 /\ f.bytes <= 500>>,
                 <<moderate, f.rate > 30, f.bytes > 500>>,
                 <<moderate, f.rate > 5 /\ f.rate <= 30, f.bytes > 0 /\ f.bytes < 80>>>>
  IN [t \in DOMAIN Types |-> Cardinality({k \in 1 .. 3 : rules[t][k]})]

Classification(type, conf) == [name |-> type, length |-> type, confidence |-> conf]

None == Classification("NONE", 0)

\* The value lastClassification has before the first round.
Unset == Classification("", 0)

\* The first of the types with the most signals; none of them is UNKNOWN.
ClassifyAttack(f) ==
  LET found == Matches(f)
      best == CHOOSE t \in DOMAIN Types :
                \A u \in DOMAIN Types : found[t] > found[u] \/ (found[t] = found[u] /\ t <= u)
  IN IF f.cards < 20 /\ f.rate < 20 THEN None
     ELSE IF found[best] = 0 THEN Classification("UNKNOWN", 0)
     ELSE Classification(Types[best], found[best])

------------------------------------------------------------------------------
Blank == [state |-> "NORMAL", name |-> "NONE", length |-> "NONE", confidence |-> 0]

TInit ==
  /\ Init
  /\ telPc = "idle"
  /\ samples = 0
  /\ verdict = None /\ classification = Unset
  /\ shipPc = "idle" /\ report = Blank
  /\ learned = 0 /\ alone = FALSE

(* Detector goroutine, lines 111-175 *)

TelMove(from, to) == telPc = from /\ telPc' = to

TScore(s) ==
  /\ TelMove("idle", "act")
  /\ DetScore(s)
  /\ alone' = FALSE
  /\ UNCHANGED <<agent, samples, verdict, classification, learned, shipPc, report>>

TAct ==
  /\ telPc = "act"
  /\ DetTransition \/ DetForce
  /\ UNCHANGED <<agent, round, shipPc, report, alone>>

TUpdate ==
  /\ TelMove("act", "learn")
  /\ DetUpdate
  /\ UNCHANGED <<agent, samples, verdict, classification, learned, shipPc, report, alone>>

\* Mutant of Learn: the state is not looked at.
LearnAlways ==
  /\ TelMove("learn", "classify")
  /\ IF samples < MaxSamples
     THEN /\ samples' = samples + 1
          /\ learned' = IF score = "clean" THEN 0 ELSE CountUpTo(learned, AttackConfirm)
     ELSE UNCHANGED <<samples, learned>>
  /\ UNCHANGED <<vars, verdict, classification, shipPc, report, alone>>

\* The first MaxSamples samples taken in NORMAL are averaged.
Learn ==
  /\ TelMove("learn", "classify")
  /\ IF state = "NORMAL" /\ samples < MaxSamples
     THEN /\ samples' = samples + 1
          /\ learned' = IF score = "clean" THEN 0 ELSE CountUpTo(learned, AttackConfirm)
     ELSE UNCHANGED <<samples, learned>>
  /\ UNCHANGED <<vars, verdict, classification, shipPc, report, alone>>

\* Mutant of Classify: back in NORMAL the last classification is kept.
ClassifyKeeps ==
  /\ TelMove("classify", "name")
  /\ IF state = "NORMAL" THEN verdict' = classification
     ELSE \E f \in Signals : verdict' = ClassifyAttack(f)
  /\ UNCHANGED <<vars, samples, classification, learned, shipPc, report, alone>>

Classify ==
  /\ TelMove("classify", "name")
  /\ IF state = "NORMAL" THEN verdict' = None
     ELSE \E f \in Signals : verdict' = ClassifyAttack(f)
  /\ UNCHANGED <<vars, samples, classification, learned, shipPc, report, alone>>

\* The assignment to lastClassification, word by word.
Store ==
  /\ \/ TelMove("name", "length") /\ classification' = [classification EXCEPT !.name = verdict.name]
     \/ TelMove("length", "confidence") /\ classification' = [classification EXCEPT !.length = verdict.length]
     \/ TelMove("confidence", "idle") /\ classification' = [classification EXCEPT !.confidence = verdict.confidence]
  /\ verdict' = IF telPc' = "idle" THEN None ELSE verdict
  /\ UNCHANGED <<vars, samples, learned, shipPc, report, alone>>

------------------------------------------------------------------------------
(* Shipping loop, lines 364-382 and 497-506 *)

ShipMove(from, to) == shipPc = from /\ shipPc' = to

\* An agent without an aggregator neither polls nor ships.
ShipState ==
  /\ agent.polling
  /\ ShipMove("idle", "name")
  /\ report' = [report EXCEPT !.state = state]
  /\ alone' = (telPc = "idle")
  /\ UNCHANGED <<vars, round>>

ShipClassification ==
  /\ \/ ShipMove("name", "length") /\ report' = [report EXCEPT !.name = classification.name]
     \/ ShipMove("length", "confidence") /\ report' = [report EXCEPT !.length = classification.length]
     \/ ShipMove("confidence", "send") /\ report' = [report EXCEPT !.confidence = classification.confidence]
  /\ UNCHANGED <<vars, round, alone>>

ShipSend ==
  /\ ShipMove("send", "idle")
  /\ report' = Blank
  /\ alone' = FALSE
  /\ UNCHANGED <<vars, round>>

------------------------------------------------------------------------------
TDetector ==
  \/ \E s \in {"clean", "anomalous"} : TScore(s)
  \/ TAct \/ TUpdate \/ Learn \/ Classify \/ Store

Others == (Poller \/ Drain) /\ UNCHANGED <<round, shipPc, report, alone>>

Ship == ShipState \/ ShipClassification \/ ShipSend

TNext == TDetector \/ Others \/ Ship

TSpec == TInit /\ [][TNext]_tvars

TFairSpec ==
  TSpec /\ WF_tvars(TDetector) /\ WF_tvars(PollerCommands /\ UNCHANGED <<round, shipPc, report, alone>>)

------------------------------------------------------------------------------
(* Properties *)

\* The baseline is not learnt from an attack: between two clean samples there
\* are fewer anomalous ones than confirm an attack, whatever the commands.
LearnsFromCalm == learned < AttackConfirm

\* A request that no round of the detector overlaps carries a whole
\* classification, and an attack type only with a state other than NORMAL:
\* neither scores nor commands leave a type behind.
ReportsAgree ==
  shipPc = "send" /\ alone =>
    /\ report.name = report.length
    /\ report.state = "NORMAL" => report.name \in {"NONE", ""} /\ report.confidence = 0
==============================================================================
