----------------------------- MODULE SystemProofs -----------------------------
(***************************************************************************)
(* Theorems of System for every finite set of agents, every confirmation   *)
(* count and period, all phases of the tickers, lost calls and restarts.   *)
(***************************************************************************)
EXTENDS System, FiniteSetTheorems, TLAPS

\* The numbers apart from the flags.
CountsTyped ==
  /\ machine \in [Agents -> Machine]
  /\ heard \in [Agents -> Entry]
  /\ toPoll \in [Agents -> 1 .. PollEvery]
  /\ toShip \in [Agents -> 1 .. Window]
  /\ toCorr \in 1 .. Window
  /\ due \in [Agents -> SUBSET {"check", "poll", "ship"}]
  /\ hot \in [Agents -> 0 .. HotBound]
  /\ cold \in 0 .. ColdBound

FlagsTyped == defense \in BOOLEAN /\ corrDue \in BOOLEAN /\ confirmed \in BOOLEAN

LEMMA SplitTypes == TypeOK <=> CountsTyped /\ FlagsTyped
BY DEF TypeOK, CountsTyped, FlagsTyped

LEMMA SplitTypesNext == TypeOK' <=> CountsTyped' /\ FlagsTyped'
BY DEF TypeOK, CountsTyped, FlagsTyped

LEMMA Bounds ==
  /\ HotBound \in Nat /\ ColdBound \in Nat
  /\ AttackConfirm \in Nat /\ AttackConfirm >= 1
  /\ RecoveryConfirm \in Nat /\ RecoveryConfirm >= 1
  /\ Window \in Nat /\ Window >= 1
  /\ PollEvery \in Nat /\ PollEvery >= 1
  /\ Stale \in Nat /\ Stale >= Window
  /\ HotBound = AttackConfirm + 2 * Window + 1
BY SystemAssumption DEF HotBound, ColdBound

LEMMA CountUpToBound ==
  ASSUME NEW cap \in Nat, NEW n \in 0 .. cap
  PROVE  CountUpTo(n, cap) \in 0 .. cap /\ CountUpTo(n, cap) <= n + 1 /\ CountUpTo(n, cap) >= n
BY DEF CountUpTo

\* What a check makes of the state machine.
LEMMA MachineAfter ==
  ASSUME NEW m \in Machine
  PROVE  AfterAnomalous(m) \in Machine /\ AfterClean(m) \in Machine
<1>1. AfterAnomalous(m) \in Machine
  BY Bounds DEF AfterAnomalous, Machine, States, UnderAttack
<1>2. AfterClean(m) \in Machine
  BY Bounds DEF AfterClean, Machine, States, Normal
<1>3. QED
  BY <1>1, <1>2

LEMMA EntryAfter ==
  ASSUME NEW e \in Entry
  PROVE  Older(e) \in Entry /\ Older(e).state = e.state /\ Older(e).age <= e.age + 1
BY Bounds, CountUpToBound DEF Entry, Older

LEMMA Defaults == Normal \in Machine /\ UnderAttack \in Machine /\ Unheard \in Entry
BY Bounds DEF Normal, UnderAttack, Unheard, Machine, States, Entry

------------------------------------------------------------------------------
(* The types *)

LEMMA InitCounts == ASSUME Init PROVE CountsTyped
BY Bounds, Defaults DEF Init, CountsTyped

LEMMA CheckCounts ==
  ASSUME CountsTyped, NEW a \in Agents, NEW s \in {"clean", "anomalous"}, Check(a, s)
  PROVE  CountsTyped'
<1>1. machine' \in [Agents -> Machine]
  BY MachineAfter DEF CountsTyped, Check
<1>2. hot' \in [Agents -> 0 .. HotBound]
  <2>1. hot' = [hot EXCEPT ![a] = IF s = "anomalous" THEN CountUpTo(@, HotBound) ELSE 0]
    BY DEF Check
  <2>2. HotBound \in Nat /\ hot \in [Agents -> 0 .. HotBound]
    BY Bounds DEF CountsTyped
  <2>3. hot[a] \in 0 .. HotBound
    BY <2>2
  <2>4. CountUpTo(hot[a], HotBound) \in 0 .. HotBound
    BY <2>2, <2>3, CountUpToBound
  <2>5. QED
    BY <2>1, <2>2, <2>4
<1>3. cold' \in 0 .. ColdBound /\ due' \in [Agents -> SUBSET {"check", "poll", "ship"}]
  BY Bounds DEF CountsTyped, Check, Served
<1>4. QED
  BY <1>1, <1>2, <1>3 DEF CountsTyped, Check, timers

LEMMA TickCounts ==
  ASSUME CountsTyped, Tick
  PROVE  CountsTyped'
<1>1. heard' \in [Agents -> Entry]
  BY EntryAfter DEF CountsTyped, Tick
<1>2. /\ toPoll' \in [Agents -> 1 .. PollEvery]
      /\ toShip' \in [Agents -> 1 .. Window]
      /\ toCorr' \in 1 .. Window
  BY Bounds DEF CountsTyped, Tick, CountDown
<1>3. due' \in [Agents -> SUBSET {"check", "poll", "ship"}] /\ cold' \in 0 .. ColdBound
  BY Bounds, CountUpToBound DEF CountsTyped, Tick
<1>4. QED
  BY <1>1, <1>2, <1>3 DEF CountsTyped, Tick

LEMMA CountsStep ==
  ASSUME CountsTyped, [Next]_vars
  PROVE  CountsTyped'
<1>1. ASSUME NEW a \in Agents, AgentStep(a)
      PROVE  CountsTyped'
  <2>1. CASE \E s \in {"clean", "anomalous"} : Check(a, s)
    BY <2>1, CheckCounts
  <2>2. CASE PollAnswered(a)
    BY <2>2, Defaults DEF CountsTyped, PollAnswered, Served, timers, history
  <2>3. CASE PollFailed(a)
    BY <2>3 DEF CountsTyped, PollFailed, Served, timers, history
  <2>4. CASE ShipDelivered(a)
    BY <2>4, Bounds DEF CountsTyped, ShipDelivered, Served, timers, history, Entry
  <2>5. CASE ShipFailed(a)
    BY <2>5, Bounds DEF CountsTyped, ShipFailed, Served, timers
  <2>6. QED
    BY <1>1, <2>1, <2>2, <2>3, <2>4, <2>5 DEF AgentStep
<1>2. CASE Correlate
  BY <1>2, Defaults DEF CountsTyped, Correlate, timers, history
<1>3. CASE Restart
  BY <1>3, Defaults, Bounds DEF CountsTyped, Restart
<1>4. CASE Tick
  BY <1>4, TickCounts
<1>5. CASE UNCHANGED vars
  BY <1>5 DEF vars, timers, history, CountsTyped
<1>6. QED
  BY <1>1, <1>2, <1>3, <1>4, <1>5 DEF Next

LEMMA FlagsStep ==
  ASSUME FlagsTyped, [Next]_vars
  PROVE  FlagsTyped'
<1>1. ASSUME NEW a \in Agents, AgentStep(a)
      PROVE  FlagsTyped'
  BY <1>1, Zenon DEF FlagsTyped, AgentStep, Check, PollAnswered, PollFailed, ShipDelivered, ShipFailed, history
<1>2. CASE Correlate
  BY <1>2, Zenon DEF FlagsTyped, Correlate, MajorityAttacked, history
<1>3. CASE Restart
  BY <1>3, Zenon DEF FlagsTyped, Restart
<1>4. CASE Tick
  BY <1>4, Zenon DEF FlagsTyped, Tick
<1>5. CASE UNCHANGED vars
  BY <1>5, Zenon DEF vars, history, FlagsTyped
<1>6. QED
  BY <1>1, <1>2, <1>3, <1>4, <1>5 DEF Next

\* Every variable of the composed system keeps its type, the counters and ages
\* within their bounds.
THEOREM TypeCorrect == Spec => []TypeOK
<1>1. Init => TypeOK
  BY InitCounts, SplitTypes DEF Init, FlagsTyped
<1>2. TypeOK /\ [Next]_vars => TypeOK'
  BY SplitTypes, SplitTypesNext, CountsStep, FlagsStep
<1>3. QED
  BY <1>1, <1>2, PTL DEF Spec

------------------------------------------------------------------------------
(* No spontaneous defense *)

\* A majority of what is listed has a member.
LEMMA SomeAttacker ==
  ASSUME MajorityAttacked
  PROVE  \E a \in Agents : heard[a].state = "attack"
<1>1. IsFiniteSet(Listed) /\ Listed # {}
  BY FS_Subset, SystemAssumption DEF Listed, MajorityAttacked
<1>2. Cardinality(Listed) \in Nat /\ Cardinality(Listed) # 0
  BY <1>1, FS_CardinalityType, FS_EmptySet
<1>3. 2 * Cardinality(Attackers) >= Cardinality(Listed)
  BY DEF MajorityAttacked
<1>4. Attackers # {}
  <2>1. Cardinality({}) = 0
    BY FS_EmptySet
  <2>2. Attackers = {} => Cardinality(Attackers) = 0
    BY <2>1
  <2>3. QED
    BY <1>2, <1>3, <2>2
<1>5. QED
  BY <1>4 DEF Attackers, Listed

\* Only a check of the agent itself takes it out of NORMAL when there is no
\* command, and what it makes of it is not a recovery.
LEMMA CleanStaysNormal ==
  ASSUME NEW m, m.state = "NORMAL", NEW s \in {"clean", "anomalous"}, ~Confirms(m, s), m \in Machine
  PROVE  (IF s = "anomalous" THEN AfterAnomalous(m) ELSE AfterClean(m)).state = "NORMAL"
<1>1. CASE s = "anomalous"
  <2>1. m.attack + 1 < AttackConfirm
    BY <1>1, Bounds DEF Confirms, Machine
  <2>2. AfterAnomalous(m) = [m EXCEPT !.attack = m.attack + 1]
    BY <2>1 DEF AfterAnomalous
  <2>3. QED
    BY <1>1, <2>2 DEF Machine
<1>2. CASE s = "clean"
  BY <1>2 DEF AfterClean, Normal
<1>3. QED
  BY <1>1, <1>2

LEMMA SpontaneousStep ==
  ASSUME CountsTyped, FlagsTyped, NoSpontaneousDefense, [Next]_vars
  PROVE  NoSpontaneousDefense'
<1> SUFFICES ASSUME ~confirmed'
             PROVE  /\ ~defense'
                    /\ \A b \in Agents : machine'[b].state = "NORMAL" /\ heard'[b].state # "attack"
  BY Zenon DEF NoSpontaneousDefense
<1>1. ~confirmed
  <2>1. ASSUME NEW a \in Agents, AgentStep(a)
        PROVE  confirmed => confirmed'
    BY <2>1, Zenon DEF AgentStep, Check, PollAnswered, PollFailed, ShipDelivered, ShipFailed, history
  <2>2. QED
    BY <2>1, Zenon DEF Next, Correlate, Restart, Tick, vars, history
<1>2. ~defense /\ \A b \in Agents : machine[b].state = "NORMAL" /\ heard[b].state # "attack"
  BY <1>1, Zenon DEF NoSpontaneousDefense
<1>3. machine \in [Agents -> Machine] /\ heard \in [Agents -> Entry]
  BY DEF CountsTyped
<1>4. ASSUME NEW a \in Agents, NEW s \in {"clean", "anomalous"}, Check(a, s)
      PROVE  /\ ~defense'
             /\ \A b \in Agents : machine'[b].state = "NORMAL" /\ heard'[b].state # "attack"
  <2>1. UNCHANGED <<defense, heard>> /\ ~Confirms(machine[a], s)
    BY <1>4, Zenon DEF Check
  <2>2. machine' = [machine EXCEPT ![a] =
                      IF s = "anomalous" THEN AfterAnomalous(@) ELSE AfterClean(@)]
    BY <1>4 DEF Check
  <2>3. machine[a] \in Machine /\ machine[a].state = "NORMAL"
    BY <1>2, <1>3
  <2>4. machine'[a].state = "NORMAL"
    BY <1>3, <2>1, <2>2, <2>3, CleanStaysNormal
  <2>5. \A b \in Agents : b # a => machine'[b] = machine[b]
    BY <1>3, <2>2
  <2>6. QED
    BY <1>2, <2>1, <2>4, <2>5, Zenon
<1>5. ASSUME NEW a \in Agents, PollAnswered(a)
      PROVE  /\ ~defense'
             /\ \A b \in Agents : machine'[b].state = "NORMAL" /\ heard'[b].state # "attack"
  <2>1. machine' = machine
    BY <1>2, <1>3, <1>5 DEF PollAnswered, GetDefenseCommand
  <2>2. QED
    BY <1>2, <1>5, <2>1, Zenon DEF PollAnswered, GetDefenseCommand
<1>6. ASSUME NEW a \in Agents, ShipDelivered(a)
      PROVE  /\ ~defense'
             /\ \A b \in Agents : machine'[b].state = "NORMAL" /\ heard'[b].state # "attack"
  <2>1. heard' = [heard EXCEPT ![a] = [state |-> "calm", age |-> 0]]
    BY <1>2, <1>6 DEF ShipDelivered
  <2>2. UNCHANGED <<machine, defense>>
    BY <1>6 DEF ShipDelivered
  <2>3. \A b \in Agents : heard'[b].state # "attack"
    BY <1>2, <1>3, <2>1
  <2>4. QED
    BY <1>2, <2>2, <2>3, Zenon
<1>7. CASE \E a \in Agents : PollFailed(a) \/ ShipFailed(a)
  <2>1. UNCHANGED <<machine, heard, defense>>
    BY <1>7, Zenon DEF PollFailed, ShipFailed
  <2>2. QED
    BY <1>2, <2>1, Zenon
<1>8. CASE Correlate
  <2>1. ~MajorityAttacked
    BY <1>2, SomeAttacker
  <2>2. \A b \in Agents : heard'[b].state # "attack"
    BY <1>2, <1>8 DEF Correlate, Unheard
  <2>3. QED
    BY <1>2, <1>8, <2>1, <2>2, Zenon DEF Correlate
<1>9. CASE Restart
  <2>1. \A b \in Agents : heard'[b].state # "attack"
    BY <1>9 DEF Restart, Unheard
  <2>2. QED
    BY <1>2, <1>9, <2>1, Zenon DEF Restart
<1>10. CASE Tick
  <2>1. \A b \in Agents : heard'[b].state # "attack"
    BY <1>2, <1>3, <1>10, EntryAfter DEF Tick
  <2>2. QED
    BY <1>2, <1>10, <2>1, Zenon DEF Tick
<1>11. CASE UNCHANGED vars
  BY <1>2, <1>11, Zenon DEF vars
<1>12. QED
  BY <1>4, <1>5, <1>6, <1>7, <1>8, <1>9, <1>10, <1>11, Zenon DEF Next, AgentStep

\* Commands, reports, losses and restarts cannot start an attack by themselves,
\* however many agents there are and whatever the periods of their tickers.
THEOREM NothingFromNothing == Spec => []NoSpontaneousDefense
<1>1. Init => NoSpontaneousDefense
  BY DEF Init, NoSpontaneousDefense, Normal, Unheard
<1>2. TypeOK /\ NoSpontaneousDefense /\ [Next]_vars => NoSpontaneousDefense'
  BY SplitTypes, SpontaneousStep
<1>3. QED
  BY <1>1, <1>2, TypeCorrect, PTL DEF Spec

------------------------------------------------------------------------------
(* An attack is answered in time *)

\* The check of this second, while it is to be served.
Open(a) == IF "check" \in due[a] THEN 1 ELSE 0

\* Seconds since the last shipping tick that was served, and correlation.
SinceShip(a) == IF "ship" \in due[a] THEN Window ELSE Window - toShip[a]
SinceCorr == IF corrDue THEN Window ELSE Window - toCorr

\* Anomalous scores in a row are counted in NORMAL, or have led out of it.
CountedOrLeft ==
  \A a \in Agents :
    /\ machine[a].state = "NORMAL" =>
         hot[a] <= machine[a].attack /\ machine[a].attack < AttackConfirm
    /\ machine[a].state = "RECOVERY" => hot[a] = 0

\* Who was under attack at its last shipping tick is listed with an attack.
Reported ==
  \A a \in Agents :
    hot[a] + Open(a) > AttackConfirm + SinceShip(a) =>
      heard[a].state = "attack" /\ heard[a].age <= SinceShip(a)

\* Who would have decided the last correlation, and still does.
Decisive == {a \in Agents : hot[a] + Open(a) > AttackConfirm + Window + SinceCorr}

Decided == defense \/ 2 * Cardinality(Decisive) < Cardinality(Agents)

LEMMA Waits ==
  ASSUME CountsTyped
  PROVE  /\ \A a \in Agents : Open(a) \in 0 .. 1 /\ SinceShip(a) \in 0 .. Window
         /\ SinceCorr \in 0 .. Window
<1>1. Window \in Nat /\ toShip \in [Agents -> 1 .. Window] /\ toCorr \in 1 .. Window
  BY Bounds DEF CountsTyped
<1>2. ASSUME NEW a \in Agents
      PROVE  Open(a) \in 0 .. 1 /\ SinceShip(a) \in 0 .. Window
  BY <1>1 DEF Open, SinceShip
<1>3. SinceCorr \in 0 .. Window
  BY <1>1 DEF SinceCorr
<1>4. QED
  BY <1>2, <1>3

LEMMA WaitsNext ==
  ASSUME CountsTyped'
  PROVE  /\ \A a \in Agents : Open(a)' \in 0 .. 1 /\ SinceShip(a)' \in 0 .. Window
         /\ SinceCorr' \in 0 .. Window
<1>1. Window \in Nat /\ toShip' \in [Agents -> 1 .. Window] /\ toCorr' \in 1 .. Window
  BY Bounds DEF CountsTyped
<1>2. ASSUME NEW a \in Agents
      PROVE  Open(a)' \in 0 .. 1 /\ SinceShip(a)' \in 0 .. Window
  BY <1>1 DEF Open, SinceShip
<1>3. SinceCorr' \in 0 .. Window
  <2>1. SinceCorr' = Window \/ SinceCorr' = Window - toCorr'
    BY Zenon DEF SinceCorr
  <2>2. QED
    BY <1>1, <2>1
<1>4. QED
  BY <1>2, <1>3

\* No step but a tick lets anybody wait longer, and a score is counted once.
LEMMA ServedWaits ==
  ASSUME CountsTyped, CountsTyped', NEW a \in Agents, AgentStep(a), NEW b \in Agents
  PROVE  /\ hot'[b] + Open(b)' <= hot[b] + Open(b)
         /\ SinceShip(b)' = SinceShip(b) \/ (b = a /\ (ShipDelivered(a) \/ ShipFailed(a)))
         /\ UNCHANGED <<toShip, toCorr, corrDue, defense>>
<1>1. UNCHANGED <<toShip, toCorr, corrDue, defense>>
  BY Zenon DEF AgentStep, Check, PollAnswered, PollFailed, ShipDelivered, ShipFailed, timers
<1>2. PICK t \in {"check", "poll", "ship"} : due' = [due EXCEPT ![a] = @ \ {t}]
  BY DEF AgentStep, Check, PollAnswered, PollFailed, ShipDelivered, ShipFailed, Served
<1>3. due'[b] = IF b = a THEN due[b] \ {t} ELSE due[b]
  BY <1>2 DEF CountsTyped
<1>4. SinceShip(b)' = SinceShip(b) \/ (b = a /\ (ShipDelivered(a) \/ ShipFailed(a)))
  <2>1. CASE b # a
    BY <1>1, <1>3, <2>1 DEF SinceShip
  <2>2. CASE (\E s \in {"clean", "anomalous"} : Check(a, s)) \/ PollAnswered(a) \/ PollFailed(a)
    <3>1. due' = [due EXCEPT ![a] = @ \ {"check"}] \/ due' = [due EXCEPT ![a] = @ \ {"poll"}]
      BY <2>2 DEF Check, PollAnswered, PollFailed, Served
    <3>2. "ship" \in due'[b] <=> "ship" \in due[b]
      BY <3>1 DEF CountsTyped
    <3>3. QED
      BY <1>1, <3>2 DEF SinceShip
  <2>3. QED
    BY <2>1, <2>2 DEF AgentStep
<1>5. hot'[b] + Open(b)' <= hot[b] + Open(b)
  <2>1. ASSUME NEW s \in {"clean", "anomalous"}, Check(a, s)
        PROVE  hot'[b] + Open(b)' <= hot[b] + Open(b)
    <3>1. hot' = [hot EXCEPT ![a] = IF s = "anomalous" THEN CountUpTo(@, HotBound) ELSE 0]
      BY <2>1 DEF Check
    <3>2. due' = [due EXCEPT ![a] = @ \ {"check"}] /\ "check" \in due[a]
      BY <2>1 DEF Check, Served
    <3>3. hot \in [Agents -> 0 .. HotBound] /\ HotBound \in Nat /\ due \in [Agents -> SUBSET {"check", "poll", "ship"}]
      BY Bounds DEF CountsTyped
    <3>4. CASE b = a
      <4>1. Open(b)' = 0 /\ Open(b) = 1
        BY <3>2, <3>3, <3>4 DEF Open
      <4>2. hot'[b] <= hot[b] + 1 /\ hot[b] \in Nat /\ hot'[b] \in Nat
        <5>1. hot[b] \in 0 .. HotBound
          BY <3>3
        <5>2. CountUpTo(hot[b], HotBound) \in 0 .. HotBound /\ CountUpTo(hot[b], HotBound) <= hot[b] + 1
          BY <3>3, <5>1, CountUpToBound
        <5>3. hot'[b] = IF s = "anomalous" THEN CountUpTo(hot[b], HotBound) ELSE 0
          BY <3>1, <3>3, <3>4
        <5>4. QED
          BY <3>3, <5>1, <5>2, <5>3
      <4>3. QED
        BY <4>1, <4>2
    <3>5. CASE b # a
      <4>1. hot'[b] = hot[b] /\ due'[b] = due[b]
        BY <3>1, <3>2, <3>3, <3>5
      <4>2. Open(b)' = Open(b)
        BY <4>1 DEF Open
      <4>3. hot[b] + Open(b) \in Int
        BY <3>3, Waits
      <4>4. QED
        BY <4>1, <4>2, <4>3
    <3>6. QED
      BY <3>4, <3>5
  <2>2. ASSUME hot' = hot \/ hot' = [hot EXCEPT ![a] = 0]
        PROVE  hot'[b] + Open(b)' <= hot[b] + Open(b)
    <3>1. hot'[b] <= hot[b] /\ hot[b] \in Int /\ hot'[b] \in Int
      BY <2>2, Bounds DEF CountsTyped
    <3>2. Open(b)' <= Open(b) /\ Open(b) \in Int /\ Open(b)' \in Int
      BY <1>3, Waits, WaitsNext DEF Open
    <3>3. QED
      BY <3>1, <3>2
  <2>3. CASE PollAnswered(a) \/ PollFailed(a) \/ ShipDelivered(a) \/ ShipFailed(a)
    <3>1. hot' = hot \/ hot' = [hot EXCEPT ![a] = 0]
      BY <2>3, Zenon DEF PollAnswered, PollFailed, ShipDelivered, ShipFailed, history
    <3>2. QED
      BY <2>2, <3>1
  <2>4. QED
    BY <2>1, <2>3 DEF AgentStep
<1>6. QED
  BY <1>1, <1>4, <1>5

LEMMA CountedStep ==
  ASSUME CountsTyped, CountsTyped', CountedOrLeft, [Next]_vars
  PROVE  CountedOrLeft'
<1> SUFFICES ASSUME NEW b \in Agents
             PROVE  /\ machine'[b].state = "NORMAL" =>
                         hot'[b] <= machine'[b].attack /\ machine'[b].attack < AttackConfirm
                    /\ machine'[b].state = "RECOVERY" => hot'[b] = 0
  BY DEF CountedOrLeft
<1>1. /\ machine[b] \in Machine /\ hot[b] \in 0 .. HotBound
      /\ machine[b].state = "NORMAL" => hot[b] <= machine[b].attack /\ machine[b].attack < AttackConfirm
      /\ machine[b].state = "RECOVERY" => hot[b] = 0
  BY DEF CountsTyped, CountedOrLeft
<1>2. machine \in [Agents -> Machine] /\ hot \in [Agents -> 0 .. HotBound]
  BY DEF CountsTyped
<1>3. ASSUME NEW s \in {"clean", "anomalous"}, Check(b, s)
      PROVE  /\ machine'[b].state = "NORMAL" =>
                  hot'[b] <= machine'[b].attack /\ machine'[b].attack < AttackConfirm
             /\ machine'[b].state = "RECOVERY" => hot'[b] = 0
  <2>1. /\ machine'[b] = IF s = "anomalous" THEN AfterAnomalous(machine[b]) ELSE AfterClean(machine[b])
        /\ hot'[b] = IF s = "anomalous" THEN CountUpTo(hot[b], HotBound) ELSE 0
    BY <1>2, <1>3, Zenon DEF Check
  <2>2. CASE s = "clean"
    <3>1. hot'[b] = 0 /\ machine'[b] = AfterClean(machine[b])
      BY <2>1, <2>2
    <3>2. machine'[b].state = "NORMAL" => machine'[b] = Normal
      BY <1>1, <3>1 DEF AfterClean, Normal, Machine, States
    <3>3. QED
      BY <3>1, <3>2, Bounds DEF Normal
  <2>3. CASE s = "anomalous" /\ machine[b].state = "NORMAL"
    <3>1. hot'[b] <= hot[b] + 1 /\ hot'[b] \in Int
      <4>1. CountUpTo(hot[b], HotBound) \in 0 .. HotBound /\ CountUpTo(hot[b], HotBound) <= hot[b] + 1
        BY <1>1, Bounds, CountUpToBound
      <4>2. hot'[b] = CountUpTo(hot[b], HotBound)
        BY <2>1, <2>3
      <4>3. QED
        BY <4>1, <4>2, Bounds
    <3>2. machine'[b] = AfterAnomalous(machine[b])
      BY <2>1, <2>3
    <3>3. CASE machine[b].attack + 1 < AttackConfirm
      <4>1. machine'[b] = [machine[b] EXCEPT !.attack = machine[b].attack + 1]
        BY <2>3, <3>2, <3>3 DEF AfterAnomalous
      <4>2. machine'[b].attack = machine[b].attack + 1 /\ machine'[b].state = "NORMAL"
        BY <1>1, <2>3, <4>1 DEF Machine
      <4>3. QED
        BY <1>1, <2>3, <3>1, <3>3, <4>2, Bounds DEF Machine
    <3>4. CASE ~(machine[b].attack + 1 < AttackConfirm)
      BY <2>3, <3>2, <3>4 DEF AfterAnomalous, UnderAttack
    <3>5. QED
      BY <3>3, <3>4
  <2>4. CASE s = "anomalous" /\ machine[b].state # "NORMAL"
    <3>1. machine'[b].state = "UNDER_ATTACK"
      BY <2>1, <2>4 DEF AfterAnomalous, UnderAttack
    <3>2. QED
      BY <3>1
  <2>5. QED
    BY <2>2, <2>3, <2>4
<1>4. CASE PollAnswered(b)
  <2>1. hot'[b] = hot[b] /\ (machine'[b] = machine[b] \/ machine'[b] = UnderAttack)
    BY <1>2, <1>4, Zenon DEF PollAnswered, history
  <2>2. QED
    BY <1>1, <2>1 DEF UnderAttack
<1>5. ASSUME machine'[b] = machine[b], hot'[b] = hot[b] \/ hot'[b] = 0
      PROVE  /\ machine'[b].state = "NORMAL" =>
                  hot'[b] <= machine'[b].attack /\ machine'[b].attack < AttackConfirm
             /\ machine'[b].state = "RECOVERY" => hot'[b] = 0
  BY <1>1, <1>5 DEF Machine
<1>6. CASE PollFailed(b) \/ ShipDelivered(b) \/ ShipFailed(b)
  <2>1. machine'[b] = machine[b] /\ (hot'[b] = hot[b] \/ hot'[b] = 0)
    BY <1>2, <1>6, Zenon DEF PollFailed, ShipDelivered, ShipFailed, history
  <2>2. QED
    BY <1>5, <2>1
<1>7. ASSUME NEW a \in Agents, a # b, AgentStep(a)
      PROVE  machine'[b] = machine[b] /\ hot'[b] = hot[b]
  BY <1>2, <1>7, Zenon DEF AgentStep, Check, PollAnswered, PollFailed, ShipDelivered, ShipFailed, history
<1>8. CASE Correlate \/ Tick \/ Restart \/ UNCHANGED vars
  <2>1. machine'[b] = machine[b] /\ (hot'[b] = hot[b] \/ hot'[b] = 0)
    BY <1>8, Zenon DEF Correlate, Tick, Restart, vars, history
  <2>2. QED
    BY <1>5, <2>1
<1>9. QED
  BY <1>3, <1>4, <1>5, <1>6, <1>7, <1>8 DEF Next, AgentStep

LEMMA ReportedStep ==
  ASSUME CountsTyped, CountsTyped', CountedOrLeft, Reported, [Next]_vars
  PROVE  Reported'
<1> SUFFICES ASSUME NEW b \in Agents, hot'[b] + Open(b)' > AttackConfirm + SinceShip(b)'
             PROVE  heard'[b].state = "attack" /\ heard'[b].age <= SinceShip(b)'
  BY DEF Reported
<1>1. /\ hot[b] \in Nat /\ hot'[b] \in Nat
      /\ Open(b) \in 0 .. 1 /\ Open(b)' \in 0 .. 1
      /\ SinceShip(b) \in 0 .. Window /\ SinceShip(b)' \in 0 .. Window
      /\ machine[b] \in Machine /\ heard[b] \in Entry
  BY Waits, WaitsNext DEF CountsTyped
<1>2. hot[b] + Open(b) > AttackConfirm + SinceShip(b) =>
        heard[b].state = "attack" /\ heard[b].age <= SinceShip(b)
  BY DEF Reported
<1>3. CASE ShipDelivered(b)
  <2>1. hot'[b] = hot[b]
    BY <1>3 DEF ShipDelivered, history
  <2>2. heard'[b] = [state |-> IF machine[b].state = "UNDER_ATTACK" THEN "attack" ELSE "calm", age |-> 0]
    BY <1>3 DEF ShipDelivered, CountsTyped
  <2>3. machine[b].state # "UNDER_ATTACK" => hot[b] < AttackConfirm
    BY <1>1, Bounds DEF CountedOrLeft, Machine, States
  <2>4. machine[b].state = "UNDER_ATTACK"
    BY <1>1, <2>1, <2>3, Bounds
  <2>5. QED
    BY <1>1, <2>2, <2>4
<1>4. CASE ShipFailed(b)
  <2>1. hot'[b] = 0
    BY <1>4 DEF ShipFailed, CountsTyped
  <2>2. QED
    BY <1>1, <2>1, Bounds
<1>5. ASSUME NEW a \in Agents, AgentStep(a), ~(b = a /\ (ShipDelivered(a) \/ ShipFailed(a)))
      PROVE  heard'[b].state = "attack" /\ heard'[b].age <= SinceShip(b)'
  <2>1. hot'[b] + Open(b)' <= hot[b] + Open(b) /\ SinceShip(b)' = SinceShip(b)
    BY <1>5, ServedWaits
  <2>2. heard'[b] = heard[b]
    <3>1. heard' = heard \/ (a # b /\ ShipDelivered(a))
      BY <1>5, Zenon DEF AgentStep, Check, PollAnswered, PollFailed, ShipFailed
    <3>2. QED
      BY <3>1 DEF ShipDelivered, CountsTyped
  <2>3. QED
    BY <1>1, <1>2, <2>1, <2>2, Bounds
<1>6. CASE Correlate
  <2>1. UNCHANGED <<hot, due, toShip>>
    BY <1>6 DEF Correlate, timers, history
  <2>2. Open(b)' = Open(b) /\ SinceShip(b)' = SinceShip(b)
    BY <2>1 DEF Open, SinceShip
  <2>3. heard[b].state = "attack" /\ heard[b].age <= SinceShip(b)
    BY <1>2, <2>1, <2>2
  <2>4. b \in Listed
    BY <1>1, <2>3, Bounds DEF Listed, Entry
  <2>5. heard'[b] = heard[b]
    BY <1>6, <2>4 DEF Correlate
  <2>6. QED
    BY <2>2, <2>3, <2>5
<1>7. CASE Restart
  <2>1. hot'[b] = 0
    BY <1>7 DEF Restart
  <2>2. QED
    BY <1>1, <2>1, Bounds
<1>8. CASE Tick
  <2>1. /\ hot'[b] = hot[b] /\ due[b] = {}
        /\ toShip'[b] = CountDown(toShip[b], Window)
        /\ due'[b] = {"check"} \cup (IF toPoll[b] = 1 THEN {"poll"} ELSE {})
                               \cup (IF toShip[b] = 1 THEN {"ship"} ELSE {})
        /\ heard'[b] = Older(heard[b])
    BY <1>8 DEF Tick
  <2>2. Open(b) = 0 /\ SinceShip(b) = Window - toShip[b] /\ toShip[b] \in 1 .. Window
    BY <2>1 DEF Open, SinceShip, CountsTyped
  <2>3. SinceShip(b)' = SinceShip(b) + 1
    <3>1. CASE toShip[b] = 1
      BY <2>1, <2>2, <3>1, Bounds DEF SinceShip
    <3>2. CASE toShip[b] # 1
      <4>1. "ship" \notin due'[b] /\ toShip'[b] = toShip[b] - 1
        BY <2>1, <3>2 DEF CountDown
      <4>2. QED
        BY <2>2, <4>1, Bounds DEF SinceShip
    <3>3. QED
      BY <3>1, <3>2
  <2>4. heard[b].state = "attack" /\ heard[b].age <= SinceShip(b)
    BY <1>1, <1>2, <2>1, <2>2, <2>3, Bounds
  <2>5. Older(heard[b]).state = "attack" /\ Older(heard[b]).age <= heard[b].age + 1 /\ Older(heard[b]) \in Entry
    BY <1>1, <2>4, EntryAfter
  <2>6. QED
    BY <1>1, <2>1, <2>3, <2>4, <2>5 DEF Entry
<1>9. CASE UNCHANGED vars
  <2>1. UNCHANGED <<hot, due, toShip, heard>>
    BY <1>9 DEF vars, timers, history
  <2>2. Open(b)' = Open(b) /\ SinceShip(b)' = SinceShip(b)
    BY <2>1 DEF Open, SinceShip
  <2>3. QED
    BY <1>2, <2>1, <2>2
<1>10. QED
  BY <1>3, <1>4, <1>5, <1>6, <1>7, <1>8, <1>9 DEF Next

Minority(S) == 2 * Cardinality(S) < Cardinality(Agents)

LEMMA FewerIsMinority ==
  ASSUME NEW S \in SUBSET Agents, NEW T \in SUBSET S, Minority(S)
  PROVE  Minority(T)
<1>1. IsFiniteSet(S) /\ IsFiniteSet(T)
  BY FS_Subset, SystemAssumption
<1>2. Cardinality(T) <= Cardinality(S)
  BY <1>1, FS_Subset
<1>3. Cardinality(S) \in Nat /\ Cardinality(T) \in Nat /\ Cardinality(Agents) \in Nat
  BY <1>1, FS_CardinalityType, SystemAssumption
<1>4. QED
  BY <1>2, <1>3 DEF Minority

LEMMA NobodyIsMinority == Minority({})
<1>1. Cardinality({}) = 0 /\ Cardinality(Agents) # 0 /\ Cardinality(Agents) \in Nat
  BY FS_EmptySet, FS_CardinalityType, SystemAssumption
<1>2. QED
  BY <1>1 DEF Minority

LEMMA DecidedMeans == Decided <=> defense \/ Minority(Decisive)
BY Zenon DEF Decided, Minority

LEMMA DecidedMeansNext == Decided' <=> defense' \/ Minority(Decisive')
BY Zenon DEF Decided, Minority

\* A correlation that decides for no defense has less than half of the agents
\* listed with an attack, and so less than half of them decisive.
LEMMA CorrelateDecides ==
  ASSUME CountsTyped, CountsTyped', Reported, Correlate
  PROVE  defense' \/ Minority(Decisive')
<1> SUFFICES ASSUME ~MajorityAttacked
             PROVE  Minority(Decisive')
  BY Zenon DEF Correlate
<1>1. Decisive' \subseteq Attackers
  <2> SUFFICES ASSUME NEW a \in Agents, hot'[a] + Open(a)' > AttackConfirm + Window + SinceCorr'
               PROVE  a \in Attackers
    BY DEF Decisive
  <2>1. hot'[a] = hot[a] /\ due'[a] = due[a]
    BY DEF Correlate, history
  <2>2. Open(a)' = Open(a)
    BY <2>1 DEF Open
  <2>3. /\ hot[a] \in Nat /\ Open(a) \in 0 .. 1 /\ SinceShip(a) \in 0 .. Window
        /\ SinceCorr' \in 0 .. Window /\ heard[a] \in Entry
    BY Waits, WaitsNext DEF CountsTyped
  <2>4. hot[a] + Open(a) > AttackConfirm + SinceShip(a)
    BY <2>1, <2>2, <2>3, Bounds
  <2>5. heard[a].state = "attack" /\ heard[a].age <= SinceShip(a)
    BY <2>4 DEF Reported
  <2>6. QED
    BY <2>3, <2>5, Bounds DEF Attackers, Listed, Entry
<1>2. Attackers \subseteq Listed /\ Listed \subseteq Agents
  BY DEF Attackers, Listed
<1>3. CASE Listed = {}
  <2>1. Decisive' = {}
    BY <1>1, <1>2, <1>3
  <2>2. QED
    BY <2>1, NobodyIsMinority
<1>4. CASE Listed # {}
  <2>1. IsFiniteSet(Listed) /\ IsFiniteSet(Attackers) /\ Cardinality(Listed) <= Cardinality(Agents)
    BY <1>2, FS_Subset, SystemAssumption
  <2>2. Cardinality(Listed) \in Nat /\ Cardinality(Attackers) \in Nat /\ Cardinality(Agents) \in Nat
    BY <2>1, FS_CardinalityType, SystemAssumption
  <2>3. ~(2 * Cardinality(Attackers) >= Cardinality(Listed))
    BY <1>4 DEF MajorityAttacked
  <2>4. Minority(Attackers)
    BY <2>1, <2>2, <2>3 DEF Minority
  <2>5. QED
    BY <1>1, <1>2, <2>4, FewerIsMinority
<1>5. QED
  BY <1>3, <1>4

\* No other step makes an agent decisive without making the defense active.
LEMMA DecisiveShrinks ==
  ASSUME CountsTyped, CountsTyped', [Next]_vars, ~Correlate, ~Restart
  PROVE  Decisive' \subseteq Decisive /\ (defense' <=> defense)
<1>1. ASSUME NEW a \in Agents, AgentStep(a)
      PROVE  Decisive' \subseteq Decisive /\ (defense' <=> defense)
  <2>1. UNCHANGED <<toCorr, corrDue, defense>>
    BY <1>1, ServedWaits
  <2>2. SinceCorr' = SinceCorr
    BY <2>1 DEF SinceCorr
  <2>3. ASSUME NEW b \in Agents, hot'[b] + Open(b)' > AttackConfirm + Window + SinceCorr'
        PROVE  hot[b] + Open(b) > AttackConfirm + Window + SinceCorr
    <3>1. hot'[b] + Open(b)' <= hot[b] + Open(b)
      BY <1>1, ServedWaits
    <3>2. /\ hot[b] \in Nat /\ hot'[b] \in Nat /\ Open(b) \in 0 .. 1 /\ Open(b)' \in 0 .. 1
          /\ SinceCorr \in 0 .. Window
      BY Waits, WaitsNext DEF CountsTyped
    <3>3. QED
      BY <2>2, <2>3, <3>1, <3>2, Bounds
  <2>4. Decisive' \subseteq Decisive
    BY <2>3 DEF Decisive
  <2>5. QED
    BY <2>1, <2>4, Zenon
<1>2. CASE Tick
  <2>1. /\ UNCHANGED <<hot, defense>> /\ ~corrDue
        /\ toCorr' = CountDown(toCorr, Window) /\ (corrDue' <=> toCorr = 1)
        /\ \A a \in Agents : due[a] = {}
    BY <1>2, Zenon DEF Tick
  <2>2. SinceCorr = Window - toCorr /\ toCorr \in 1 .. Window /\ Window \in Nat
    BY <2>1, Bounds DEF SinceCorr, CountsTyped
  <2>3. SinceCorr' = SinceCorr + 1
    <3>1. CASE toCorr = 1
      <4>1. SinceCorr' = Window
        BY <2>1, <3>1, Zenon DEF SinceCorr
      <4>2. QED
        BY <2>2, <3>1, <4>1
    <3>2. CASE toCorr # 1
      <4>1. SinceCorr' = Window - toCorr'
        BY <2>1, <3>2, Zenon DEF SinceCorr
      <4>2. toCorr' = toCorr - 1
        BY <2>1, <3>2 DEF CountDown
      <4>3. QED
        BY <2>2, <4>1, <4>2
    <3>3. QED
      BY <3>1, <3>2
  <2>4. ASSUME NEW b \in Agents, hot'[b] + Open(b)' > AttackConfirm + Window + SinceCorr'
        PROVE  hot[b] + Open(b) > AttackConfirm + Window + SinceCorr
    <3>1. /\ hot[b] \in Nat /\ hot'[b] = hot[b] /\ Open(b) \in 0 .. 1 /\ Open(b)' \in 0 .. 1
          /\ SinceCorr \in 0 .. Window
      BY <2>1, Waits, WaitsNext DEF CountsTyped
    <3>2. QED
      BY <2>3, <2>4, <3>1, Bounds
  <2>5. Decisive' \subseteq Decisive
    BY <2>4 DEF Decisive
  <2>6. QED
    BY <2>1, <2>5, Zenon
<1>3. CASE UNCHANGED vars
  <2>1. UNCHANGED <<hot, due, toCorr, corrDue, defense>>
    BY <1>3, Zenon DEF vars, timers, history
  <2>2. Decisive' = Decisive
    BY <2>1 DEF Decisive, Open, SinceCorr
  <2>3. QED
    BY <2>1, <2>2, Zenon
<1>4. QED
  BY <1>1, <1>2, <1>3 DEF Next

LEMMA DecidedStep ==
  ASSUME CountsTyped, CountsTyped', Reported, Decided, [Next]_vars
  PROVE  Decided'
<1>1. CASE Correlate
  BY <1>1, CorrelateDecides, DecidedMeansNext
<1>2. CASE Restart
  <2>1. Decisive' = {}
    <3> SUFFICES ASSUME NEW a \in Agents, hot'[a] + Open(a)' > AttackConfirm + Window + SinceCorr'
                 PROVE  FALSE
      BY DEF Decisive
    <3>1. hot'[a] = 0 /\ Open(a)' \in 0 .. 1 /\ SinceCorr' \in 0 .. Window
      BY <1>2, WaitsNext DEF Restart
    <3>2. QED
      BY <3>1, Bounds
  <2>2. QED
    BY <2>1, NobodyIsMinority, DecidedMeansNext
<1>3. CASE ~Correlate /\ ~Restart
  <2>1. Decisive' \subseteq Decisive /\ (defense' <=> defense)
    BY <1>3, DecisiveShrinks
  <2>2. Decisive \in SUBSET Agents /\ Decisive' \in SUBSET Decisive
    BY <2>1 DEF Decisive
  <2>3. Minority(Decisive) => Minority(Decisive')
    BY <2>2, FewerIsMinority
  <2>4. QED
    BY <2>1, <2>3, DecidedMeans, DecidedMeansNext, Zenon
<1>4. QED
  BY <1>1, <1>2, <1>3

LEMMA InitTimed ==
  ASSUME Init, CountsTyped
  PROVE  CountedOrLeft /\ Reported /\ Decided
<1>1. CountedOrLeft
  BY Bounds DEF Init, CountedOrLeft, Normal
<1>2. ASSUME NEW a \in Agents
      PROVE  hot[a] + Open(a) = 0 /\ SinceShip(a) \in 0 .. Window /\ SinceCorr \in 0 .. Window
  BY Waits DEF Init, Open
<1>3. Reported
  BY <1>2, Bounds DEF Reported
<1>4. Decisive = {}
  BY <1>2, Bounds DEF Decisive
<1>5. QED
  BY <1>1, <1>3, <1>4, NobodyIsMinority, DecidedMeans

LEMMA HotDecides ==
  ASSUME CountsTyped, Decided
  PROVE  AnsweredInTime
<1>1. Hot \subseteq Decisive
  <2> SUFFICES ASSUME NEW a \in Agents, hot[a] >= HotBound
               PROVE  hot[a] + Open(a) > AttackConfirm + Window + SinceCorr
    BY DEF Hot, Decisive
  <2>1. hot[a] \in Nat /\ Open(a) \in 0 .. 1 /\ SinceCorr \in 0 .. Window
    BY Waits DEF CountsTyped
  <2>2. QED
    BY <2>1, Bounds
<1>2. Minority(Decisive) => Minority(Hot)
  BY <1>1, FewerIsMinority DEF Decisive
<1>3. Minority(Hot) => ~(2 * Cardinality(Hot) >= Cardinality(Agents))
  <2>1. Cardinality(Hot) \in Nat /\ Cardinality(Agents) \in Nat
    BY FS_Subset, FS_CardinalityType, SystemAssumption DEF Hot
  <2>2. QED
    BY <2>1 DEF Minority
<1>4. QED
  BY <1>2, <1>3, DecidedMeans, Zenon DEF AnsweredInTime

\* For every finite set of agents, all periods and phases of the tickers, and
\* whatever was lost or restarted before: half of the agents with anomalous
\* scores for AttackConfirm seconds and two windows have a global defense.
THEOREM AttackIsAnswered == Spec => []AnsweredInTime
<1> DEFINE IInv == CountedOrLeft /\ Reported /\ Decided
<1>1. Init => TypeOK /\ IInv
  <2>1. Init => CountsTyped
    BY InitCounts
  <2>2. Init => FlagsTyped
    BY DEF Init, FlagsTyped
  <2>3. QED
    BY <2>1, <2>2, InitTimed, SplitTypes
<1>2. TypeOK /\ TypeOK' /\ IInv /\ [Next]_vars => IInv'
  <2> SUFFICES ASSUME TypeOK, TypeOK', IInv, [Next]_vars
               PROVE  IInv'
    OBVIOUS
  <2>1. CountsTyped /\ CountsTyped'
    BY SplitTypes, SplitTypesNext
  <2>2. QED
    BY <2>1, CountedStep, ReportedStep, DecidedStep
<1>3. TypeOK /\ IInv => AnsweredInTime
  BY SplitTypes, HotDecides
<1>4. QED
  BY <1>1, <1>2, <1>3, TypeCorrect, PTL DEF Spec

------------------------------------------------------------------------------
(* The defense ends in time *)

Sheltered == \A a \in Agents : ~Exposed(a)

\* A tick that has not been served yet is one of this second.
OfThisSecond ==
  /\ \A a \in Agents : /\ "poll" \in due[a] => toPoll[a] = PollEvery
                       /\ "ship" \in due[a] => toShip[a] = Window
  /\ corrDue => toCorr = Window

\* Without anomalous scores nobody is under attack for long: until the check
\* of this second, or between a poll and the next check.
Escalated ==
  \A a \in Agents : machine[a].state = "UNDER_ATTACK" =>
    /\ cold >= 1 => "check" \in due[a] \/ toPoll[a] = PollEvery
    /\ cold >= 2 => \/ toPoll[a] = PollEvery
                    \/ "check" \in due[a] /\ toPoll[a] = PollEvery - 1

\* Who does not ship in such a moment reported its attack when it was one.
Outdated ==
  \A a \in Agents : ~Exposed(a) /\ heard[a].state = "attack" =>
    heard[a].age > Stale \/ heard[a].age + 1 >= cold

ToCorrelation == IF corrDue THEN 0 ELSE toCorr

\* A defense is over by the first correlation after the reports have grown stale.
Lifting == defense /\ Sheltered => cold + ToCorrelation < ColdBound

Ending == OfThisSecond /\ Escalated /\ Outdated /\ Lifting

\* Quotient and remainder are unique.
LEMMA Remainder ==
  ASSUME NEW P \in Nat \ {0}, NEW x \in Int, NEW q \in Int, NEW r \in 0 .. P - 1,
         x = q * P + r
  PROVE  x % P = r
<1>1. x % P \in 0 .. P - 1 /\ x \div P \in Int /\ x = P * (x \div P) + (x % P)
  OBVIOUS
<1> DEFINE d == x \div P
<1> DEFINE m == x % P
<1>2. d \in Int /\ m \in 0 .. P - 1 /\ q * P + r = P * d + m
  BY <1>1
<1> HIDE DEF d, m
<1>3. (q - d) * P = m - r
  BY <1>2
<1>4. q - d >= 1 => (q - d) * P >= P
  BY <1>2
<1>5. q - d <= -1 => (q - d) * P <= -P
  BY <1>2
<1>6. q - d = 0
  BY <1>2, <1>3, <1>4, <1>5
<1>7. m = r
  BY <1>2, <1>3, <1>6
<1>. QED
  BY <1>7 DEF m

\* A period more or less leaves the remainder.
LEMMA Shifted ==
  ASSUME NEW P \in Nat \ {0}, NEW x \in Int, NEW k \in Int
  PROVE  (x + k * P) % P = x % P
<1>1. x % P \in 0 .. P - 1 /\ x \div P \in Int /\ x = P * (x \div P) + (x % P)
  OBVIOUS
<1>2. x + k * P = ((x \div P) + k) * P + (x % P)
  BY <1>1
<1>3. x + k * P \in Int /\ x \div P + k \in Int
  BY <1>1
<1>. QED
  BY <1>1, <1>2, <1>3, Remainder

\* Every agent keeps its phase when windows are a whole number of polls.
LEMMA PhasesKept ==
  ASSUME CountsTyped, [Next]_vars, Window % PollEvery = 0, NEW a \in Agents
  PROVE  Exposed(a)' <=> Exposed(a)
<1>1. PollEvery \in Nat \ {0} /\ Window \in Nat
  BY Bounds
<1>2. toShip[a] \in 1 .. Window /\ toPoll[a] \in 1 .. PollEvery
  BY DEF CountsTyped
<1>3. CASE Tick
  <2>1. toShip'[a] = CountDown(toShip[a], Window) /\ toPoll'[a] = CountDown(toPoll[a], PollEvery)
    BY <1>3 DEF Tick
  <2> DEFINE w == Window \div PollEvery
  <2>2. w \in Int /\ Window = w * PollEvery
    BY <1>1
  <2> HIDE DEF w
  <2>3. PICK i \in {0, w} : CountDown(toShip[a], Window) = toShip[a] - 1 + i * PollEvery
    BY <1>1, <1>2, <2>2 DEF CountDown
  <2>4. PICK j \in {0, 1} : CountDown(toPoll[a], PollEvery) = toPoll[a] - 1 + j * PollEvery
    BY <1>1, <1>2 DEF CountDown
  <2>5. toShip'[a] - toPoll'[a] = (toShip[a] - toPoll[a]) + (i - j) * PollEvery
    BY <1>1, <1>2, <2>1, <2>2, <2>3, <2>4
  <2>6. toShip[a] - toPoll[a] \in Int /\ i - j \in Int
    BY <1>1, <1>2, <2>2
  <2>7. (toShip'[a] - toPoll'[a]) % PollEvery = (toShip[a] - toPoll[a]) % PollEvery
    BY <1>1, <2>5, <2>6, Shifted
  <2>8. QED
    BY <2>7 DEF Exposed
<1>4. CASE ~Tick
  <2>1. UNCHANGED <<toPoll, toShip>>
    BY <1>4, Zenon DEF Next, AgentStep, Check, PollAnswered, PollFailed, ShipDelivered, ShipFailed,
         Correlate, Restart, vars, timers, history
  <2>2. QED
    BY <2>1 DEF Exposed
<1>5. QED
  BY <1>3, <1>4

LEMMA OfThisSecondStep ==
  ASSUME CountsTyped, OfThisSecond, [Next]_vars
  PROVE  OfThisSecond'
<1>1. CASE Tick
  <2>1. ASSUME NEW a \in Agents
        PROVE  /\ "poll" \in due'[a] => toPoll'[a] = PollEvery
               /\ "ship" \in due'[a] => toShip'[a] = Window
    BY <1>1 DEF Tick, CountDown
  <2>2. corrDue' => toCorr' = Window
    BY <1>1 DEF Tick, CountDown
  <2>3. QED
    BY <2>1, <2>2 DEF OfThisSecond
<1>2. ASSUME NEW a \in Agents, AgentStep(a)
      PROVE  OfThisSecond'
  <2>1. UNCHANGED <<toPoll, toShip, toCorr, corrDue>>
    BY <1>2, Zenon DEF AgentStep, Check, PollAnswered, PollFailed, ShipDelivered, ShipFailed, timers, history
  <2>2. PICK tick : Served(a, tick)
    BY <1>2, Zenon DEF AgentStep, Check, PollAnswered, PollFailed, ShipDelivered, ShipFailed
  <2>3. \A b \in Agents : due'[b] \subseteq due[b]
    BY <2>2 DEF Served, CountsTyped
  <2>4. \A b \in Agents : /\ "poll" \in due'[b] => toPoll'[b] = PollEvery
                          /\ "ship" \in due'[b] => toShip'[b] = Window
    BY <2>1, <2>3 DEF OfThisSecond
  <2>5. corrDue' => toCorr' = Window
    BY <2>1, Zenon DEF OfThisSecond
  <2>6. QED
    BY <2>4, <2>5, Zenon DEF OfThisSecond
<1>3. CASE Correlate
  BY <1>3, Zenon DEF Correlate, OfThisSecond, timers
<1>4. CASE Restart
  BY <1>4, Zenon DEF Restart, OfThisSecond
<1>5. CASE UNCHANGED vars
  BY <1>5, Zenon DEF vars, timers, OfThisSecond
<1>6. QED
  BY <1>1, <1>2, <1>3, <1>4, <1>5 DEF Next

\* What was escalated meets a clean score: a check without one is no anomaly.
LEMMA EscalatedStep ==
  ASSUME CountsTyped, OfThisSecond, Escalated, [Next]_vars
  PROVE  Escalated'
<1>1. /\ machine \in [Agents -> Machine] /\ cold \in Nat
      /\ due \in [Agents -> SUBSET {"check", "poll", "ship"}]
      /\ toPoll \in [Agents -> 1 .. PollEvery] /\ PollEvery \in Nat /\ PollEvery >= 1
  BY Bounds DEF CountsTyped
<1>2. ASSUME NEW a \in Agents, NEW s \in {"clean", "anomalous"}, Check(a, s)
      PROVE  Escalated'
  <2>1. CASE s = "anomalous"
    <3>1. cold' = 0
      BY <1>2, <2>1 DEF Check
    <3>2. QED
      BY <3>1 DEF Escalated
  <2>2. CASE s = "clean"
    <3>1. UNCHANGED <<cold, toPoll>>
      BY <1>2, <2>2 DEF Check, timers
    <3>2. machine'[a] = AfterClean(machine[a])
      BY <1>1, <1>2, <2>2 DEF Check
    <3>3. machine'[a].state # "UNDER_ATTACK"
      BY <1>1, <3>2 DEF AfterClean, Normal, Machine, States
    <3>4. \A b \in Agents : b # a => machine'[b] = machine[b] /\ due'[b] = due[b]
      BY <1>1, <1>2 DEF Check, Served
    <3>5. QED
      BY <3>1, <3>3, <3>4 DEF Escalated
  <2>3. QED
    BY <2>1, <2>2
<1>3. ASSUME NEW a \in Agents, PollAnswered(a)
      PROVE  Escalated'
  <2>1. UNCHANGED <<cold, toPoll>> /\ toPoll[a] = PollEvery
    BY <1>3 DEF PollAnswered, timers, history, OfThisSecond
  <2>2. \A b \in Agents : b # a => machine'[b] = machine[b] /\ due'[b] = due[b]
    BY <1>1, <1>3 DEF PollAnswered, Served
  <2>3. QED
    BY <2>1, <2>2 DEF Escalated
<1>4. ASSUME NEW a \in Agents, PollFailed(a) \/ ShipDelivered(a) \/ ShipFailed(a)
      PROVE  Escalated'
  <2>1. UNCHANGED <<machine, cold, toPoll>>
    BY <1>4 DEF PollFailed, ShipDelivered, ShipFailed, timers, history
  <2>2. PICK tick \in {"poll", "ship"} : Served(a, tick)
    BY <1>4 DEF PollFailed, ShipDelivered, ShipFailed
  <2>3. \A b \in Agents : "check" \in due[b] => "check" \in due'[b]
    BY <1>1, <2>2 DEF Served
  <2>4. QED
    BY <2>1, <2>3 DEF Escalated
<1>5. CASE Tick
  <2>1. machine' = machine /\ \A a \in Agents : "check" \in due'[a] /\ due[a] = {}
    BY <1>5 DEF Tick
  <2> SUFFICES ASSUME NEW a \in Agents, machine[a].state = "UNDER_ATTACK", cold' >= 2
               PROVE  toPoll'[a] = PollEvery \/ toPoll'[a] = PollEvery - 1
    BY <2>1 DEF Escalated
  <2>2. cold >= 1
    BY <1>1, <1>5 DEF Tick, CountUpTo
  <2>3. toPoll[a] = PollEvery
    BY <2>1, <2>2 DEF Escalated
  <2>4. QED
    BY <1>1, <1>5, <2>3 DEF Tick, CountDown
<1>6. CASE Correlate \/ Restart \/ UNCHANGED vars
  <2>1. UNCHANGED <<machine, cold, toPoll, due>>
    BY <1>6, Zenon DEF Correlate, Restart, vars, timers, history
  <2>2. QED
    BY <2>1 DEF Escalated
<1>7. QED
  BY <1>2, <1>3, <1>4, <1>5, <1>6 DEF Next, AgentStep

\* A shipping tick of the second of a poll, or of the next, is exposed.
LEMMA ShipsSheltered ==
  ASSUME CountsTyped, OfThisSecond, Escalated, Window % PollEvery = 0,
         NEW a \in Agents, ShipDelivered(a), ~Exposed(a), machine[a].state = "UNDER_ATTACK"
  PROVE  cold <= 1
<1> SUFFICES ASSUME cold >= 2
             PROVE  FALSE
  BY DEF CountsTyped
<1>1. PollEvery \in Nat \ {0} /\ Window \in Nat /\ toShip[a] = Window
  BY Bounds DEF ShipDelivered, OfThisSecond
<1>2. toPoll[a] = PollEvery \/ toPoll[a] = PollEvery - 1
  BY DEF Escalated
<1> DEFINE w == Window \div PollEvery
<1>3. w \in Int /\ Window = w * PollEvery
  BY <1>1
<1> HIDE DEF w
<1>4. PICK r \in {0, 1} : Window - toPoll[a] = r + (w - 1) * PollEvery
  BY <1>1, <1>2, <1>3
<1>5. (r + (w - 1) * PollEvery) % PollEvery = r % PollEvery
  <2>1. r \in Int /\ w - 1 \in Int
    BY <1>3
  <2>2. QED
    BY <1>1, <2>1, Shifted
<1>6. r % PollEvery \in {0, 1}
  <2>1. r \in Nat
    OBVIOUS
  <2>2. r % PollEvery \in 0 .. PollEvery - 1
    BY <1>1, <2>1
  <2>3. CASE PollEvery = 1
    BY <2>2, <2>3
  <2>4. CASE PollEvery > 1
    <3>1. r = 0 * PollEvery + r /\ r \in 0 .. PollEvery - 1
      BY <1>1, <2>4
    <3>2. QED
      BY <1>1, <3>1, Remainder
  <2>5. QED
    BY <1>1, <2>3, <2>4
<1>7. QED
  BY <1>1, <1>4, <1>5, <1>6 DEF Exposed

LEMMA OutdatedStep ==
  ASSUME CountsTyped, OfThisSecond, Escalated, Outdated, [Next]_vars, Window % PollEvery = 0
  PROVE  Outdated'
<1>1. /\ heard \in [Agents -> Entry] /\ cold \in Nat /\ Stale \in Nat
      /\ \A a \in Agents : heard[a].age \in Nat /\ heard[a].age <= Stale + 1
  BY Bounds DEF CountsTyped, Entry
<1>2. \A a \in Agents : Exposed(a)' <=> Exposed(a)
  BY PhasesKept
<1>3. ASSUME NEW a \in Agents, NEW s \in {"clean", "anomalous"}, Check(a, s)
      PROVE  Outdated'
  <2>1. heard' = heard /\ (cold' = cold \/ cold' = 0)
    BY <1>3 DEF Check
  <2>2. QED
    BY <1>1, <1>2, <2>1 DEF Outdated
<1>4. ASSUME NEW a \in Agents, ShipDelivered(a)
      PROVE  Outdated'
  <2>1. cold' = cold /\ \A b \in Agents : b # a => heard'[b] = heard[b]
    BY <1>1, <1>4 DEF ShipDelivered, history
  <2>2. heard'[a] = [state |-> IF machine[a].state = "UNDER_ATTACK" THEN "attack" ELSE "calm", age |-> 0]
    BY <1>1, <1>4 DEF ShipDelivered
  <2>3. ~Exposed(a) /\ machine[a].state = "UNDER_ATTACK" => cold <= 1
    BY <1>4, ShipsSheltered
  <2>4. ASSUME NEW b \in Agents, ~Exposed(b), heard'[b].state = "attack"
        PROVE  heard'[b].age > Stale \/ heard'[b].age + 1 >= cold
    <3>1. CASE b # a
      BY <2>1, <2>4, <3>1 DEF Outdated
    <3>2. CASE b = a
      <4>1. machine[a].state = "UNDER_ATTACK" /\ heard'[a].age = 0
        BY <2>2, <2>4, <3>2
      <4>2. cold <= 1
        BY <2>3, <2>4, <3>2, <4>1
      <4>3. QED
        BY <1>1, <3>2, <4>1, <4>2
    <3>3. QED
      BY <3>1, <3>2
  <2>5. QED
    BY <1>2, <2>1, <2>4 DEF Outdated
<1>5. CASE Tick
  <2>1. cold' <= cold + 1 /\ cold' \in Nat
    BY <1>1, <1>5, Bounds DEF Tick, CountUpTo
  <2>2. ASSUME NEW b \in Agents
        PROVE  /\ heard'[b].state = heard[b].state
               /\ heard'[b].age = IF heard[b].age < Stale + 1 THEN heard[b].age + 1 ELSE Stale + 1
    BY <1>5 DEF Tick, Older, CountUpTo
  <2>3. ASSUME NEW b \in Agents, ~Exposed(b), heard'[b].state = "attack"
        PROVE  heard'[b].age > Stale \/ heard'[b].age + 1 >= cold'
    <3>1. heard[b].age > Stale \/ heard[b].age + 1 >= cold
      BY <2>2, <2>3 DEF Outdated
    <3>2. QED
      BY <1>1, <2>1, <2>2, <3>1
  <2>4. QED
    BY <1>2, <2>3 DEF Outdated
<1>6. CASE Correlate \/ Restart
  <2>1. cold' = cold
    BY <1>6 DEF Correlate, Restart, history
  <2>2. \A b \in Agents : heard'[b] = heard[b] \/ heard'[b] = Unheard
    BY <1>6 DEF Correlate, Restart
  <2>3. QED
    BY <1>2, <2>1, <2>2 DEF Outdated, Unheard
<1>7. CASE UNCHANGED vars \/ \E a \in Agents : PollAnswered(a) \/ PollFailed(a) \/ ShipFailed(a)
  <2>1. UNCHANGED <<heard, cold>>
    BY <1>7, Zenon DEF PollAnswered, PollFailed, ShipFailed, vars, history
  <2>2. QED
    BY <1>2, <2>1 DEF Outdated
<1>8. QED
  BY <1>3, <1>4, <1>5, <1>6, <1>7 DEF Next, AgentStep

\* When the last attack has grown stale, a correlation finds no attacker.
LEMMA CorrelateLifts ==
  ASSUME CountsTyped, Outdated, Sheltered, cold >= Stale + 2
  PROVE  ~MajorityAttacked
<1>1. Attackers = {}
  <2> SUFFICES ASSUME NEW a \in Agents, heard[a].state = "attack", heard[a].age <= Stale
               PROVE  FALSE
    BY DEF Attackers, Listed
  <2>1. heard[a].age \in Nat /\ cold \in Nat /\ Stale \in Nat
    BY Bounds DEF CountsTyped, Entry
  <2>2. heard[a].age > Stale \/ heard[a].age + 1 >= cold
    BY DEF Outdated, Sheltered
  <2>3. QED
    BY <2>1, <2>2
<1>2. IsFiniteSet(Listed) /\ (Listed # {} => Cardinality(Listed) \in Nat /\ Cardinality(Listed) # 0)
  BY FS_Subset, FS_CardinalityType, FS_EmptySet, SystemAssumption DEF Listed
<1>3. Cardinality(Attackers) = 0
  BY <1>1, FS_EmptySet
<1>4. QED
  BY <1>2, <1>3 DEF MajorityAttacked

\* A second brings the correlation as much nearer as it lets the attack recede.
LEMMA OneMoreOneLess ==
  ASSUME NEW c \in Int, NEW d \in Int, NEW t \in Int, NEW b \in Int, c + t < b, d <= c + 1
  PROVE  d + (t - 1) < b
OBVIOUS

LEMMA LiftingStep ==
  ASSUME CountsTyped, OfThisSecond, Escalated, Outdated, Lifting, [Next]_vars, Window % PollEvery = 0
  PROVE  Lifting'
<1> SUFFICES ASSUME defense', Sheltered'
             PROVE  cold' + ToCorrelation' < ColdBound
  BY DEF Lifting
<1>1. Sheltered
  BY PhasesKept DEF Sheltered
<1>2. /\ cold \in Nat /\ toCorr \in 1 .. Window /\ Window \in Nat /\ Window >= 1
      /\ Stale \in Nat /\ Stale >= Window /\ ColdBound = Stale + Window + 2
  BY Bounds DEF CountsTyped, ColdBound
<1>3. defense => cold + ToCorrelation < ColdBound
  BY <1>1, Zenon DEF Lifting
<1>4. ASSUME NEW a \in Agents, NEW s \in {"clean", "anomalous"}, Check(a, s)
      PROVE  cold' + ToCorrelation' < ColdBound
  <2>1. UNCHANGED <<defense, toCorr, corrDue>>
    BY <1>4 DEF Check, timers
  <2>2. cold + ToCorrelation < ColdBound /\ ToCorrelation' = ToCorrelation
    BY <1>3, <2>1, Zenon DEF ToCorrelation
  <2>3. cold' = cold \/ cold' = 0
    BY <1>4 DEF Check
  <2>4. ToCorrelation \in Nat
    BY <1>2 DEF ToCorrelation
  <2>5. QED
    BY <1>2, <2>2, <2>3, <2>4
<1>5. CASE Tick
  <2>1. defense /\ ~corrDue
    BY <1>5, Zenon DEF Tick
  <2>2. toCorr' = CountDown(toCorr, Window) /\ corrDue' = (toCorr = 1) /\ cold' = CountUpTo(cold, ColdBound)
    BY <1>5 DEF Tick
  <2>3. cold + toCorr < ColdBound
    BY <1>3, <2>1, Zenon DEF ToCorrelation
  <2>4. ToCorrelation' = toCorr - 1
    <3>1. CASE toCorr = 1
      <4>1. corrDue'
        BY <2>2, <3>1, Zenon
      <4>2. ToCorrelation' = 0
        BY <4>1, Zenon DEF ToCorrelation
      <4>3. QED
        BY <3>1, <4>2
    <3>2. CASE toCorr # 1
      <4>1. ~corrDue' /\ toCorr' = toCorr - 1
        BY <2>2, <3>2, Zenon DEF CountDown
      <4>2. QED
        BY <4>1, Zenon DEF ToCorrelation
    <3>3. QED
      BY <3>1, <3>2
  <2>5. cold' <= cold + 1 /\ cold' \in Nat
    BY <1>2, <2>2 DEF CountUpTo
  <2>6. cold' + (toCorr - 1) < ColdBound
    <3>1. toCorr \in Int /\ cold \in Int /\ cold' \in Int /\ ColdBound \in Int
      BY <1>2, <2>5, Bounds
    <3>2. QED
      BY <2>3, <2>5, <3>1, OneMoreOneLess
  <2>7. QED
    BY <2>4, <2>6, Zenon
<1>6. CASE Correlate
  <2>1. MajorityAttacked /\ cold' = cold /\ ~corrDue' /\ toCorr' = toCorr /\ corrDue
    BY <1>6, Zenon DEF Correlate, history, timers
  <2>2. cold < Stale + 2
    BY <1>1, <1>2, <2>1, CorrelateLifts
  <2>3. toCorr = Window
    BY <2>1, Zenon DEF OfThisSecond
  <2>4. ToCorrelation' = Window
    BY <2>1, <2>3, Zenon DEF ToCorrelation
  <2>5. QED
    BY <1>2, <2>1, <2>2, <2>4
<1>7. CASE Restart
  BY <1>7, Zenon DEF Restart
<1>8. CASE UNCHANGED vars \/ \E a \in Agents : PollAnswered(a) \/ PollFailed(a)
                                                 \/ ShipDelivered(a) \/ ShipFailed(a)
  <2>1. UNCHANGED <<defense, toCorr, corrDue, cold>>
    BY <1>8, Zenon DEF PollAnswered, PollFailed, ShipDelivered, ShipFailed, vars, timers, history
  <2>2. QED
    BY <1>3, <2>1, Zenon DEF ToCorrelation
<1>9. QED
  BY <1>4, <1>5, <1>6, <1>7, <1>8 DEF Next, AgentStep

LEMMA InitEnding ==
  ASSUME Init
  PROVE  Ending
<1>1. OfThisSecond
  BY Zenon DEF Init, OfThisSecond
<1>2. Escalated
  BY DEF Init, Escalated, Normal
<1>3. Outdated
  BY DEF Init, Outdated, Unheard
<1>4. Lifting
  BY Zenon DEF Init, Lifting
<1>5. QED
  BY <1>1, <1>2, <1>3, <1>4 DEF Ending

\* For every finite set of agents and all periods and phases, as long as a window
\* is a whole number of polls: when nobody who ships in the second of a poll, or
\* in the next, is there to report an escalation as an attack of its own, the
\* defense is over once the last attack has grown stale and been correlated.
THEOREM DefenseEnds == ASSUME Window % PollEvery = 0 PROVE Spec => []EndsInTime
<1>1. Init => Ending
  BY InitEnding
<1>2. TypeOK /\ Ending /\ [Next]_vars => Ending'
  <2> SUFFICES ASSUME TypeOK, Ending, [Next]_vars
               PROVE  Ending'
    OBVIOUS
  <2>1. CountsTyped /\ OfThisSecond /\ Escalated /\ Outdated /\ Lifting
    BY SplitTypes DEF Ending
  <2>2. OfThisSecond' /\ Escalated'
    BY <2>1, OfThisSecondStep, EscalatedStep
  <2>3. Outdated' /\ Lifting'
    BY <2>1, OutdatedStep, LiftingStep
  <2>4. QED
    BY <2>2, <2>3 DEF Ending
<1>3. TypeOK /\ Ending => EndsInTime
  <2> SUFFICES ASSUME TypeOK, Ending, cold >= ColdBound, Sheltered, defense
               PROVE  FALSE
    BY DEF EndsInTime, Sheltered
  <2>1. CountsTyped
    BY SplitTypes
  <2>2. cold + ToCorrelation < ColdBound
    BY Zenon DEF Ending, Lifting
  <2>3. cold \in Nat /\ ToCorrelation \in Nat /\ ColdBound \in Nat
    BY <2>1, Bounds DEF CountsTyped, ToCorrelation
  <2>4. QED
    BY <2>2, <2>3
<1>4. QED
  BY <1>1, <1>2, <1>3, TypeCorrect, PTL DEF Spec
==============================================================================
