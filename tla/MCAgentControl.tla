---------------------------- MODULE MCAgentControl ----------------------------
(* Agents with either kind of detector, polling an aggregator or alone. *)
EXTENDS Telemetry

EveryAgent == [ensemble : BOOLEAN, polling : BOOLEAN]
SomeSignals == {[cards |-> 60, rate |-> 60, bytes |-> 60]}

\* A type whose three signals all speak is the one that is reported.
ASSUME AllSignalsDecide ==
  \A f \in [cards : {10, 21, 50, 51, 100, 101}, rate : {5, 6, 30, 31, 50, 51},
            bytes : {0, 79, 80, 99, 100, 500, 501}] :
    \A t \in DOMAIN Types : Matches(f)[t] = 3 => ClassifyAttack(f) = Classification(Types[t], 3)
==============================================================================
