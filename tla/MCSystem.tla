------------------------------- MODULE MCSystem -------------------------------
EXTENDS System

CONSTANTS a1, a2

\* Agents differ by name only: they may be exchanged.
Interchangeable ==
  {[a \in Agents |-> a],
   [a \in Agents |-> IF a = a1 /\ a2 \in Agents THEN a2 ELSE IF a = a2 THEN a1 ELSE a]}
==============================================================================
