------------------------------- MODULE Firewall -------------------------------
(***************************************************************************)
(* ddos/firewall.NSGController and the deny-all rule it keeps in a network *)
(* security group of Azure.                                                *)
(*                                                                         *)
(* Both methods start a remote operation and poll it until it is done.     *)
(* "failed": an error, and the rule is as it was.  "lost": an error,       *)
(* because an answer was lost or the context expired, but the operation    *)
(* goes through.  c.mu is held throughout, so a call is one step.          *)
(***************************************************************************)
CONSTANT ApiOutcomes  \* what a call of the Azure API may come to

ASSUME FirewallAssumption == ApiOutcomes \subseteq {"done", "failed", "lost"}

VARIABLES
  locked,  \* c.locked, what the controller believes
  rule     \* the rule is in the security group

nsg == <<locked, rule>>

NsgTypeOK == locked \in BOOLEAN /\ rule \in BOOLEAN

NsgInit == locked = FALSE /\ rule = FALSE

\* Mutant of Lockdown: the controller believes an operation that failed.
LockdownBelieves(outcome) ==
  IF locked THEN UNCHANGED nsg
  ELSE /\ rule' = (rule \/ outcome # "failed")
       /\ locked' = TRUE

\* Lockdown: nothing to do when it is locked already.
Lockdown(outcome) ==
  IF locked THEN UNCHANGED nsg
  ELSE /\ rule' = (rule \/ outcome # "failed")
       /\ locked' = (outcome = "done")

\* Unlock: nothing to do when the controller believes there is no rule.
Unlock(outcome) ==
  IF ~locked THEN UNCHANGED nsg
  ELSE /\ rule' = (rule /\ outcome = "failed")
       /\ locked' = (outcome # "done")

\* A new process knows of no rule; the security group keeps what it has.
ForgetRule == locked' = FALSE /\ UNCHANGED rule
==============================================================================
