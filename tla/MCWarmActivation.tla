-------------------------- MODULE MCWarmActivation --------------------------
(****************************************************************************)
(* Scale-up's activations on their own: a filled pool, several instances    *)
(* and invocations, and no refill.                                          *)
(****************************************************************************)
EXTENDS WarmActivation

CONSTANTS i1, i2, i3, p1, p2

\* i1 and i2 compete for the same capacity.
TwoPairs == [i \in Instance |-> IF i = i3 THEN p2 ELSE p1]

mcVars == <<index, fleetVars, activationVars, historyVars>>

\* Every instance has been primed and indexed.
Filled ==
  /\ index = [i \in Instance |-> [NoItem EXCEPT !.state = "WARM"]]
  /\ ec2 = [i \in Instance |-> "parked"]
  /\ tag = [i \in Instance |-> -1]
  /\ reg = [i \in Instance |-> "none"]
  /\ age = [i \in Instance |-> 0]
  /\ expires = [i \in Instance |-> Expiry]
  /\ owned = {}
  /\ events = {}
  /\ faults = MaxFaults
  /\ ActivationInit

\* The sweep or an operator terminates a standby instance behind the index's back.
Vanish(i) ==
  /\ ec2[i] \in Stopped
  /\ Fault
  /\ TerminateEffect(i)
  /\ UNCHANGED <<tag, reg, age, expires, owned, events>>

MCTick == IndexElapse /\ FleetElapse /\ ActivationElapse

MCNext ==
  \/ \E o \in Invocation : ActivationStep(o)
  \/ \E i \in Instance : (FleetStep(i) \/ Vanish(i)) /\ UNCHANGED <<index, activationVars, historyVars>>
  \/ MCTick

MCSpec == Filled /\ [][MCNext]_mcVars
=============================================================================
