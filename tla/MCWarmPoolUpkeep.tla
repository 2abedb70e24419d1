-------------------------- MODULE MCWarmPoolUpkeep --------------------------
(****************************************************************************)
(* The pool and the Lambdas that look after it, under fairness, in one of   *)
(* two scenes: an instance with an invocation, the other one being gone; or *)
(* two instances far from their expiry, and no invocation.                  *)
(****************************************************************************)
EXTENDS MCWarmPool

VARIABLE young \* the second scene, chosen at the start

UpkeepInit ==
  /\ young \in BOOLEAN
  /\ IndexInit /\ ActivationInit /\ ReconcileInit
  /\ ec2 = [i \in Instance |-> IF i = i2 /\ ~young THEN "terminated" ELSE "none"]
  /\ tag = [i \in Instance |-> -1]
  /\ reg = [i \in Instance |-> "none"]
  /\ age = [i \in Instance |-> 0]
  /\ expires = [i \in Instance |-> Expiry]
  /\ owned = {}
  /\ events = {}
  /\ faults = MaxFaults

UpkeepTick ==
  /\ ActivationElapse
  /\ IndexElapse
  /\ ClocksElapse
  /\ IF young THEN UNCHANGED expires ELSE ExpiryElapses
  /\ ReconcileElapse

UpkeepNext ==
  /\ (Step /\ (young => UNCHANGED phase)) \/ UpkeepTick
  /\ UNCHANGED young

UpkeepSpec ==
  UpkeepInit /\ [][UpkeepNext]_<<vars, young>> /\ StepFairness /\ WF_vars(UpkeepTick)
=============================================================================
