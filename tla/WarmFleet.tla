------------------------------ MODULE WarmFleet ------------------------------
(****************************************************************************)
(* The warm-pool instances themselves: their EC2 state and tags, the boot   *)
(* script every one of them runs on each boot                               *)
(* (modules/runners/templates/start-runner.sh), the runner registration it  *)
(* waits for, and the EC2 state change events the stops produce.            *)
(*                                                                          *)
(* Timestamps are the time since they were written, up to the last value    *)
(* any guard tells apart (an absent tag is -1), or the time left until they *)
(* pass.  On-demand instances only: an instance id is never used twice.     *)
(****************************************************************************)
EXTENDS WarmIndex

CONSTANTS
  Grace,      \* WARM_ACTIVATION_GRACE_MS, in ticks
  BootTime,   \* RUNNER_BOOT_TIME_IN_MINUTES, in ticks
  Expiry,     \* ghr:warm-expires-at - launch: maxAgeHours + WARM_EXPIRY_MARGIN_HOURS
  MaxFaults   \* bound on the faults of one behaviour

ASSUME FleetAssumption ==
  /\ Grace \in Nat
  /\ BootTime \in Nat
  /\ Expiry \in Nat
  /\ MaxFaults \in Nat

VARIABLES
  ec2,      \* the state DescribeInstances returns, and how far the boot script is
  tag,      \* age of the ghr:warm-activated tag, -1 when absent
  reg,      \* the runner registration of the instance
  age,      \* time since LaunchTime
  expires,  \* time left until ghr:warm-expires-at
  owned,    \* instances whose Owner and Type tags are an activation's, not the pool's
  events,   \* stopped instances whose state change event is undelivered
  faults    \* faults left

fleetVars == <<ec2, tag, reg, age, expires, owned, events, faults>>

\* pending, running (priming, waiting, job), stopping, stopped (parked by its own
\* shutdown, halted by anything else), terminated; none is not launched yet.
Ec2State == {"none", "pending", "priming", "waiting", "job",
             "stopping", "parked", "halted", "terminated"}
Running == {"pending", "priming", "waiting", "job"}
Stopped == {"parked", "halted"}
Live    == Running \cup Stopped \cup {"stopping"}

\* A GitHub runner named after the instance: none, named without a config in
\* Parameter Store, with a config waiting there, or with the config consumed.
RegState == {"none", "named", "config", "taken"}

FleetTypeOK ==
  /\ ec2 \in [Instance -> Ec2State]
  /\ tag \in [Instance -> -1 .. Grace]
  /\ reg \in [Instance -> RegState]
  /\ age \in [Instance -> 0 .. BootTime + 1]
  /\ expires \in [Instance -> 0 .. Expiry]
  /\ owned \subseteq Instance
  /\ events \subseteq Instance
  /\ faults \in 0 .. MaxFaults

FleetInit ==
  /\ ec2 = [i \in Instance |-> "none"]
  /\ tag = [i \in Instance |-> -1]
  /\ reg = [i \in Instance |-> "none"]
  /\ age = [i \in Instance |-> 0]
  /\ expires = [i \in Instance |-> Expiry]
  /\ owned = {}
  /\ events = {}
  /\ faults = MaxFaults

\* A fault of the environment spends the budget.
Fault == faults > 0 /\ faults' = faults - 1

Activated(i) == tag[i] >= 0
Settled(i)   == tag[i] = Grace

\* classifyStandbyInstance for an instance without a spot request.
Classify(i) ==
  IF Activated(i) THEN "ACTIVE"
  ELSE IF ec2[i] = "parked" THEN "WARM"
  ELSE IF ec2[i] \in Running \cup {"stopping"} THEN "PRIMING"
  ELSE "GARBAGE"

-----------------------------------------------------------------------------
\* StartInstances boots a stopped instance and leaves a running one alone.
StartEffect(i) ==
  /\ ec2' = IF ec2[i] \in Stopped THEN [ec2 EXCEPT ![i] = "pending"] ELSE ec2
  /\ age' = IF ec2[i] \in Stopped THEN [age EXCEPT ![i] = 0] ELSE age

\* TerminateInstances.
TerminateEffect(i) == ec2' = [ec2 EXCEPT ![i] = "terminated"]

-----------------------------------------------------------------------------
\* select_boot_mode: RUN with a config, PRIME for a warm standby, else WAIT.
Boot(i) ==
  /\ ec2[i] = "pending"
  /\ ec2' = [ec2 EXCEPT ![i] = IF reg[i] = "config" THEN "job"
                               ELSE IF ~Activated(i) THEN "priming"
                               ELSE "waiting"]
  /\ reg' = [reg EXCEPT ![i] = IF @ = "config" THEN "taken" ELSE @]
  /\ UNCHANGED <<tag, age, expires, owned, events, faults>>

\* PRIME: install the boot hook, then shutdown -h now.
PrimeDone(i) ==
  /\ ec2[i] = "priming"
  /\ ec2' = [ec2 EXCEPT ![i] = "stopping"]
  /\ UNCHANGED <<tag, reg, age, expires, owned, events, faults>>

StopDone(i) ==
  /\ ec2[i] = "stopping"
  /\ ec2' = [ec2 EXCEPT ![i] = "parked"]
  /\ events' = events \cup {i}
  /\ UNCHANGED <<tag, reg, age, expires, owned, faults>>

\* WAIT polls Parameter Store until the config is there, then deletes it.
TakeConfig(i) ==
  /\ ec2[i] = "waiting"
  /\ reg[i] = "config"
  /\ ec2' = [ec2 EXCEPT ![i] = "job"]
  /\ reg' = [reg EXCEPT ![i] = "taken"]
  /\ UNCHANGED <<tag, age, expires, owned, events, faults>>

\* The ephemeral runner ends its job and the cleanup trap terminates the instance.
FinishJob(i) ==
  /\ ec2[i] = "job"
  /\ TerminateEffect(i)
  /\ UNCHANGED <<tag, reg, age, expires, owned, events, faults>>

\* A stop the instance did not initiate.
Interrupt(i) ==
  /\ ec2[i] \in Running
  /\ Fault
  /\ ec2' = [ec2 EXCEPT ![i] = "halted"]
  /\ events' = events \cup {i}
  /\ UNCHANGED <<tag, reg, age, expires, owned>>

\* EventBridge or the queue drops a stop event.
LoseEvent(i) ==
  /\ i \in events
  /\ Fault
  /\ events' = events \ {i}
  /\ UNCHANGED <<ec2, tag, reg, age, expires, owned>>

FleetStep(i) ==
  \/ Boot(i) \/ PrimeDone(i) \/ StopDone(i) \/ TakeConfig(i) \/ FinishJob(i)
  \/ Interrupt(i) \/ LoseEvent(i)

-----------------------------------------------------------------------------
\* One tick of the clock against the timestamps of the instances in use.
ClocksElapse ==
  /\ tag' = [i \in Instance |-> IF tag[i] \in 0 .. Grace - 1 THEN tag[i] + 1 ELSE tag[i]]
  /\ age' = [i \in Instance |->
               IF ec2[i] \in Live /\ age[i] <= BootTime THEN age[i] + 1 ELSE age[i]]
  /\ UNCHANGED <<ec2, reg, owned, events, faults>>

ExpiryElapses ==
  expires' = [i \in Instance |->
                IF ec2[i] \in Live /\ expires[i] > 0 THEN expires[i] - 1 ELSE expires[i]]

FleetElapse == ClocksElapse /\ ExpiryElapses
=============================================================================
