----------------------------- MODULE ColdLaunch -----------------------------
(****************************************************************************)
(* Creating runners on new EC2 instances: createRunners                     *)
(* (aws/ec2/src/control-plane/runner-creation.ts) over createEc2Runner      *)
(* (aws/ec2/src/runners.ts).  A fleet request, its on-demand failover, the  *)
(* just-in-time registration of each instance and the termination of those  *)
(* that could not be registered.  Every actor (an invocation of scale-up,   *)
(* the pool) runs its own; they share the runners of one owner.  Runners    *)
(* are alike, so they are counted.                                          *)
(****************************************************************************)
EXTENDS Integers, FiniteSets, FiniteSetsExt

CONSTANTS
  Actor,           \* those that create runners
  Job,             \* workflow jobs
  Label,           \* label sets; a runner takes the jobs of its own
  labelOf,         \* the label set each job asks for
  Spot,            \* instance_target_capacity_type is spot
  FailoverErrors,  \* enable_on_demand_failover_for_errors
  RetryableErrors, \* scale_errors and the names the code adds to them
  MaxFaults        \* bound on calls that fail or are lost

Error == {"capacity", "throttled", "invalid"}

ASSUME LaunchAssumption ==
  /\ IsFiniteSet(Actor) /\ IsFiniteSet(Job)
  /\ IsFiniteSet(Label) /\ Label # {}
  /\ labelOf \in [Job -> Label]
  /\ Spot \in BOOLEAN
  /\ FailoverErrors \subseteq Error
  /\ RetryableErrors \subseteq Error
  /\ MaxFaults \in Nat

VARIABLES
  launch,  \* each actor's createRunners call
  jobs,    \* GitHub's status of each job
  booting, \* registered runners that are not online yet, by label set
  idle,    \* online runners without a job, by label set
  loose,   \* instances without a configuration that nobody works on
  faults,  \* faults left
  raced    \* history: a call was decided on a count another call had made stale

coldVars == <<launch, jobs, booting, idle, loose, faults, raced>>

Stage == {"off", "fleet", "ondemand", "register", "terminate", "done"}
NoLaunch == [stage |-> "off", label |-> CHOOSE l \in Label : TRUE, asked |-> 0, fresh |-> 0,
             failed |-> 0, made |-> 0, retryable |-> 0, final |-> 0, stale |-> FALSE]

Held(a) == launch[a].fresh + launch[a].failed
Busy    == Cardinality({j \in Job : jobs[j] = "running"})
\* The running and pending instances that carry the owner's tags.
CurrentRunners ==
  loose + Busy + SumFunction([a \in Actor |-> Held(a)]) + SumFunction([l \in Label |-> booting[l] + idle[l]])

ColdTypeOK ==
  /\ launch \in [Actor -> [stage : Stage, label : Label, asked : Nat, fresh : Nat, failed : Nat,
                           made : Nat, retryable : Nat, final : Nat, stale : BOOLEAN]]
  /\ jobs \in [Job -> {"none", "queued", "running", "done"}]
  /\ booting \in [Label -> Nat]
  /\ idle \in [Label -> Nat]
  /\ loose \in Nat
  /\ faults \in 0 .. MaxFaults
  /\ raced \in BOOLEAN

ColdInit ==
  /\ launch = [a \in Actor |-> NoLaunch]
  /\ jobs \in [Job -> {"none", "done"}]
  /\ booting = [l \in Label |-> 0]
  /\ idle = [l \in Label |-> 0]
  /\ loose = 0
  /\ faults \in 0 .. MaxFaults
  /\ raced = FALSE

Fault == faults > 0 /\ faults' = faults - 1

-----------------------------------------------------------------------------
LaunchStage(a, s) == launch[a].stage = s
Becomes(a, call)  == launch' = [launch EXCEPT ![a] = call]

\* createRunners is called for n runners, decided on a count of now.
Begin(a, l, n) == [NoLaunch EXCEPT !.stage = "fleet", !.label = l, !.asked = n]

\* The instances of one call make the counts of the other actors stale.
Launched(a, call, n) ==
  [b \in Actor |-> IF b = a THEN [call EXCEPT !.fresh = @ + n]
                   ELSE [launch[b] EXCEPT !.stale = @ \/ (n > 0 /\ launch[b].stage \in {"fleet", "ondemand"})]]

\* What the caller makes of m missing instances and the fleet's error:
\* every missing instance is retryable, or none is.
NotLaunched(call, m, error) ==
  IF error \in RetryableErrors THEN [call EXCEPT !.retryable = @ + m] ELSE [call EXCEPT !.final = @ + m]

Registering(call, n) == [call EXCEPT !.stage = IF call.fresh + n > 0 THEN "register" ELSE "done"]

Missing(a) == launch[a].asked - launch[a].fresh

\* CreateFleet, spot or on-demand, launches n of the missing instances.  An
\* incomplete spot fleet goes on to on-demand for the errors configured.
CreateFleet(a) ==
  LET call == launch[a] IN
  /\ call.stage \in {"fleet", "ondemand"}
  /\ \E n \in 0 .. Missing(a) :
       /\ raced' = (raced \/ (call.stale /\ n > 0))
       /\ \/ /\ n = Missing(a)
             /\ launch' = Launched(a, Registering(call, n), n)
             /\ UNCHANGED faults
          \/ /\ n < Missing(a)
             /\ Fault
             /\ \E error \in Error :
                  LET failover == Spot /\ call.stage = "fleet" /\ error \in FailoverErrors
                  IN launch' = Launched(a, IF failover THEN [call EXCEPT !.stage = "ondemand"]
                                           ELSE Registering(NotLaunched(call, Missing(a) - n, error), n), n)
  /\ UNCHANGED <<jobs, booting, idle, loose>>

\* The request itself, or the AMI lookup before it, fails.
CreateRequestFails(a) ==
  /\ launch[a].stage \in {"fleet", "ondemand"}
  /\ Fault
  /\ \E error \in {"throttled", "invalid"} :
       Becomes(a, Registering(NotLaunched(launch[a], Missing(a), error), 0))
  /\ UNCHANGED <<jobs, booting, idle, loose, raced>>

\* Changed: the failed instances are terminated without being counted.
RegisteredUncounted(call) ==
  IF call.fresh > 0 THEN call
  ELSE [call EXCEPT !.stage = IF call.failed > 0 THEN "terminate" ELSE "done"]

\* Once every instance was tried, the failed ones count as retryable, whatever
\* becomes of them, and are terminated.
Registered(call) ==
  IF call.fresh > 0 THEN call
  ELSE [call EXCEPT !.stage = IF call.failed > 0 THEN "terminate" ELSE "done",
                    !.retryable = @ + call.failed]

\* createJitConfig for one instance: GitHub lists the runner, offline.
RegisterJit(a) ==
  LET call == launch[a] IN
  /\ LaunchStage(a, "register")
  /\ Becomes(a, Registered([call EXCEPT !.fresh = @ - 1, !.made = @ + 1]))
  /\ booting' = [booting EXCEPT ![call.label] = @ + 1]
  /\ UNCHANGED <<jobs, idle, loose, faults, raced>>

\* GitHub or the configuration store refuses one instance.
RegisterJitFails(a) ==
  /\ LaunchStage(a, "register")
  /\ Fault
  /\ Becomes(a, Registered([launch[a] EXCEPT !.fresh = @ - 1, !.failed = @ + 1]))
  /\ UNCHANGED <<jobs, booting, idle, loose, raced>>

\* The runner group is not found: no instance of the call is registered.
RegisterThrows(a) ==
  LET call == launch[a] IN
  /\ LaunchStage(a, "register") /\ call.failed = 0 /\ call.made = 0
  /\ Fault
  /\ Becomes(a, Registered([call EXCEPT !.fresh = 0, !.failed = call.fresh]))
  /\ UNCHANGED <<jobs, booting, idle, loose, raced>>

\* Changed: the loop runs once more than there are failed instances.
TerminateOneMore(a) ==
  LET call == launch[a] IN
  /\ LaunchStage(a, "terminate")
  /\ Becomes(a, [call EXCEPT !.failed = @ - 1, !.stage = IF call.failed = 0 THEN "done" ELSE @])
  /\ UNCHANGED <<jobs, booting, idle, loose, faults, raced>>

TerminateFailed(a) ==
  LET call == launch[a] IN
  /\ LaunchStage(a, "terminate")
  /\ Becomes(a, [call EXCEPT !.failed = @ - 1, !.stage = IF call.failed = 1 THEN "done" ELSE @])
  /\ \/ UNCHANGED <<loose, faults>>
     \/ Fault /\ loose' = loose + 1
  /\ UNCHANGED <<jobs, booting, idle, raced>>

LaunchStep(a) ==
  \/ CreateFleet(a) \/ CreateRequestFails(a)
  \/ RegisterJit(a) \/ RegisterJitFails(a) \/ RegisterThrows(a)
  \/ TerminateFailed(a)

\* The actor's Lambda ends; what it held stays behind.
Abandon(a) ==
  /\ Becomes(a, NoLaunch)
  /\ loose' = loose + Held(a)

-----------------------------------------------------------------------------
\* The instance boots, reads its configuration and comes online, or never does.
Boot(l) ==
  /\ booting[l] > 0
  /\ booting' = [booting EXCEPT ![l] = @ - 1]
  /\ \/ idle' = [idle EXCEPT ![l] = @ + 1] /\ UNCHANGED <<loose, faults>>
     \/ Fault /\ loose' = loose + 1 /\ UNCHANGED idle
  /\ UNCHANGED <<launch, jobs, raced>>

\* GitHub hands a queued job to any idle runner of its labels.
StartJob(j) ==
  /\ jobs[j] = "queued" /\ idle[labelOf[j]] > 0
  /\ jobs' = [jobs EXCEPT ![j] = "running"]
  /\ idle' = [idle EXCEPT ![labelOf[j]] = @ - 1]
  /\ UNCHANGED <<launch, booting, loose, faults, raced>>

\* The job ends and with it its ephemeral runner.
EndJob(j) ==
  /\ jobs[j] = "running"
  /\ jobs' = [jobs EXCEPT ![j] = "done"]
  /\ UNCHANGED <<launch, booting, idle, loose, faults, raced>>

CancelJob(j) ==
  /\ jobs[j] = "queued"
  /\ jobs' = [jobs EXCEPT ![j] = "done"]
  /\ UNCHANGED <<launch, booting, idle, loose, faults, raced>>

\* Scale-down removes an idle runner or an orphan.
ScaleDown ==
  /\ \/ \E l \in Label : idle[l] > 0 /\ idle' = [idle EXCEPT ![l] = @ - 1] /\ UNCHANGED loose
     \/ loose > 0 /\ loose' = loose - 1 /\ UNCHANGED idle
  /\ UNCHANGED <<launch, jobs, booting, faults, raced>>
=============================================================================
