-------------------------- MODULE ScaleSetProvider --------------------------
(****************************************************************************)
(* The EC2 provider of the scale-set controller: one call of reconcile      *)
(* lists the owned runners, launches and configures what is missing, or     *)
(* removes what is too much.  Each action ends at a request to AWS or to    *)
(* GitHub, and anything may happen before the next one.                     *)
(****************************************************************************)
EXTENDS ScaleSetService

CONSTANT Surge \* RETAINED_CAPACITY_REPLACEMENT_SURGE

ASSUME ProviderAssumption == Surge \in Nat

VARIABLES
  pc,        \* what the controller does next
  min,       \* minRunners of the configuration
  stats,     \* latestStatistics, if any
  lifecycle, \* the last event observed of each runner
  todo,      \* instances to configure, or candidates for removal
  count,     \* runners to launch, or to remove
  current,   \* state.currentRunners
  failed     \* state.errors is not empty

runVars == <<todo, count, current, failed>>
providerVars == <<pc, stats, lifecycle, runVars>>

MinOf(S) == CHOOSE x \in S : \A y \in S : x <= y
MaxOf(S) == CHOOSE x \in S : \A y \in S : y <= x
Least(a, b) == IF a < b THEN a ELSE b
Most(a, b) == IF a > b THEN a ELSE b

DesiredFor(assigned) == Most(assigned, Least(MaxRunners, min + assigned))
Desired == DesiredFor(The(stats).assigned)

\* Mutant: retained runners count as well.
ServingOwned == Owned

\* A published runner has its identity in its tags, so it counts whether or
\* not it was seen at work and however old it is.  Any other is retained.
ServingCapacity == {i \in Owned : tag[i] = "published"}

\* Mutants: a runner of unknown state may always go, or never.
RemovableUnlessStarted(i) == lifecycle[i] # "started"
RemovableCompleted(i) == lifecycle[i] = "completed"

\* A runner known to be at work is kept; one of unknown state may go when no
\* runner at all is busy.
Removable(i) ==
  \/ lifecycle[i] = "completed"
  \/ lifecycle[i] = "unknown" /\ BusyRunners(The(stats)) = 0

-----------------------------------------------------------------------------
\* reconcile: list, compare, and choose what to do.

\* Mutant: the surge is granted over the serving runners alone.
LaunchOverServing(deficit) == Least(deficit, Desired + Surge - Cardinality(ServingCapacity))

\* Retained runners take up the surge, and may leave nothing to launch.
LaunchCount(deficit) == Least(deficit, Most(0, Desired + Surge - Cardinality(Owned)))

Deficit == Desired - Cardinality(ServingCapacity)

BeginRun(next, items, n) ==
  /\ pc' = next /\ todo' = items /\ count' = n
  /\ current' = Cardinality(Owned) /\ failed' = FALSE

ListOwned ==
  /\ pc = "list"
  /\ \/ LaunchCount(Deficit) > 0 /\ BeginRun("create", {}, LaunchCount(Deficit))
     \/ Deficit < 0 /\ BeginRun("remove", {i \in ServingCapacity : Removable(i)}, 0 - Deficit)
     \/ Deficit >= 0 /\ LaunchCount(Deficit) <= 0 /\ BeginRun("end", {}, 0)
  /\ UNCHANGED <<serviceVars, stats, lifecycle>>

ListFails ==
  /\ pc = "list" /\ Fault
  /\ pc' = "end" /\ todo' = {} /\ count' = 0 /\ current' = 0 /\ failed' = TRUE
  /\ UNCHANGED <<job, queueVars, fleetVars, stats, lifecycle>>

-----------------------------------------------------------------------------
\* scaleUp and configureLaunchedRunner.

\* The n instances that follow those launched before; EC2 may give fewer.
Fresh(n) == {i \in Instance : vm[i] = "free" /\ Cardinality({k \in Instance : vm[k] = "free" /\ k < i}) < n}

Launch(S) == vm' = [i \in Instance |-> IF i \in S THEN "booting" ELSE vm[i]]

CreateFleet ==
  /\ pc = "create"
  /\ \E n \in 0 .. count :
       /\ \/ n = count /\ UNCHANGED faults
          \/ n < count /\ Fault
       /\ Launch(Fresh(n))
       /\ todo' = Fresh(n) /\ current' = current + Cardinality(Fresh(n))
       /\ failed' = (n < count)
       /\ pc' = IF Fresh(n) = {} THEN "end" ELSE "identify"
  /\ count' = 0
  /\ UNCHANGED <<job, queueVars, tag, param, reg, work, stats, lifecycle>>

Next1 == MinOf(todo)
Configured(i) ==
  /\ todo' = todo \ {i}
  /\ pc' = IF todo = {i} THEN "end" ELSE "identify"

\* generateJitConfiguration: the answer names the runner that was asked for.
GenerateJit(i) == reg' = [reg EXCEPT ![i] = TRUE]

\* The registration is made and the identity is written to the tags.
Identify ==
  /\ pc = "identify"
  /\ GenerateJit(Next1)
  /\ tag' = [tag EXCEPT ![Next1] = "publishing"]
  /\ pc' = "publish"
  /\ UNCHANGED <<job, queueVars, vm, param, work, faults, stats, lifecycle, runVars>>

\* One of the two calls fails: the instance is terminated, and so is what was
\* registered when the answer told of it.  The termination may fail as well.
IdentifyFails ==
  /\ pc = "identify"
  /\ \/ Fault /\ SetVm(Next1, "gone") /\ current' = current - 1
     \/ faults > 1 /\ faults' = faults - 2 /\ UNCHANGED <<vm, current>>
  /\ \E left \in BOOLEAN : reg' = [reg EXCEPT ![Next1] = left]
  /\ Configured(Next1)
  /\ failed' = TRUE
  /\ UNCHANGED <<job, queueVars, tag, param, work, stats, lifecycle, count>>

Publish ==
  /\ pc = "publish"
  /\ param' = [param EXCEPT ![Next1] = TRUE]
  /\ pc' = "mark"
  /\ UNCHANGED <<job, queueVars, vm, tag, reg, work, faults, stats, lifecycle, runVars>>

\* The parameter may be there all the same, and the attempt to delete it may
\* come too late: nothing else is undone.
PublishFails ==
  /\ pc = "publish" /\ Fault
  /\ \E written \in BOOLEAN : param' = [param EXCEPT ![Next1] = written]
  /\ failed' = TRUE
  /\ Configured(Next1)
  /\ UNCHANGED <<job, queueVars, vm, tag, reg, work, stats, lifecycle, count, current>>

\* The instance may have ended since; a tag that cannot be written is an error.
MarkPublished ==
  /\ pc = "mark"
  /\ \/ /\ IF vm[Next1] = "gone" THEN UNCHANGED tag ELSE tag' = [tag EXCEPT ![Next1] = "published"]
        /\ UNCHANGED <<faults, failed>>
     \/ Fault /\ failed' = TRUE /\ UNCHANGED tag
  /\ Configured(Next1)
  /\ UNCHANGED <<job, queueVars, vm, param, reg, work, stats, lifecycle, count, current>>

-----------------------------------------------------------------------------
\* scaleDown and terminateKnownIdleRunner, the newest candidate first.

Candidate == MaxOf(todo)
Skip(i) == todo' = todo \ {i} /\ pc' = "remove"

RemovalDone ==
  /\ pc = "remove" /\ (todo = {} \/ count = 0)
  /\ pc' = "end" /\ todo' = {} /\ count' = 0
  /\ UNCHANGED <<serviceVars, stats, lifecycle, current, failed>>

\* The runner is looked up by its name and deleted in GitHub.  What GitHub
\* does with a job that started in the meantime is open.
RemoveRunner ==
  /\ pc = "remove" /\ todo # {} /\ count > 0
  /\ LET i == Candidate IN
     /\ reg[i]
     /\ reg' = [reg EXCEPT ![i] = FALSE]
     /\ work' = [work EXCEPT ![i] = 0]
     /\ job' = IF work[i] = 0 THEN job ELSE [job EXCEPT ![work[i]] = "done"]
     /\ news' = [news EXCEPT !.other = @ \/ work[i] # 0]
  /\ pc' = "terminate"
  /\ UNCHANGED <<box, session, token, vm, tag, param, faults, stats, lifecycle, runVars>>

\* Unknown in GitHub: retained.  A refusal, or any other error: retained too.
RemoveRetains ==
  /\ pc = "remove" /\ todo # {} /\ count > 0
  /\ \/ ~reg[Candidate] /\ UNCHANGED <<faults, failed>>
     \/ work[Candidate] # 0 /\ failed' = TRUE /\ UNCHANGED faults
     \/ Fault /\ failed' = TRUE
  /\ Skip(Candidate)
  /\ UNCHANGED <<job, queueVars, fleetVars, stats, lifecycle, count, current>>

Terminate ==
  /\ pc = "terminate"
  /\ LET i == Candidate IN
     /\ \/ /\ Gone(i)
           /\ current' = current - 1 /\ count' = count - 1
           /\ UNCHANGED <<faults, failed>>
        \/ Fault /\ failed' = TRUE /\ UNCHANGED <<vm, tag, param, current, count>>
     /\ Skip(i)
  /\ UNCHANGED <<job, queueVars, reg, work, stats, lifecycle>>

\* finish: fewer runners than desired is an error, whatever the cause.
RunFailed == failed \/ current < Desired
=============================================================================
