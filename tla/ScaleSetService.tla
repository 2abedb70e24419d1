-------------------------- MODULE ScaleSetService --------------------------
(****************************************************************************)
(* What the scale-set controller works against: the jobs of a runner scale  *)
(* set, the queue of its message session, and its EC2 runners.  GitHub      *)
(* offers a job once, gathers what happens into one message at a time,      *)
(* delivers that message until it is deleted, and admits one session.       *)
(****************************************************************************)
EXTENDS Integers, FiniteSets

CONSTANTS
  Job,        \* the jobs of the scale set
  Instance,   \* EC2 instances, numbered in the order of their launch
  MaxRunners, \* maxRunners of the reconciler's configuration
  MaxFaults   \* bound on failed calls, lost runners and restarts

ASSUME ServiceAssumption ==
  /\ IsFiniteSet(Job) /\ 0 \notin Job
  /\ Instance \subseteq Nat /\ IsFiniteSet(Instance)
  /\ MaxRunners \in Nat /\ MaxFaults \in Nat

VARIABLES
  job,     \* each job's state
  news,    \* what happened since the last message was made
  box,     \* the message that waits to be deleted, if any
  session, \* GitHub holds a session for the scale set
  token,   \* the token of the session's queue is valid
  vm,      \* each instance's agent: it boots, is online, has ended, or hangs
  tag,     \* ghr:scale_set_state; the runner's identity is tagged with "publishing"
  param,   \* the instance's JIT configuration is in the parameter store
  reg,     \* GitHub knows the runner
  work,    \* the job a runner executes, or 0
  faults   \* faults left

fleetVars == <<vm, tag, param, reg, work>>
queueVars == <<news, box, session, token>>
serviceVars == <<job, queueVars, fleetVars, faults>>

\* JobAvailable, JobStarted and JobCompleted, and whether there is an event
\* that names no runner: a JobAssigned, or a job cancelled before it started.
Events == [avail : SUBSET Job, started : SUBSET Instance, completed : SUBSET Instance, other : BOOLEAN]
NoEvents == [avail |-> {}, started |-> {}, completed |-> {}, other |-> FALSE]
Stats == [assigned : 0 .. Cardinality(Job), running : SUBSET Instance]
Message == [stats : Stats, events : Events]

\* A set that is empty or holds the one value of an optional variable.
Optional(S) == {{}} \cup {{x} : x \in S}
The(o) == CHOOSE x \in o : TRUE

ServiceTypeOK ==
  /\ job \in [Job -> {"none", "available", "assigned", "running", "done"}]
  /\ news \in Events
  /\ box = {} \/ The(box) \in Message
  /\ session \in BOOLEAN /\ token \in BOOLEAN
  /\ vm \in [Instance -> {"free", "booting", "online", "ended", "hung", "gone"}]
  /\ tag \in [Instance -> {"provisioning", "publishing", "published"}]
  /\ param \in [Instance -> BOOLEAN] /\ reg \in [Instance -> BOOLEAN]
  /\ work \in [Instance -> Job \cup {0}]
  /\ faults \in 0 .. MaxFaults

ServiceInit ==
  /\ job \in [Job -> {"none", "done"}]
  /\ news = NoEvents /\ box = {}
  /\ session = FALSE /\ token = TRUE
  /\ vm = [i \in Instance |-> "free"]
  /\ tag = [i \in Instance |-> "provisioning"]
  /\ param = [i \in Instance |-> FALSE] /\ reg = [i \in Instance |-> FALSE]
  /\ work = [i \in Instance |-> 0]
  /\ faults \in 0 .. MaxFaults

Fault == faults > 0 /\ faults' = faults - 1
Owned == {i \in Instance : vm[i] \notin {"free", "gone"}}
Running == {i \in Instance : work[i] # 0}
Assigned == {j \in Job : job[j] \in {"assigned", "running"}}

\* The statistics of this moment.  GitHub gives only the number of busy
\* runners; which ones they are is kept for the properties.
Snapshot == [assigned |-> Cardinality(Assigned), running |-> Running]
BusyRunners(s) == Cardinality(s.running)

SetVm(i, s) == vm' = [vm EXCEPT ![i] = s]
SetJob(j, s) == job' = [job EXCEPT ![j] = s]

-----------------------------------------------------------------------------
\* GitHub.

QueueJob(j) ==
  /\ job[j] = "none" /\ SetJob(j, "available")
  /\ news' = [news EXCEPT !.avail = @ \cup {j}]
  /\ UNCHANGED <<box, session, token, fleetVars, faults>>

CancelJob(j) ==
  /\ job[j] \in {"available", "assigned"} /\ SetJob(j, "done")
  /\ news' = [news EXCEPT !.other = TRUE]
  /\ UNCHANGED <<box, session, token, fleetVars, faults>>

\* The message is made with the statistics of now, and read some time later.
MakeMessage ==
  /\ box = {} /\ news # NoEvents
  /\ box' = {[stats |-> Snapshot, events |-> news]}
  /\ news' = NoEvents
  /\ UNCHANGED <<job, session, token, fleetVars, faults>>

ExpireToken ==
  /\ session /\ token /\ Fault /\ token' = FALSE
  /\ UNCHANGED <<job, news, box, session, fleetVars>>

\* An assigned job goes to an idle runner.  The event may come without the
\* runner's identity, and is of no use then.
StartJob(j, i) ==
  /\ job[j] = "assigned" /\ vm[i] = "online" /\ reg[i] /\ work[i] = 0
  /\ SetJob(j, "running")
  /\ work' = [work EXCEPT ![i] = j]
  /\ \/ news' = [news EXCEPT !.started = @ \cup {i}] /\ UNCHANGED faults
     \/ Fault /\ news' = [news EXCEPT !.other = TRUE]
  /\ UNCHANGED <<box, session, token, vm, tag, param, reg>>

\* The ephemeral runner's registration ends with its only job.
FinishJob(i) ==
  /\ work[i] # 0 /\ vm[i] = "online"
  /\ SetJob(work[i], "done")
  /\ work' = [work EXCEPT ![i] = 0]
  /\ reg' = [reg EXCEPT ![i] = FALSE]
  /\ SetVm(i, "ended")
  /\ news' = [news EXCEPT !.completed = @ \cup {i}]
  /\ UNCHANGED <<box, session, token, tag, param, faults>>

-----------------------------------------------------------------------------
\* The instance: its boot script waits for the configuration for ever, runs
\* the agent, and terminates the instance when the agent ends.

Boot(i) ==
  /\ vm[i] = "booting" /\ param[i]
  /\ SetVm(i, "online")
  /\ param' = [param EXCEPT ![i] = FALSE]
  /\ UNCHANGED <<job, queueVars, tag, reg, work, faults>>

AgentEnds(i) ==
  /\ vm[i] = "online" /\ ~reg[i] /\ work[i] = 0 /\ SetVm(i, "ended")
  /\ UNCHANGED <<job, queueVars, tag, param, reg, work, faults>>

\* Nothing asks for the tags and the parameter of an instance that is gone.
Gone(i) ==
  /\ SetVm(i, "gone")
  /\ tag' = [tag EXCEPT ![i] = "provisioning"]
  /\ param' = [param EXCEPT ![i] = FALSE]

SelfTerminate(i) ==
  /\ vm[i] = "ended" /\ Gone(i)
  /\ UNCHANGED <<job, queueVars, reg, work, faults>>

\* An agent that never comes up, or stops responding before it has a job.
Hang(i) ==
  /\ vm[i] \in {"booting", "online"} /\ work[i] = 0
  /\ Fault /\ SetVm(i, "hung")
  /\ UNCHANGED <<job, queueVars, tag, param, reg, work>>
=============================================================================
