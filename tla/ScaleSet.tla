------------------------------ MODULE ScaleSet ------------------------------
(****************************************************************************)
(* The reconciler of one runner scale set: it holds the message session,    *)
(* deletes each message before it acquires the jobs and applies the events  *)
(* in it, and has the provider follow the latest statistics.  Any error     *)
(* closes the session; a new one starts from fresh statistics.  The process *)
(* may be stopped at every request, and starts again.                       *)
(****************************************************************************)
EXTENDS ScaleSetProvider

VARIABLES
  scaleSet,\* GitHub knows the scale set, with its labels or without
  msg,     \* the message that is processed, if any
  others,  \* another reconciler of the controller group is live
  dropped, \* jobs whose message was deleted and which were not acquired (history)
  peak     \* the most runners that were ever desired (history)

configVars == <<min, scaleSet, others>>
loopVars == <<configVars, msg, dropped, peak>>
vars == <<serviceVars, providerVars, loopVars>>

TypeOK ==
  /\ ServiceTypeOK
  /\ pc \in {"down", "failed", "authorize", "resolve", "register", "check", "connect", "poll", "delete", "acquire", "close", "list", "create",
             "identify", "publish", "mark", "remove", "terminate", "end"}
  /\ min \in 0 .. MaxRunners
  /\ scaleSet \in {"none", "unlabelled", "labelled"}
  /\ pc \in {"connect", "poll"} => scaleSet = "labelled"
  /\ stats \in Optional(Stats)
  /\ pc \in {"list", "create", "identify", "publish", "mark", "remove", "terminate", "end"} => stats # {}
  /\ pc \in {"delete", "acquire"} => msg # {}
  /\ lifecycle \in [Instance -> {"unknown", "started", "completed"}]
  /\ todo \subseteq Instance
  /\ count \in 0 .. MaxRunners + Cardinality(Job) + Cardinality(Instance)
  /\ current \in 0 .. Cardinality(Instance)
  /\ failed \in BOOLEAN /\ others \in BOOLEAN
  /\ msg = {} \/ The(msg) \in Events
  /\ dropped \subseteq Job /\ peak \in 0 .. MaxRunners + Cardinality(Job)

Forget == lifecycle' = [i \in Instance |-> "unknown"]
NoRun == todo' = {} /\ count' = 0 /\ current' = 0 /\ failed' = FALSE

Init ==
  /\ ServiceInit
  /\ pc = "down" /\ min \in 0 .. MaxRunners /\ stats = {}
  /\ lifecycle = [i \in Instance |-> "unknown"]
  /\ todo = {} /\ count = 0 /\ current = 0 /\ failed = FALSE
  /\ scaleSet \in {"none", "unlabelled", "labelled"}
  /\ msg = {} /\ others \in BOOLEAN /\ dropped = {} /\ peak = 0

-----------------------------------------------------------------------------
\* The first start resolves the credentials, the connection to the service and
\* the scale set, which it registers when GitHub does not know it.  Any failure
\* is final for this reconciler.
Beginning(from, to) ==
  /\ pc = from /\ pc' = to
  /\ UNCHANGED <<job, queueVars, fleetVars, stats, lifecycle, runVars, msg, min, others, dropped, peak>>

LoadCredentials == Beginning("down", "authorize") /\ UNCHANGED <<scaleSet, faults>>
Authorize == Beginning("authorize", "resolve") /\ UNCHANGED <<scaleSet, faults>>
ResolveScaleSet ==
  /\ Beginning("resolve", IF scaleSet = "none" THEN "register" ELSE "check")
  /\ UNCHANGED <<scaleSet, faults>>
RegisterScaleSet ==
  /\ Beginning("register", "check")
  /\ scaleSet' = "labelled" /\ UNCHANGED faults

StartFails ==
  /\ \E from \in {"down", "authorize", "resolve"} : Beginning(from, "failed")
  /\ Fault /\ UNCHANGED scaleSet

\* The registration failed, or its answer was lost: the scale set is looked up
\* by its name again.
RegisterFails ==
  /\ Fault
  /\ \/ Beginning("register", "check") /\ scaleSet' = "labelled"
     \/ Beginning("register", "failed") /\ UNCHANGED scaleSet

\* Before each session the labels are brought in line.
CheckScaleSet ==
  /\ Beginning("check", "connect")
  /\ scaleSet' = "labelled" /\ UNCHANGED faults

\* The jobs of the message in hand are dropped with it once it is deleted.
Unacquired == IF pc = "acquire" THEN The(msg).avail ELSE {}

\* An error in the loop: the session is closed, and after a delay a new one is
\* created.  A client error of GitHub is fatal instead.
DropSession ==
  /\ pc' = "close" /\ stats' = {} /\ msg' = {} /\ NoRun

Connect ==
  /\ pc = "connect" /\ ~session
  /\ session' = TRUE /\ token' = TRUE
  /\ \/ stats' = {Snapshot} /\ pc' = "list" /\ UNCHANGED faults
     \/ Fault /\ stats' = {} /\ pc' = "poll"
  /\ UNCHANGED <<job, news, box, fleetVars, lifecycle, runVars, loopVars>>

\* Either request fails; the session may have been made all the same.
ConnectFails ==
  /\ pc \in {"check", "connect"} /\ Fault
  /\ pc' = "check"
  /\ session' \in {session, session \/ pc = "connect"}
  /\ UNCHANGED <<job, news, box, token, fleetVars, stats, lifecycle, runVars, loopVars>>

\* A request of the session that answers 401 refreshes the token, and is sent
\* again.
Refresh ==
  /\ pc \in {"poll", "delete", "acquire"} /\ ~token
  /\ token' = TRUE
  /\ UNCHANGED <<job, news, box, session, fleetVars, faults, providerVars, loopVars>>

\* Mutant: a session without statistics is reconciled all the same.
PollAnyway ==
  /\ pc = "poll" /\ token /\ box = {}
  /\ pc' = "list" /\ msg' = {}
  /\ UNCHANGED <<serviceVars, stats, lifecycle, runVars, configVars, dropped, peak>>

\* No message: reconcile with what is known, and with nothing known give up.
PollNothing ==
  /\ pc = "poll" /\ token /\ box = {}
  /\ IF stats = {} THEN DropSession
     ELSE pc' = "list" /\ msg' = {} /\ UNCHANGED <<stats, runVars>>
  /\ UNCHANGED <<serviceVars, lifecycle, configVars, dropped, peak>>

PollMessage ==
  /\ pc = "poll" /\ token /\ box # {}
  /\ stats' = {The(box).stats} /\ msg' = {The(box).events}
  /\ pc' = "delete"
  /\ UNCHANGED <<serviceVars, lifecycle, runVars, configVars, dropped, peak>>

\* observeLifecycle: an event of a runner replaces what was known of it.
Observe(events) ==
  lifecycle' = [i \in Instance |->
    IF i \in events.completed THEN "completed"
    ELSE IF i \in events.started THEN "started" ELSE lifecycle[i]]

\* Mutant: the jobs of a message that is deleted are left alone.
DeleteOnly ==
  /\ pc = "delete" /\ token
  /\ box' = {} /\ pc' = "list" /\ Observe(The(msg))
  /\ UNCHANGED <<job, news, session, token, fleetVars, faults, stats, runVars, loopVars>>

DeleteMessage ==
  /\ pc = "delete" /\ token
  /\ box' = {}
  /\ IF The(msg).avail = {}
     THEN pc' = "list" /\ Observe(The(msg))
     ELSE pc' = "acquire" /\ UNCHANGED lifecycle
  /\ UNCHANGED <<job, news, session, token, fleetVars, faults, stats, runVars, loopVars>>

\* GitHub gives the jobs that are still there to be had, and tells of them.
Acquire ==
  LET jobs == {j \in The(msg).avail : job[j] = "available"} IN
  /\ job' = [j \in Job |-> IF j \in jobs THEN "assigned" ELSE job[j]]
  /\ news' = [news EXCEPT !.other = @ \/ jobs # {}]

AcquireJobs ==
  /\ pc = "acquire" /\ token
  /\ Acquire
  /\ Observe(The(msg))
  /\ pc' = "list"
  /\ UNCHANGED <<box, session, token, fleetVars, faults, stats, runVars, loopVars>>

\* A request of the loop fails; what it asks for may be done all the same.
RequestFails ==
  /\ pc \in {"poll", "delete", "acquire"} /\ Fault
  /\ \/ dropped' = dropped \cup Unacquired /\ UNCHANGED <<job, news, box>>
     \/ pc = "delete" /\ box' = {} /\ dropped' = dropped \cup The(msg).avail /\ UNCHANGED <<job, news>>
     \/ pc = "acquire" /\ Acquire /\ UNCHANGED <<box, dropped>>
  /\ DropSession
  /\ UNCHANGED <<session, token, fleetVars, lifecycle, configVars, peak>>

\* pruneCompletedLifecycle, after a reconcile without error.
EndRun ==
  /\ pc = "end"
  /\ IF RunFailed
     THEN DropSession /\ UNCHANGED lifecycle
     ELSE /\ pc' = "poll" /\ msg' = {} /\ NoRun
          /\ lifecycle' = [i \in Instance |->
               IF msg # {} /\ i \in The(msg).completed /\ lifecycle[i] = "completed"
               THEN "unknown" ELSE lifecycle[i]]
          /\ UNCHANGED stats
  /\ UNCHANGED <<serviceVars, configVars, dropped, peak>>

\* A session that cannot be closed stays until GitHub expires it, and no other
\* can be created before.
CloseSession ==
  /\ pc = "close"
  /\ \/ session' = FALSE /\ UNCHANGED faults
     \/ Fault /\ UNCHANGED session
  /\ pc' = "check"
  /\ UNCHANGED <<job, news, box, token, fleetVars, stats, lifecycle, runVars, loopVars>>

ExpireSession ==
  /\ session /\ pc \in {"down", "authorize", "resolve", "register", "check", "connect"}
  /\ session' = FALSE
  /\ UNCHANGED <<job, news, box, token, fleetVars, faults, providerVars, loopVars>>

-----------------------------------------------------------------------------
\* A configuration error, or a 4xx answer: the reconciler closes the session
\* and ends for good.  A deletion whose answer was lost is repeated, and then
\* answered 404.
FatalError ==
  /\ pc \in {"check", "connect", "poll", "delete", "acquire"} /\ Fault
  /\ pc' = "failed" /\ session' = (session /\ pc \in {"check", "connect"})
  /\ stats' = {} /\ msg' = {} /\ NoRun
  /\ \/ dropped' = dropped \cup Unacquired /\ UNCHANGED box
     \/ pc = "delete" /\ box' = {} /\ dropped' = dropped \cup The(msg).avail
  /\ UNCHANGED <<job, news, token, fleetVars, lifecycle, configVars, peak>>

\* The group is live while one of its reconcilers is; only then is the task
\* left alone by its health check.
GroupLive == others \/ pc # "failed"

Replace ==
  /\ ~GroupLive
  /\ pc' = "down" /\ Forget
  /\ UNCHANGED <<serviceVars, stats, runVars, loopVars>>

\* The task is stopped.  A signal aborts the request in hand, without the
\* clean-up of an error, and closes the session; a crash leaves the session.
\* EC2 launches what it was asked to.
Stop ==
  /\ pc \notin {"down", "failed"} /\ Fault
  /\ pc' = "down" /\ session' \in {session, FALSE}
  /\ \/ UNCHANGED vm
     \/ pc = "create" /\ Launch(Fresh(count))
  /\ stats' = {} /\ msg' = {} /\ NoRun /\ Forget
  /\ dropped' = dropped \cup Unacquired
  /\ UNCHANGED <<job, news, box, token, tag, param, reg, work, configVars, peak>>

-----------------------------------------------------------------------------
Reconcile ==
  /\ \/ ListOwned \/ CreateFleet \/ Identify \/ Publish \/ MarkPublished
     \/ RemovalDone \/ RemoveRunner \/ RemoveRetains \/ Terminate
  /\ peak' = IF pc = "list" THEN Most(peak, Desired) ELSE peak
  /\ UNCHANGED <<configVars, msg, dropped>>
ReconcileFails ==
  /\ ListFails \/ IdentifyFails \/ PublishFails
  /\ UNCHANGED loopVars

Controller ==
  \/ LoadCredentials \/ Authorize \/ ResolveScaleSet \/ RegisterScaleSet \/ CheckScaleSet
  \/ Connect \/ Refresh \/ PollNothing \/ PollMessage \/ DeleteMessage \/ AcquireJobs
  \/ EndRun \/ CloseSession \/ Replace \/ Reconcile
ControllerFails ==
  \/ StartFails \/ RegisterFails \/ ConnectFails
  \/ RequestFails \/ FatalError \/ Stop \/ ReconcileFails

GitHubSide == MakeMessage \/ \E i \in Instance : FinishJob(i) \/ \E j \in Job : StartJob(j, i)
InstanceSide == \E i \in Instance : Boot(i) \/ AgentEnds(i) \/ SelfTerminate(i)
Environment ==
  /\ GitHubSide \/ InstanceSide \/ ExpireToken
     \/ (\E j \in Job : (scaleSet = "labelled" /\ QueueJob(j)) \/ CancelJob(j)) \/ \E i \in Instance : Hang(i)
  /\ UNCHANGED <<providerVars, loopVars>>

Next == Controller \/ ControllerFails \/ ExpireSession \/ Environment

Own == UNCHANGED <<providerVars, loopVars>>
Fairness ==
  /\ WF_vars(Controller)
  /\ WF_vars(ExpireSession)
  /\ WF_vars(MakeMessage /\ Own)
  /\ WF_vars((\E i \in Instance : FinishJob(i)) /\ Own)
  /\ WF_vars((\E i \in Instance, j \in Job : StartJob(j, i)) /\ Own)
  /\ WF_vars(InstanceSide /\ Own)

Spec == Init /\ [][Next]_vars /\ Fairness

-----------------------------------------------------------------------------
\* An available job is on its way to the controller in a message, or it was
\* dropped: the only place where a job is lost is between the deletion of its
\* message and its acquisition (reconciler.ts:195-197).
AvailableIsAnnounced ==
  \A j \in Job : job[j] = "available" =>
    \/ j \in dropped
    \/ j \in news.avail
    \/ box # {} /\ j \in The(box).events.avail
    \/ pc = "acquire" /\ j \in The(msg).avail

\* Whatever fails and however often the controller starts again, it never owns
\* more than Surge runners above the most it ever wanted (provider.ts:96-101).
FleetBounded == Cardinality(Owned) <= peak + Surge

\* A runner that was at work when the statistics were taken, or was seen to
\* start a job since, is not removed while it works: neither a restart nor a
\* lost event makes a busy runner look idle (scale-down.ts:72-103).
BusyIsSpared ==
  [][\A i \in Instance :
       pc = "remove" /\ pc' = "terminate" /\ work[i] # 0 /\ work'[i] = 0
         => i \notin The(stats).running /\ lifecycle[i] # "started"]_vars

\* What a later run does not repair: a dropped message, an agent that hangs
\* and still counts, a dead reconciler in a live group.
Settled(j) == job[j] \in {"none", "done"} \/ j \in dropped
Unrepaired == (\E i \in Instance : vm[i] = "hung") \/ (pc = "failed" /\ others)
Retained == {i \in Owned : tag[i] # "published"}

\* Every job that GitHub offers is done in the end, over failed requests,
\* sessions and launches, and over restarts, unless more runners than Surge
\* are left half configured.
OfferedIsServed ==
  <>[]((\A j \in Job : Settled(j)) \/ Unrepaired \/ Cardinality(Retained) > Surge)

\* Idle runners above what the assigned jobs call for are removed in the end.
SurplusIsRemoved ==
  <>[](Cardinality({i \in ServingCapacity : vm[i] = "online"})
         <= DesiredFor(Cardinality(Assigned)) \/ pc = "failed")
=============================================================================
