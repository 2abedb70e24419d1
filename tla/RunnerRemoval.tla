--------------------------- MODULE RunnerRemoval ---------------------------
(****************************************************************************)
(* What ends runners: scale-down, the termination watcher and the           *)
(* registration janitor on the same instances and registrations, none of    *)
(* which knows of the others.                                               *)
(****************************************************************************)
EXTENDS ScaleDown, Deregister, RegistrationJanitor

vars == <<lifeVars, scaleDownVars, watcherVars, janitorVars>>
removers == <<scaleDownVars, watcherVars, janitorVars>>

TypeOK == LifeTypeOK /\ ScaleDownTypeOK /\ WatcherTypeOK /\ JanitorTypeOK
Init   == LifeInit /\ ScaleDownInit /\ WatcherInit /\ JanitorInit

Tick ==
  /\ age' = Capped(age, AgeCap)
  /\ ScaleDownTick /\ JanitorTick
  /\ UNCHANGED <<ec2, reg, job, busy, faults, watcherVars>>

Online(r) ==
  /\ ComeOnline(r)
  /\ late' = IF Now("condemned") /\ r \in sd.cur THEN late \cup {r} ELSE late
  /\ UNCHANGED <<idleCount, orphan, idleFor, sd, quiet, slipped, watcherVars, janitorVars>>

\* What EC2, GitHub and jobs do in any case, and what they may do.
Settles(r) == (FinishJob(r) \/ GoOffline(r) \/ ClearBusy(r) \/ Die(r)) /\ UNCHANGED removers
Happens(r) ==
  \/ (Register(r) \/ Assign(r) \/ ReportBusy(r) \/ Disconnect(r)) /\ UNCHANGED removers
  \/ Online(r)
  \/ Interrupt(r) /\ UNCHANGED <<scaleDownVars, janitorVars>>

ScaleDownNext  == ScaleDownStep /\ UNCHANGED <<watcherVars, janitorVars>>
WatcherNext(r) == WatcherStep(r) /\ UNCHANGED <<scaleDownVars, janitorVars>>
JanitorNext(r) == JanitorStep(r) /\ UNCHANGED <<scaleDownVars, watcherVars>>

Next ==
  \/ Tick
  \/ ScaleDownNext
  \/ Deadline /\ UNCHANGED <<watcherVars, janitorVars>>
  \/ \E r \in Runner :
       \/ Settles(r) \/ Happens(r)
       \/ WatcherNext(r) \/ JanitorNext(r)
       \/ ConfirmFails(r) /\ UNCHANGED <<scaleDownVars, watcherVars>>

Spec == Init /\ [][Next]_vars

\* Scale-down and the janitor are scheduled for ever, the retry queue delivers,
\* EC2 takes what it announced, and GitHub corrects what it reports.  A runner
\* need not register or take a job.
Fairness ==
  /\ WF_vars(Tick)
  /\ WF_vars(ScaleDownNext)
  /\ WF_vars(\E r \in Runner : Settles(r))
  /\ WF_vars(\E r \in Runner : WatcherNext(r))
  /\ WF_vars(\E r \in Runner : JanitorNext(r))

FairSpec == Spec /\ Fairness
-----------------------------------------------------------------------------
\* With an idle confirmation window, scale-down removes a runner only after
\* not-busy readings that span it, none of them busy (scale-down.ts:282), unless
\* a tag could not be removed.
IdleIsConfirmed ==
  \A r \in sd.cur : Now("delete") => quiet[r] = Window \/ r \in slipped

\* An orphan that is terminated can take no job, unless it came online after
\* its last-chance check (lastChanceCheckOrphanRunner).
OrphanIsUseless ==
  [][\A r \in Runner : TerminateOrphan(r) => reg[r] # "online" \/ r \in late]_vars

\* The janitor removes no registration of an instance that exists.
JanitorSparesLive == [][\A r \in Runner : Remove(r) /\ Stale(r) => ~Live(r)]_vars

\* Every instance above the idle count goes in the end: after its job, when it
\* is idle, and when its registration was lost or never made.
ScaledDown == <>[](Cardinality({r \in Runner : Live(r)}) <= idleCount)

\* Every registration of an instance that is gone goes in the end, whoever of
\* scale-down, watcher and janitor missed it.
NoStaleRegistration == <>[](\A r \in Runner : Live(r) \/ ~Registered(r))
=============================================================================
