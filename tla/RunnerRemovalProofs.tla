------------------------- MODULE RunnerRemovalProofs -------------------------
(****************************************************************************)
(* Proofs about the removal of runners, for any number of runners and       *)
(* faults, and any delays: types, the confirmed idle readings, the orphans  *)
(* terminated, and the registrations the janitor deletes.                   *)
(****************************************************************************)
EXTENDS RunnerRemoval, TLAPS

\* The idle tag is no older than the uninterrupted not-busy readings, unless it
\* outlived a busy one.
TagIsCovered == \A r \in Runner : idleFor[r] <= quiet[r] \/ r \in slipped

\* A condemned orphan is offline, or came online after the check.
CondemnedIsOffline ==
  Now("condemned") => \A r \in sd.cur : reg[r] # "online" \/ r \in late

\* A message that waited at all has seen EC2's first moment pass.
WaitedIsListed == \A r \in Runner : candidate[r] > 0 => age > 0

\* What confirm passed has no instance any more.
FoundIsGone == \A r \in found : ~Live(r)

IInv ==
  /\ TypeOK /\ TagIsCovered /\ IdleIsConfirmed /\ CondemnedIsOffline
  /\ WaitedIsListed /\ FoundIsGone

-----------------------------------------------------------------------------
\* Counters stay in their range and never fall.
LEMMA CappedRange ==
  ASSUME NEW cap \in Nat, NEW n \in 0 .. cap
  PROVE  /\ Capped(n, cap) \in 0 .. cap
         /\ Capped(n, cap) >= n
         /\ cap > 0 => Capped(n, cap) > 0
BY DEF Capped

LEMMA AgeCapPositive == AgeCap \in Nat \ {0}
BY LifeAssumption DEF AgeCap, LaterOf

\* A fault is one of those left.
LEMMA FaultRange ==
  ASSUME LifeTypeOK, Fault \/ UNCHANGED faults
  PROVE  faults' \in 0 .. MaxFaults
BY LifeAssumption DEF LifeTypeOK, Fault

\* A registration removed with its job.
LEMMA DeregisterType ==
  ASSUME LifeTypeOK, NEW r \in Runner, Deregister(r)
  PROVE  /\ reg' \in [Runner -> {"none", "offline", "online", "removed"}]
         /\ job' \in [Runner -> BOOLEAN]
         /\ \A q \in Runner : reg'[q] = "online" => reg[q] = "online"
BY DEF LifeTypeOK, Deregister, SetReg

-----------------------------------------------------------------------------
\* The initial states.
LEMMA InitInvariant == Init => IInv
<1> SUFFICES ASSUME Init PROVE IInv
  OBVIOUS
<1> USE LifeAssumption, ScaleDownAssumption, JanitorAssumption
<1>1. LifeTypeOK
  <2>1. ec2 \in [Runner -> {"running", "doomed", "terminated"}]
    BY DEF Init, LifeInit
  <2>2. reg \in [Runner -> {"none", "offline", "online", "removed"}]
    BY DEF Init, LifeInit
  <2> QED
    BY <2>1, <2>2, AgeCapPositive DEF Init, LifeInit, LifeTypeOK
<1>2. ScaleDownTypeOK
  BY DEF Init, ScaleDownInit, ScaleDownTypeOK, Off
<1>3. WatcherTypeOK /\ JanitorTypeOK
  BY DEF Init, WatcherInit, JanitorInit, WatcherTypeOK, JanitorTypeOK, MaxReceive
<1>4. TagIsCovered /\ IdleIsConfirmed /\ CondemnedIsOffline
  BY DEF Init, ScaleDownInit, Off, TagIsCovered, IdleIsConfirmed, CondemnedIsOffline, Now
<1>5. WaitedIsListed /\ FoundIsGone
  BY DEF Init, JanitorInit, WaitedIsListed, FoundIsGone
<1> QED
  BY <1>1, <1>2, <1>3, <1>4, <1>5 DEF IInv, TypeOK

-----------------------------------------------------------------------------
\* The steps of a runner's own life: they touch neither the tags nor any
\* message, end no instance's end, and put online only by Online.
LEMMA LifeStep ==
  ASSUME IInv, NEW r \in Runner, Settles(r) \/ Happens(r)
  PROVE  IInv'
<1> USE LifeAssumption DEF IInv, TypeOK
<1> DEFINE Quiet ==
      Register(r) \/ Assign(r) \/ ReportBusy(r) \/ Disconnect(r)
        \/ FinishJob(r) \/ GoOffline(r) \/ ClearBusy(r) \/ Die(r)
<1>1. CASE Quiet /\ UNCHANGED removers
  <2>1. LifeTypeOK' /\ age' = age
    <3>1. age' = age /\ (Fault \/ UNCHANGED faults)
      BY <1>1 DEF Register, Assign, ReportBusy, Disconnect, FinishJob, GoOffline, ClearBusy, Die
    <3>2. /\ ec2' \in [Runner -> {"running", "doomed", "terminated"}]
          /\ reg' \in [Runner -> {"none", "offline", "online", "removed"}]
      BY <1>1 DEF LifeTypeOK, Register, Assign, ReportBusy, Disconnect, FinishJob, GoOffline, ClearBusy,
                  Die, Deregister, SetReg, SetEc2
    <3>3. job' \in [Runner -> BOOLEAN]
      BY <1>1 DEF LifeTypeOK, Register, Assign, ReportBusy, Disconnect, FinishJob, GoOffline, ClearBusy,
                  Die, Deregister
    <3>4. busy' \in [Runner -> BOOLEAN]
      BY <1>1 DEF LifeTypeOK, Register, Assign, ReportBusy, Disconnect, FinishJob, GoOffline, ClearBusy, Die
    <3> QED
      BY <3>1, <3>2, <3>3, <3>4, FaultRange DEF LifeTypeOK
  <2>2. \A q \in Runner : (~Live(q) => ~Live(q)') /\ (reg'[q] = "online" => reg[q] = "online")
    BY <1>1 DEF LifeTypeOK, Register, Assign, ReportBusy, Disconnect, FinishJob, GoOffline, ClearBusy,
                Die, Deregister, SetReg, SetEc2, Live
  <2>3. UNCHANGED <<scaleDownVars, watcherVars, janitorVars>>
    BY <1>1 DEF removers
  <2>4. ScaleDownTypeOK' /\ WatcherTypeOK' /\ JanitorTypeOK'
    BY <2>3 DEF scaleDownVars, watcherVars, janitorVars, ScaleDownTypeOK, WatcherTypeOK, JanitorTypeOK
  <2>5. TagIsCovered' /\ IdleIsConfirmed' /\ CondemnedIsOffline'
    BY <2>2, <2>3 DEF scaleDownVars, TagIsCovered, IdleIsConfirmed, CondemnedIsOffline, Now, ScaleDownTypeOK
  <2>6. WaitedIsListed' /\ FoundIsGone'
    BY <2>1, <2>2, <2>3 DEF janitorVars, WaitedIsListed, FoundIsGone, JanitorTypeOK
  <2> QED
    BY <2>1, <2>4, <2>5, <2>6
<1>2. CASE Online(r)
  <2>1. LifeTypeOK' /\ age' = age /\ ec2' = ec2
    BY <1>2 DEF LifeTypeOK, Online, ComeOnline, SetReg
  <2>2. ScaleDownTypeOK' /\ WatcherTypeOK' /\ JanitorTypeOK'
    BY <1>2 DEF Online, ScaleDownTypeOK, WatcherTypeOK, JanitorTypeOK, watcherVars, janitorVars
  <2>3. CondemnedIsOffline'
    BY <1>2 DEF Online, ComeOnline, SetReg, CondemnedIsOffline, Now, LifeTypeOK, ScaleDownTypeOK
  <2>4. TagIsCovered' /\ IdleIsConfirmed'
    BY <1>2 DEF Online, TagIsCovered, IdleIsConfirmed, Now
  <2>5. WaitedIsListed' /\ FoundIsGone'
    BY <1>2, <2>1 DEF Online, janitorVars, WaitedIsListed, FoundIsGone, Live
  <2> QED
    BY <2>1, <2>2, <2>3, <2>4, <2>5
<1>3. CASE Interrupt(r) /\ UNCHANGED <<scaleDownVars, janitorVars>>
  <2>1. LifeTypeOK' /\ age' = age /\ reg' = reg
    BY <1>3 DEF LifeTypeOK, Interrupt, SetEc2, Fault
  <2>2. \A q \in Runner : ~Live(q) => ~Live(q)'
    BY <1>3 DEF LifeTypeOK, Interrupt, SetEc2, Live
  <2>3. ScaleDownTypeOK' /\ WatcherTypeOK' /\ JanitorTypeOK'
    BY <1>3 DEF Interrupt, ScaleDownTypeOK, WatcherTypeOK, JanitorTypeOK, scaleDownVars, janitorVars
  <2>4. TagIsCovered' /\ IdleIsConfirmed' /\ CondemnedIsOffline'
    BY <1>3, <2>1 DEF scaleDownVars, TagIsCovered, IdleIsConfirmed, CondemnedIsOffline, Now
  <2>5. WaitedIsListed' /\ FoundIsGone'
    BY <1>3, <2>1, <2>2 DEF janitorVars, WaitedIsListed, FoundIsGone, JanitorTypeOK
  <2> QED
    BY <2>1, <2>3, <2>4, <2>5
<1> QED
  BY <1>1, <1>2, <1>3 DEF Settles, Happens

-----------------------------------------------------------------------------
\* The clock moves both tags together, and the age with the messages.
LEMMA TickStep ==
  ASSUME IInv, Tick
  PROVE  IInv'
<1> USE LifeAssumption, JanitorAssumption DEF IInv, TypeOK
<1>1. age' \in 0 .. AgeCap /\ age' > 0
  BY CappedRange, AgeCapPositive DEF Tick, LifeTypeOK
<1>2. LifeTypeOK'
  BY <1>1 DEF Tick, LifeTypeOK
<1>3. \A r \in Runner :
        /\ idleFor'[r] \in -1 .. Window /\ quiet'[r] \in -1 .. Window
        /\ idleFor[r] <= quiet[r] => idleFor'[r] <= quiet'[r]
        /\ quiet[r] = Window => quiet'[r] = Window
  BY DEF Tick, ScaleDownTick, ScaleDownTypeOK, Capped
<1>4. ScaleDownTypeOK'
  BY <1>3 DEF Tick, ScaleDownTick, ScaleDownTypeOK
<1>5. WatcherTypeOK'
  BY DEF Tick, WatcherTypeOK, watcherVars
<1>6. JanitorTypeOK'
  <2>1. \A r \in Runner : candidate'[r] \in -1 .. Confirmation
    BY DEF Tick, JanitorTick, JanitorTypeOK, Capped
  <2> QED
    BY <2>1 DEF Tick, JanitorTick, JanitorTypeOK
<1>7. TagIsCovered' /\ IdleIsConfirmed'
  BY <1>3 DEF Tick, ScaleDownTick, ScaleDownTypeOK, TagIsCovered, IdleIsConfirmed, Now
<1>8. CondemnedIsOffline'
  BY DEF Tick, ScaleDownTick, CondemnedIsOffline, Now
<1>9. WaitedIsListed' /\ FoundIsGone'
  BY <1>1 DEF Tick, JanitorTick, WaitedIsListed, FoundIsGone, Live
<1> QED
  BY <1>2, <1>4, <1>5, <1>6, <1>7, <1>8, <1>9

-----------------------------------------------------------------------------
\* The watcher removes registrations, and nothing else that matters here.
LEMMA WatcherPreserves ==
  ASSUME IInv, NEW r \in Runner, WatcherNext(r)
  PROVE  IInv'
<1> USE DEF IInv, TypeOK
<1>1. LifeTypeOK' /\ age' = age /\ ec2' = ec2
  <2>1. /\ Fault \/ UNCHANGED faults
        /\ Deregister(r) \/ UNCHANGED <<reg, job>>
        /\ UNCHANGED <<ec2, busy, age>>
    BY DEF WatcherNext, WatcherStep, DeregisterRunner, HandleDeregisterRetry
  <2> QED
    BY <2>1, FaultRange, DeregisterType DEF LifeTypeOK
<1>2. \A q \in Runner : reg'[q] = "online" => reg[q] = "online"
  BY DEF WatcherNext, WatcherStep, DeregisterRunner, HandleDeregisterRetry, Deregister, SetReg, LifeTypeOK
<1>3. WatcherTypeOK'
  BY DEF WatcherNext, WatcherStep, DeregisterRunner, HandleDeregisterRetry, Retrying, MaxReceive, WatcherTypeOK
<1>4. ScaleDownTypeOK' /\ JanitorTypeOK'
  BY DEF WatcherNext, scaleDownVars, janitorVars, ScaleDownTypeOK, JanitorTypeOK
<1>5. TagIsCovered' /\ IdleIsConfirmed' /\ CondemnedIsOffline'
  BY <1>2 DEF WatcherNext, scaleDownVars, TagIsCovered, IdleIsConfirmed, CondemnedIsOffline, Now, ScaleDownTypeOK
<1>6. WaitedIsListed' /\ FoundIsGone'
  BY <1>1 DEF WatcherNext, janitorVars, WaitedIsListed, FoundIsGone, Live
<1> QED
  BY <1>1, <1>3, <1>4, <1>5, <1>6

-----------------------------------------------------------------------------
\* The janitor, and its failures.  A message that is confirmed has waited, so
\* that an instance EC2 does not show is gone.
LEMMA JanitorPreserves ==
  ASSUME IInv, NEW r \in Runner,
         JanitorNext(r) \/ (ConfirmFails(r) /\ UNCHANGED <<scaleDownVars, watcherVars>>)
  PROVE  IInv'
<1> USE JanitorAssumption DEF IInv, TypeOK
<1>1. UNCHANGED <<scaleDownVars, watcherVars, ec2, busy, age>>
  BY DEF JanitorNext, JanitorStep, Discover, Confirm, Remove, ConfirmFails, lifeVars
<1>2. LifeTypeOK'
  <2>1. /\ Fault \/ UNCHANGED faults
        /\ Deregister(r) \/ UNCHANGED <<reg, job>>
    BY DEF JanitorNext, JanitorStep, Discover, Confirm, Remove, ConfirmFails, lifeVars
  <2> QED
    BY <1>1, <2>1, FaultRange, DeregisterType DEF LifeTypeOK
<1>3. \A q \in Runner : reg'[q] = "online" => reg[q] = "online"
  BY DEF JanitorNext, JanitorStep, Discover, Confirm, Remove, ConfirmFails, lifeVars, Deregister, SetReg,
         LifeTypeOK
<1>4. JanitorTypeOK'
  BY DEF JanitorNext, JanitorStep, Discover, Confirm, Remove, ConfirmFails, Candidate, JanitorTypeOK
<1>5. ScaleDownTypeOK' /\ WatcherTypeOK'
  BY <1>1 DEF scaleDownVars, watcherVars, ScaleDownTypeOK, WatcherTypeOK
<1>6. TagIsCovered' /\ IdleIsConfirmed' /\ CondemnedIsOffline'
  BY <1>1, <1>3 DEF scaleDownVars, TagIsCovered, IdleIsConfirmed, CondemnedIsOffline, Now, ScaleDownTypeOK
<1>7. \A q \in Runner : candidate'[q] \in {-1, 0, candidate[q]}
  BY DEF JanitorNext, JanitorStep, Discover, Confirm, Remove, ConfirmFails, Candidate, JanitorTypeOK
<1>8. WaitedIsListed'
  BY <1>1, <1>7 DEF WaitedIsListed, JanitorTypeOK
<1>9. \A q \in found' : q \in found \/ ~Live(q)
  BY DEF JanitorNext, JanitorStep, Discover, Confirm, Remove, ConfirmFails, Elapsed, MayMiss,
         WaitedIsListed, JanitorTypeOK
<1>10. FoundIsGone'
  BY <1>1, <1>9 DEF FoundIsGone, Live
<1> QED
  BY <1>2, <1>4, <1>5, <1>6, <1>8, <1>10

-----------------------------------------------------------------------------
\* What any step of scale-down leaves to the others.
LEMMA ScaleDownLeaves ==
  ASSUME IInv, ScaleDownStep \/ Deadline
  PROVE  /\ LifeTypeOK' /\ age' = age
         /\ \A q \in Runner : ~Live(q) => ~Live(q)'
         /\ \A q \in Runner : reg'[q] = "online" => reg[q] = "online"
<1> USE DEF IInv, TypeOK, KeepLife, lifeVars
<1>1. CASE Start \/ List \/ Finish \/ Deadline
  <2>1. UNCHANGED <<ec2, reg, job, busy, age>> /\ (Fault \/ UNCHANGED faults)
    BY <1>1 DEF Start, List, Finish, Deadline
  <2> QED
    BY <2>1, FaultRange DEF LifeTypeOK, Live
<1>2. ASSUME NEW r \in Runner, CheckOrphan(r) \/ EvaluateUnregistered(r) \/ EvaluateRegistered(r)
                                 \/ EvaluateFails(r) \/ ReadBusy(r) \/ ReadIdle(r)
      PROVE  /\ LifeTypeOK' /\ age' = age
             /\ \A q \in Runner : ~Live(q) => ~Live(q)'
             /\ \A q \in Runner : reg'[q] = "online" => reg[q] = "online"
  <2>1. UNCHANGED <<ec2, reg, job, busy, age>> /\ (Fault \/ UNCHANGED faults)
    BY <1>2 DEF CheckOrphan, EvaluateUnregistered, EvaluateRegistered, EvaluateFails, ReadBusy, ReadIdle,
                ClearIdle
  <2> QED
    BY <2>1, FaultRange DEF LifeTypeOK, Live
<1>3. ASSUME NEW r \in Runner, TerminateOrphan(r) \/ TerminateRemoved(r)
      PROVE  /\ LifeTypeOK' /\ age' = age
             /\ \A q \in Runner : ~Live(q) => ~Live(q)'
             /\ \A q \in Runner : reg'[q] = "online" => reg[q] = "online"
  <2>1. UNCHANGED <<reg, busy, age>> /\ (Fault \/ UNCHANGED faults)
    BY <1>3 DEF TerminateOrphan, TerminateRemoved, Terminate
  <2>2. /\ ec2' \in [Runner -> {"running", "doomed", "terminated"}]
        /\ \A q \in Runner : ~Live(q) => ~Live(q)'
    BY <1>3 DEF TerminateOrphan, TerminateRemoved, Terminate, SetEc2, LifeTypeOK, Live
  <2>3. job' \in [Runner -> BOOLEAN]
    BY <1>3 DEF TerminateOrphan, TerminateRemoved, Terminate, LifeTypeOK
  <2> QED
    BY <2>1, <2>2, <2>3, FaultRange DEF LifeTypeOK
<1>4. ASSUME NEW r \in Runner, Delete(r)
      PROVE  /\ LifeTypeOK' /\ age' = age
             /\ \A q \in Runner : ~Live(q) => ~Live(q)'
             /\ \A q \in Runner : reg'[q] = "online" => reg[q] = "online"
  <2>1. /\ UNCHANGED <<ec2, busy, age>>
        /\ Deregister(r) \/ UNCHANGED <<reg, job>>
        /\ Fault \/ UNCHANGED faults
    BY <1>4 DEF Delete
  <2> QED
    BY <2>1, FaultRange, DeregisterType DEF LifeTypeOK, Live
<1> QED
  BY <1>1, <1>2, <1>3, <1>4 DEF ScaleDownStep

Phases == {"off", "orphans", "condemned", "evaluate", "busy", "delete", "terminate"}

\* What the run turns to when it takes a runner in hand, and when it is done.
LEMMA HandleRun ==
  ASSUME ScaleDownTypeOK, NEW r \in Runner, NEW phase \in Phases, Handle(phase, r)
  PROVE  /\ sd' \in [phase : Phases, todo : SUBSET Runner, cur : SUBSET Runner, keep : 0 .. MaxIdle]
         /\ sd'.phase = phase /\ sd'.cur = {r}
BY DEF Handle, ScaleDownTypeOK, Phases

LEMMA DoneRun ==
  ASSUME ScaleDownTypeOK, NEW r \in Runner, NEW phase \in Phases, Done(phase, r)
  PROVE  /\ sd' \in [phase : Phases, todo : SUBSET Runner, cur : SUBSET Runner, keep : 0 .. MaxIdle]
         /\ sd'.phase = phase /\ sd'.cur = {}
BY DEF Done, ScaleDownTypeOK, Phases

\* A tag is removed, or its runner has slipped.
LEMMA ClearIdleTags ==
  ASSUME ScaleDownTypeOK, NEW r \in Runner, ClearIdle(r)
  PROVE  /\ idleFor' \in [Runner -> -1 .. Window] /\ slipped' \in SUBSET Runner
         /\ \A q \in Runner : /\ q # r => idleFor'[q] = idleFor[q]
                              /\ idleFor'[q] \in {-1, idleFor[q]}
                              /\ q \in slipped => q \in slipped'
         /\ idleFor'[r] = -1 \/ r \in slipped'
<1> USE LifeAssumption DEF ScaleDownTypeOK
<1>1. CASE SetIdle(r, -1) /\ UNCHANGED <<faults, slipped>>
  BY <1>1 DEF SetIdle
<1>2. CASE slipped' = slipped \cup {r} /\ UNCHANGED idleFor
  BY <1>2
<1> QED
  BY <1>1, <1>2 DEF ClearIdle

\* The run keeps its types and the three facts about tags and orphans.  A
\* step is described by the runner it ends with in hand.
LEMMA ScaleDownFacts ==
  ASSUME IInv, ScaleDownStep \/ Deadline
  PROVE  ScaleDownTypeOK' /\ TagIsCovered' /\ IdleIsConfirmed' /\ CondemnedIsOffline'
<1> USE LifeAssumption, ScaleDownAssumption DEF IInv, TypeOK, Now
<1> DEFINE Runs == [phase : Phases, todo : SUBSET Runner, cur : SUBSET Runner, keep : 0 .. MaxIdle]
           Free == sd' \in Runs /\ sd'.cur = {}
           Goal == ScaleDownTypeOK' /\ TagIsCovered' /\ IdleIsConfirmed' /\ CondemnedIsOffline'
<1>1. CASE Start \/ List \/ Finish \/ Deadline
  <2>1. UNCHANGED <<idleCount, orphan, idleFor, quiet, slipped>> /\ late' \in {late, {}}
    BY <1>1 DEF Start, List, Finish, Deadline, KeepTags
  <2>2. CASE Start
    <3>1. Free
      <4> DEFINE marked == {r \in orphan : Live(r)}
      <4>1. marked \in SUBSET Runner
        <5>1. orphan \in SUBSET Runner
          BY DEF ScaleDownTypeOK
        <5> QED
          BY <5>1, Zenon
      <4>2. 0 \in 0 .. MaxIdle
        OBVIOUS
      <4>3. sd' = [phase |-> "orphans", todo |-> marked, cur |-> {}, keep |-> 0]
        BY <2>2 DEF Start, Off
      <4> HIDE DEF marked
      <4> QED
        BY <4>1, <4>2, <4>3 DEF Phases
    <3> QED
      BY <2>1, <3>1 DEF ScaleDownTypeOK, Phases, TagIsCovered, IdleIsConfirmed, CondemnedIsOffline
  <2>3. CASE List
    <3>1. Free
      BY <2>3 DEF List, Off, Phases, ScaleDownTypeOK
    <3> QED
      BY <2>1, <3>1 DEF ScaleDownTypeOK, Phases, TagIsCovered, IdleIsConfirmed, CondemnedIsOffline
  <2>4. CASE Finish \/ Deadline
    <3>1. Free
      BY <2>4 DEF Finish, Deadline, Off, Phases
    <3> QED
      BY <2>1, <3>1 DEF ScaleDownTypeOK, Phases, TagIsCovered, IdleIsConfirmed, CondemnedIsOffline
  <2> QED
    BY <1>1, <2>2, <2>3, <2>4
<1>2. ASSUME NEW r \in Runner, CheckOrphan(r)
      PROVE  Goal
  <2>1. UNCHANGED <<idleCount, idleFor, quiet, slipped, late, reg>> /\ orphan' \in SUBSET Runner
    BY <1>2 DEF CheckOrphan, ScaleDownTypeOK
  <2>2. \/ Handle("condemned", r) /\ IsOrphan(r)
        \/ Done("orphans", r)
    BY <1>2 DEF CheckOrphan
  <2>3. \/ sd' \in Runs /\ sd'.phase = "condemned" /\ sd'.cur = {r} /\ IsOrphan(r)
        \/ Free
    BY <2>2, HandleRun, DoneRun DEF Phases
  <2> QED
    BY <2>1, <2>3 DEF ScaleDownTypeOK, Phases, TagIsCovered, IdleIsConfirmed, CondemnedIsOffline,
                      IsOrphan, Registered
<1>3. ASSUME NEW r \in Runner, TerminateOrphan(r) \/ TerminateRemoved(r)
      PROVE  Goal
  <2>1. KeepTags /\ late' = late /\ (Done("orphans", r) \/ Done("evaluate", r))
    BY <1>3 DEF TerminateOrphan, TerminateRemoved, Terminate
  <2>2. Free
    BY <2>1, DoneRun DEF Phases
  <2> QED
    BY <2>1, <2>2 DEF KeepTags, ScaleDownTypeOK, Phases, TagIsCovered, IdleIsConfirmed, CondemnedIsOffline
<1>4. ASSUME NEW r \in Runner, EvaluateUnregistered(r) \/ EvaluateFails(r)
      PROVE  Goal
  <2>1. UNCHANGED <<idleCount, idleFor, quiet, slipped, late>> /\ orphan' \in SUBSET Runner
    BY <1>4 DEF EvaluateUnregistered, EvaluateFails, KeepTags, ScaleDownTypeOK
  <2>2. Free
    BY <1>4, DoneRun DEF EvaluateUnregistered, EvaluateFails, Phases
  <2> QED
    BY <2>1, <2>2 DEF ScaleDownTypeOK, Phases, TagIsCovered, IdleIsConfirmed, CondemnedIsOffline
<1>5. ASSUME NEW r \in Runner, EvaluateRegistered(r)
      PROVE  Goal
  <2>1. UNCHANGED <<idleCount, orphan, quiet, late, reg>>
    BY <1>5 DEF EvaluateRegistered
  <2>2. ClearIdle(r) \/ UNCHANGED <<idleFor, slipped>>
    BY <1>5 DEF EvaluateRegistered
  <2>3. /\ idleFor' \in [Runner -> -1 .. Window] /\ slipped' \in SUBSET Runner
        /\ \A q \in Runner : idleFor'[q] \in {-1, idleFor[q]} /\ (q \in slipped => q \in slipped')
    BY <2>2, ClearIdleTags DEF ScaleDownTypeOK
  <2>4. sd.phase = "evaluate"
    BY <1>5 DEF EvaluateRegistered
  <2>5. \/ Done("evaluate", r) \/ Handle("busy", r)
        \/ sd.keep > 0 /\ sd' = [sd EXCEPT !.todo = @ \ {r}, !.keep = @ - 1]
    BY <1>5 DEF EvaluateRegistered
  <2>6. sd' \in Runs /\ sd'.phase \in {"evaluate", "busy"}
    <3>1. CASE Done("evaluate", r)
      BY <3>1, DoneRun DEF Phases
    <3>2. CASE Handle("busy", r)
      BY <3>2, HandleRun DEF Phases
    <3>3. CASE sd.keep > 0 /\ sd' = [sd EXCEPT !.todo = @ \ {r}, !.keep = @ - 1]
      <4>1. sd.keep - 1 \in 0 .. MaxIdle /\ sd.todo \ {r} \in SUBSET Runner /\ sd.cur \in SUBSET Runner
        BY <3>3 DEF ScaleDownTypeOK
      <4>2. sd' = [phase |-> sd.phase, todo |-> sd.todo \ {r}, cur |-> sd.cur, keep |-> sd.keep - 1]
        BY <3>3 DEF ScaleDownTypeOK
      <4> QED
        BY <4>1, <4>2, <2>4 DEF Phases
    <3> QED
      BY <2>5, <3>1, <3>2, <3>3
  <2> QED
    BY <2>1, <2>3, <2>6 DEF ScaleDownTypeOK, Phases, TagIsCovered, IdleIsConfirmed, CondemnedIsOffline
<1>6. ASSUME NEW r \in Runner, ReadBusy(r)
      PROVE  Goal
  <2>1. UNCHANGED <<idleCount, orphan, late, reg>> /\ Read(r, -1) /\ ClearIdle(r) /\ Done("evaluate", r)
    BY <1>6 DEF ReadBusy
  <2>2. Free
    BY <2>1, DoneRun DEF Phases
  <2>3. /\ quiet' \in [Runner -> -1 .. Window] /\ quiet'[r] = -1
        /\ \A q \in Runner : q # r => quiet'[q] = quiet[q]
    BY <2>1 DEF Read, ScaleDownTypeOK
  <2>4. TagIsCovered'
    BY <2>1, <2>3, ClearIdleTags DEF TagIsCovered, ScaleDownTypeOK
  <2> QED
    BY <2>1, <2>2, <2>3, <2>4, ClearIdleTags DEF ScaleDownTypeOK, Phases, IdleIsConfirmed, CondemnedIsOffline
<1>7. ASSUME NEW r \in Runner, ReadIdle(r)
      PROVE  Goal
  <2>1. UNCHANGED <<idleCount, orphan, slipped, late, reg>> /\ Read(r, IF quiet[r] < 0 THEN 0 ELSE quiet[r])
    BY <1>7 DEF ReadIdle
  <2>2. /\ quiet' \in [Runner -> -1 .. Window] /\ quiet'[r] >= 0 /\ quiet'[r] >= quiet[r]
        /\ \A q \in Runner : q # r => quiet'[q] = quiet[q]
    BY <2>1 DEF Read, ScaleDownTypeOK
  <2>3. \/ SetIdle(r, 0) /\ Done("evaluate", r)
        \/ UNCHANGED idleFor /\ Done("evaluate", r)
        \/ UNCHANGED idleFor /\ Window \in {0, idleFor[r]} /\ Handle("delete", r)
    BY <1>7 DEF ReadIdle
  <2>4. /\ idleFor' \in [Runner -> -1 .. Window] /\ idleFor'[r] \in {0, idleFor[r]}
        /\ \A q \in Runner : q # r => idleFor'[q] = idleFor[q]
    BY <2>3 DEF SetIdle, ScaleDownTypeOK
  <2>5. \/ Free
        \/ /\ sd' \in Runs /\ sd'.phase = "delete" /\ sd'.cur = {r}
           /\ Window \in {0, idleFor[r]}
    BY <2>3, DoneRun, HandleRun DEF Phases
  <2>6. ScaleDownTypeOK'
    BY <2>1, <2>2, <2>4, <2>5 DEF ScaleDownTypeOK, Phases
  <2>7. TagIsCovered'
    BY <2>1, <2>2, <2>4 DEF TagIsCovered, ScaleDownTypeOK
  <2>8. IdleIsConfirmed'
    BY <2>1, <2>2, <2>5 DEF IdleIsConfirmed, TagIsCovered, ScaleDownTypeOK
  <2> QED
    BY <2>1, <2>5, <2>6, <2>7, <2>8 DEF CondemnedIsOffline
<1>8. ASSUME NEW r \in Runner, Delete(r)
      PROVE  Goal
  <2>1. KeepTags /\ late' = late /\ (Done("evaluate", r) \/ Handle("terminate", r))
    BY <1>8 DEF Delete
  <2>2. sd' \in Runs /\ sd'.phase \in {"evaluate", "terminate"}
    BY <2>1, DoneRun, HandleRun DEF Phases
  <2> QED
    BY <2>1, <2>2 DEF KeepTags, ScaleDownTypeOK, Phases, TagIsCovered, IdleIsConfirmed, CondemnedIsOffline
<1> QED
  BY <1>1, <1>2, <1>3, <1>4, <1>5, <1>6, <1>7, <1>8 DEF ScaleDownStep

LEMMA ScaleDownPreserves ==
  ASSUME IInv, ScaleDownStep \/ Deadline, UNCHANGED <<watcherVars, janitorVars>>
  PROVE  IInv'
<1>1. WatcherTypeOK' /\ JanitorTypeOK'
  BY DEF IInv, TypeOK, WatcherTypeOK, JanitorTypeOK, watcherVars, janitorVars
<1>2. WaitedIsListed' /\ FoundIsGone'
  BY ScaleDownLeaves DEF IInv, TypeOK, WaitedIsListed, FoundIsGone, janitorVars, JanitorTypeOK
<1> QED
  BY <1>1, <1>2, ScaleDownLeaves, ScaleDownFacts DEF IInv, TypeOK

-----------------------------------------------------------------------------
\* No step breaks the inductive invariant.
LEMMA NextInvariant == IInv /\ [Next]_vars => IInv'
<1> SUFFICES ASSUME IInv, [Next]_vars PROVE IInv'
  OBVIOUS
<1>1. CASE Tick
  BY <1>1, TickStep
<1>2. CASE ScaleDownNext \/ (Deadline /\ UNCHANGED <<watcherVars, janitorVars>>)
  BY <1>2, ScaleDownPreserves DEF ScaleDownNext
<1>3. CASE \E r \in Runner : Settles(r) \/ Happens(r)
  BY <1>3, LifeStep
<1>4. CASE \E r \in Runner : WatcherNext(r)
  BY <1>4, WatcherPreserves
<1>5. CASE \E r \in Runner :
             JanitorNext(r) \/ (ConfirmFails(r) /\ UNCHANGED <<scaleDownVars, watcherVars>>)
  BY <1>5, JanitorPreserves
<1>6. CASE UNCHANGED vars
  BY <1>6 DEF vars, lifeVars, scaleDownVars, watcherVars, janitorVars, IInv, TypeOK, LifeTypeOK,
              ScaleDownTypeOK, WatcherTypeOK, JanitorTypeOK, TagIsCovered, IdleIsConfirmed,
              CondemnedIsOffline, WaitedIsListed, FoundIsGone, Now, Live
<1> QED
  BY <1>1, <1>2, <1>3, <1>4, <1>5, <1>6 DEF Next

\* The invariant holds for ever.
LEMMA Invariant == Spec => []IInv
BY InitInvariant, NextInvariant, PTL DEF Spec

\* Every variable keeps its type: no counter of the three Lambdas leaves its
\* range, and the idle count is never decremented below zero.
THEOREM TypeCorrect == Spec => []TypeOK
<1>1. IInv => TypeOK
  BY DEF IInv
<1> QED
  BY <1>1, Invariant, PTL

\* Scale-down removes a runner for being idle only after not-busy readings
\* that span the window, unless a tag was not removed (scale-down.ts:282).
THEOREM IdleAlwaysConfirmed == Spec => []IdleIsConfirmed
<1>1. IInv => IdleIsConfirmed
  BY DEF IInv
<1> QED
  BY <1>1, Invariant, PTL

\* An orphan is terminated only when it is of no use, unless it came online
\* after its last-chance check.
THEOREM OrphansAreUseless == Spec => OrphanIsUseless
<1>1. IInv /\ [Next]_vars => [\A r \in Runner : TerminateOrphan(r) => reg[r] # "online" \/ r \in late]_vars
  BY DEF IInv, CondemnedIsOffline, TerminateOrphan
<1> QED
  BY <1>1, Invariant, PTL DEF Spec, OrphanIsUseless

\* The janitor deletes no registration of an instance that exists, for every
\* confirmation delay above EC2's delay in showing a new instance.
THEOREM JanitorAlwaysSparesLive == Spec => JanitorSparesLive
<1>1. IInv /\ [Next]_vars => [\A r \in Runner : Remove(r) /\ Stale(r) => ~Live(r)]_vars
  BY DEF IInv, FoundIsGone, Remove
<1> QED
  BY <1>1, Invariant, PTL DEF Spec, JanitorSparesLive
=============================================================================
