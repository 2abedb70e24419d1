----------------------------- MODULE ScaleDown -----------------------------
(****************************************************************************)
(* A run of scale-down (control-plane/src/scale-runners/scale-down.ts on    *)
(* the unpaged EC2 listing): the orphans marked by earlier runs are checked *)
(* once more and terminated, then the other runners are evaluated one by    *)
(* one.  A run may end before any call, for its deadline.                   *)
(****************************************************************************)
EXTENDS RunnerLife

CONSTANT MaxIdle  \* bound on the idle count

ASSUME ScaleDownAssumption == MaxIdle \in Nat

VARIABLES
  idleCount, \* getIdleRunnerCount of the period the runs are in
  orphan,  \* the ghr:orphan tags
  idleFor, \* time since ghr:idle_detected_at, capped at Window; -1 without the tag
  sd,      \* the run
  quiet,   \* history: time since the first of the uninterrupted not-busy readings, or -1
  slipped, \* history: a tag was not removed after a busy reading
  late     \* history: the runner came online after its last-chance check

scaleDownVars == <<idleCount, orphan, idleFor, sd, quiet, slipped, late>>

\* cur: the runner dealt with; todo: those still to come; keep: idleRemaining.
Off == [phase |-> "off", todo |-> {}, cur |-> {}, keep |-> 0]

ScaleDownTypeOK ==
  /\ idleCount \in 0 .. MaxIdle
  /\ orphan \subseteq Runner
  /\ idleFor \in [Runner -> -1 .. Window] /\ quiet \in [Runner -> -1 .. Window]
  /\ sd \in [phase : {"off", "orphans", "condemned", "evaluate", "busy", "delete", "terminate"},
             todo : SUBSET Runner, cur : SUBSET Runner, keep : 0 .. MaxIdle]
  /\ slipped \subseteq Runner /\ late \subseteq Runner

ScaleDownInit ==
  /\ idleCount \in 0 .. MaxIdle
  /\ orphan = {} /\ slipped = {} /\ late = {}
  /\ idleFor = [r \in Runner |-> -1] /\ quiet = [r \in Runner |-> -1]
  /\ sd = Off

\* Time passes for the tags as well.
ScaleDownTick ==
  /\ idleFor' = [r \in Runner |-> IF idleFor[r] < 0 THEN idleFor[r] ELSE Capped(idleFor[r], Window)]
  /\ quiet' = [r \in Runner |-> IF quiet[r] < 0 THEN quiet[r] ELSE Capped(quiet[r], Window)]
  /\ UNCHANGED <<idleCount, orphan, sd, slipped, late>>

-----------------------------------------------------------------------------
Now(phase) == sd.phase = phase
Handle(phase, r) == sd' = [sd EXCEPT !.phase = phase, !.cur = {r}]
Done(phase, r)   == sd' = [sd EXCEPT !.phase = phase, !.cur = {}, !.todo = @ \ {r}]
KeepLife == UNCHANGED lifeVars
KeepTags == UNCHANGED <<idleCount, orphan, idleFor, quiet, slipped>>

SetIdle(r, n) == idleFor' = [idleFor EXCEPT ![r] = n]
Read(r, n)    == quiet' = [quiet EXCEPT ![r] = n]

\* Changed: the tag stays when the runner is busy again.
NoClearIdle(r) == UNCHANGED <<idleFor, faults, slipped>>

\* clearIdleDetection: the tag is removed, or the call fails and is logged.
ClearIdle(r) ==
  \/ SetIdle(r, -1) /\ UNCHANGED <<faults, slipped>>
  \/ idleFor[r] >= 0 /\ Fault /\ slipped' = slipped \cup {r} /\ UNCHANGED idleFor

Start ==
  /\ Now("off")
  /\ sd' = [Off EXCEPT !.phase = "orphans", !.todo = {r \in orphan : Live(r)}]
  /\ late' = {}
  /\ KeepLife /\ KeepTags

\* Changed: an idle runner counts as an orphan.
IsOrphanIdle(r) == ~Registered(r) \/ ~busy[r]

\* lastChanceCheckOrphanRunner.
IsOrphan(r) == ~Registered(r) \/ (reg[r] = "offline" /\ busy[r])

CheckOrphan(r) ==
  /\ Now("orphans") /\ r \in sd.todo
  /\ \/ /\ IsOrphan(r)
        /\ Handle("condemned", r) /\ UNCHANGED <<orphan, faults>>
     \/ /\ ~IsOrphan(r)
        /\ Done("orphans", r) /\ orphan' = orphan \ {r} /\ UNCHANGED faults
     \/ /\ Fault                     \* a request or the untagging fails
        /\ Done("orphans", r) /\ UNCHANGED orphan
  /\ UNCHANGED <<ec2, reg, job, busy, age, idleCount, idleFor, quiet, slipped, late>>

\* terminate: EC2 accepts, or the error is logged.
Terminate(phase, r) ==
  /\ Done(phase, r)
  /\ \/ /\ SetEc2(r, "terminated") /\ job' = [job EXCEPT ![r] = FALSE]
        /\ UNCHANGED faults
     \/ Fault /\ UNCHANGED <<ec2, job>>
  /\ UNCHANGED <<reg, busy, age, late>>
  /\ KeepTags

TerminateOrphan(r) == Now("condemned") /\ r \in sd.cur /\ Terminate("orphans", r)

\* The second listing.
List ==
  /\ Now("orphans") /\ sd.todo = {}
  /\ sd' = [Off EXCEPT !.phase = "evaluate", !.todo = {r \in Runner \ orphan : Live(r)}, !.keep = idleCount]
  /\ UNCHANGED late
  /\ KeepLife /\ KeepTags

\* Changed: in the order of the listing.
AnyRunner(r) == r \in sd.todo

\* The runners are sorted by launch time, so that every run keeps the same.
InTurn(r) == r \in sd.todo /\ \A q \in sd.todo : r <= q

\* A runner without a registration whose boot time is over is marked.
EvaluateUnregistered(r) ==
  /\ Now("evaluate") /\ InTurn(r) /\ ~Registered(r)
  /\ Done("evaluate", r)
  /\ \/ age >= BootTime /\ orphan' = orphan \cup {r} /\ UNCHANGED faults
     \/ age >= BootTime /\ Fault /\ UNCHANGED orphan
     \/ age < BootTime /\ UNCHANGED <<orphan, faults>>
  /\ UNCHANGED <<ec2, reg, job, busy, age, idleCount, idleFor, quiet, slipped, late>>

\* Changed: the idle count is decremented once too often.
EvaluateKept(r) ==
  /\ Now("evaluate") /\ InTurn(r) /\ Registered(r)
  /\ sd' = [sd EXCEPT !.todo = @ \ {r}, !.keep = @ - 1]
  /\ ClearIdle(r)
  /\ UNCHANGED <<ec2, reg, job, busy, age, idleCount, orphan, quiet, late>>

\* A registered one is left alone while young, kept idle, or looked at closer.
EvaluateRegistered(r) ==
  /\ Now("evaluate") /\ InTurn(r) /\ Registered(r)
  /\ \/ /\ age < MinTime
        /\ Done("evaluate", r) /\ UNCHANGED <<faults, idleFor, slipped>>
     \/ /\ age >= MinTime /\ sd.keep > 0
        /\ sd' = [sd EXCEPT !.todo = @ \ {r}, !.keep = @ - 1]
        /\ ClearIdle(r)
     \/ /\ age >= MinTime /\ sd.keep = 0
        /\ Handle("busy", r) /\ UNCHANGED <<faults, idleFor, slipped>>
  /\ UNCHANGED <<ec2, reg, job, busy, age, idleCount, orphan, quiet, late>>

\* The request for the registrations fails: the runner is skipped.
EvaluateFails(r) ==
  /\ Now("evaluate") /\ InTurn(r)
  /\ Fault
  /\ Done("evaluate", r)
  /\ UNCHANGED <<ec2, reg, job, busy, age, late>> /\ KeepTags

\* removeRunner reads the flag again; a runner not found counts as not busy.
ReadBusy(r) ==
  /\ Now("busy") /\ r \in sd.cur
  /\ busy[r] /\ Registered(r)
  /\ Read(r, -1)
  /\ ClearIdle(r)
  /\ Done("evaluate", r)
  /\ UNCHANGED <<ec2, reg, job, busy, age, idleCount, orphan, late>>

\* idleConfirmed: the first such reading sets the tag, one after the window goes on.
ReadIdle(r) ==
  /\ Now("busy") /\ r \in sd.cur
  /\ ~busy[r] \/ ~Registered(r)
  /\ Read(r, IF quiet[r] < 0 THEN 0 ELSE quiet[r])
  /\ \/ Window > 0 /\ idleFor[r] < 0 /\ Done("evaluate", r) /\ SetIdle(r, 0) /\ UNCHANGED faults
     \/ Window > 0 /\ idleFor[r] < 0 /\ Done("evaluate", r) /\ Fault /\ UNCHANGED idleFor
     \/ idleFor[r] \in 0 .. Window - 1 /\ Done("evaluate", r) /\ UNCHANGED <<idleFor, faults>>
     \/ Window \in {0, idleFor[r]} /\ Handle("delete", r) /\ UNCHANGED <<idleFor, faults>>
  /\ UNCHANGED <<ec2, reg, job, busy, age, idleCount, orphan, slipped, late>>

\* deleteGitHubRunner: any failure keeps the instance for the next run.
Delete(r) ==
  /\ Now("delete") /\ r \in sd.cur
  /\ \/ Deletable(r) /\ Deregister(r) /\ Handle("terminate", r) /\ UNCHANGED faults
     \/ ~Deletable(r) /\ Done("evaluate", r) /\ UNCHANGED <<reg, job, faults>>
     \/ Deletable(r) /\ Fault /\ Done("evaluate", r) /\ UNCHANGED <<reg, job>>
  /\ UNCHANGED <<ec2, busy, age, late>> /\ KeepTags

TerminateRemoved(r) == Now("terminate") /\ r \in sd.cur /\ Terminate("evaluate", r)

Finish ==
  /\ Now("evaluate") /\ sd.todo = {}
  /\ sd' = Off
  /\ UNCHANGED late
  /\ KeepLife /\ KeepTags

\* Less than ten seconds are left, or the Lambda ends.
Deadline ==
  /\ ~Now("off")
  /\ Fault
  /\ sd' = Off
  /\ UNCHANGED <<ec2, reg, job, busy, age, late>> /\ KeepTags

ScaleDownStep ==
  \/ Start \/ List \/ Finish
  \/ \E r \in Runner :
       \/ CheckOrphan(r) \/ TerminateOrphan(r)
       \/ EvaluateUnregistered(r) \/ EvaluateRegistered(r) \/ EvaluateFails(r)
       \/ ReadBusy(r) \/ ReadIdle(r) \/ Delete(r) \/ TerminateRemoved(r)
=============================================================================
