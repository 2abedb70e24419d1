----------------------------- MODULE RunnerLife -----------------------------
(****************************************************************************)
(* An ephemeral runner between its launch and its removal: the EC2          *)
(* instance, its registration in GitHub, and what GitHub reports of it.     *)
(* Its busy flag is set some time after the assignment of a job, may be     *)
(* wrong (scale-down.ts:276), and outlives a runner that dies at work.      *)
(****************************************************************************)
EXTENDS Integers, FiniteSets

CONSTANTS
  Runner,    \* instances, numbered in the order of the eviction strategy
  BootTime,  \* runner_boot_time_in_minutes
  MinTime,   \* minimum_running_time_in_minutes
  Window,    \* SCALE_DOWN_IDLE_CONFIRMATION_SECONDS
  MaxFaults  \* bound on calls that fail and on instances that misbehave

ASSUME LifeAssumption ==
  Runner \subseteq Nat /\ BootTime \in Nat /\ MinTime \in Nat /\ Window \in Nat /\ MaxFaults \in Nat

VARIABLES
  ec2,   \* EC2's state; "doomed" is a running instance with an interruption notice
  reg,   \* the registration: none yet, offline, online, removed
  job,   \* the runner executes a job
  busy,  \* the busy flag GitHub reports
  age,   \* time since the launch, capped at LaterOf(BootTime, MinTime)
  faults \* faults left

lifeVars == <<ec2, reg, job, busy, age, faults>>

LaterOf(a, b) == IF a > b THEN a ELSE b
Capped(n, cap) == IF n < cap THEN n + 1 ELSE n
AgeCap == LaterOf(LaterOf(BootTime, MinTime), 1)

LifeTypeOK ==
  /\ ec2 \in [Runner -> {"running", "doomed", "terminated"}]
  /\ reg \in [Runner -> {"none", "offline", "online", "removed"}]
  /\ job \in [Runner -> BOOLEAN] /\ busy \in [Runner -> BOOLEAN]
  /\ age \in 0 .. AgeCap
  /\ faults \in 0 .. MaxFaults

LifeInit ==
  /\ ec2 \in [Runner -> {"running", "terminated"}]
  /\ reg = [r \in Runner |-> IF ec2[r] = "running" THEN "none" ELSE "removed"]
  /\ job = [r \in Runner |-> FALSE] /\ busy = [r \in Runner |-> FALSE]
  /\ age = 0
  /\ faults \in 0 .. MaxFaults

Fault == faults > 0 /\ faults' = faults - 1

Live(r) == ec2[r] # "terminated"
Registered(r) == reg[r] \in {"offline", "online"}
SetReg(r, s) == reg' = [reg EXCEPT ![r] = s]
SetEc2(r, s) == ec2' = [ec2 EXCEPT ![r] = s]

\* DELETE of a runner: GitHub answers 422 while it takes it for busy, and 404
\* when there is none.  A job GitHub does not know of is lost.
Deletable(r) == Registered(r) /\ ~busy[r]
Deregister(r) == SetReg(r, "removed") /\ job' = [job EXCEPT ![r] = FALSE]

-----------------------------------------------------------------------------
\* Scale-up registers the runner; the instance may be gone by then.
Register(r) ==
  /\ reg[r] = "none" /\ SetReg(r, "offline")
  /\ UNCHANGED <<ec2, job, busy, age, faults>>

ComeOnline(r) ==
  /\ Live(r) /\ reg[r] = "offline" /\ ~busy[r] /\ SetReg(r, "online")
  /\ UNCHANGED <<ec2, job, busy, age, faults>>

Assign(r) ==
  /\ Live(r) /\ reg[r] = "online" /\ ~job[r]
  /\ job' = [job EXCEPT ![r] = TRUE]
  /\ UNCHANGED <<ec2, reg, busy, age, faults>>

\* GitHub's flag catches up with the job, or reads false in the middle of it.
ReportBusy(r) ==
  /\ job[r]
  /\ busy' = [busy EXCEPT ![r] = ~busy[r]]
  /\ IF busy[r] THEN Fault ELSE UNCHANGED faults
  /\ UNCHANGED <<ec2, reg, job, age>>

\* The job ends: GitHub forgets the ephemeral runner, whose instance
\* terminates itself, or fails to.
FinishJob(r) ==
  /\ job[r] /\ Live(r)
  /\ Deregister(r)
  /\ busy' = [busy EXCEPT ![r] = FALSE]
  /\ \/ SetEc2(r, "terminated") /\ UNCHANGED faults
     \/ Fault /\ UNCHANGED ec2
  /\ UNCHANGED age

\* The runner dies and the instance lives on.
Disconnect(r) ==
  /\ Live(r) /\ reg[r] = "online"
  /\ Fault
  /\ SetReg(r, "offline") /\ job' = [job EXCEPT ![r] = FALSE]
  /\ UNCHANGED <<ec2, busy, age>>

\* GitHub notices that a runner is gone, and later that its job is.
GoOffline(r) ==
  /\ ~Live(r) /\ reg[r] = "online" /\ SetReg(r, "offline")
  /\ UNCHANGED <<ec2, job, busy, age, faults>>
ClearBusy(r) ==
  /\ reg[r] = "offline" /\ busy[r] /\ busy' = [busy EXCEPT ![r] = FALSE]
  /\ UNCHANGED <<ec2, reg, job, age, faults>>

\* EC2 takes an interrupted spot instance.
Die(r) ==
  /\ ec2[r] = "doomed" /\ SetEc2(r, "terminated")
  /\ job' = [job EXCEPT ![r] = FALSE]
  /\ UNCHANGED <<reg, busy, age, faults>>
=============================================================================
