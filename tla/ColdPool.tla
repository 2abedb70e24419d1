----------------------------- MODULE ColdPool -----------------------------
(****************************************************************************)
(* The cold pool (adjust in control-plane/src/pool/pool.ts): keep a number  *)
(* of idle runners.  GitHub's runner statuses are read first, the running   *)
(* instances later; what came up in between counts as booting.              *)
(****************************************************************************)
EXTENDS ColdLaunch

CONSTANTS
  Pool,         \* the pool's Lambda, one of the actors
  PoolLabel,    \* the labels of the pool's runners
  PoolSize,     \* the size of the schedule that fires
  PoolMaximum,  \* runners_maximum_count as the pool reads it, -1 for none
  MaxPoolRuns   \* bound on the pool's runs

ASSUME PoolAssumption ==
  /\ Pool \in Actor
  /\ PoolLabel \in Label
  /\ PoolSize \in Nat
  /\ PoolMaximum \in Nat \cup {-1}
  /\ MaxPoolRuns \in Nat

VARIABLES
  busySeen,     \* the jobs of the busy runners in the statuses read
  offlineSeen,  \* the offline runners in them, -1 before the statuses are read
  poolRuns,     \* runs left
  overlooked    \* history: the most pending instances a run that tops up did not list

poolVars == <<busySeen, offlineSeen, poolRuns, overlooked>>

PoolTypeOK ==
  /\ busySeen \subseteq Job
  /\ offlineSeen \in Nat \cup {-1}
  /\ poolRuns \in 0 .. MaxPoolRuns
  /\ overlooked \in Nat

PoolInit == busySeen = {} /\ offlineSeen = -1 /\ poolRuns \in 0 .. MaxPoolRuns /\ overlooked = 0

Booting == SumFunction(booting)
PoolEnds == busySeen' = {} /\ offlineSeen' = -1 /\ UNCHANGED poolRuns

\* The statuses of the registered runners are read.
PoolStatuses ==
  /\ LaunchStage(Pool, "off") /\ offlineSeen = -1
  /\ poolRuns > 0 /\ poolRuns' = poolRuns - 1
  /\ busySeen' = {j \in Job : jobs[j] = "running"}
  /\ offlineSeen' = Booting
  /\ UNCHANGED <<coldVars, overlooked>>

\* Instances that are not online: EC2 may still show any of them as pending.
NotOnline == loose + SumFunction([a \in Actor |-> Held(a)]) + Booting

\* Of the running instances, those that were busy or offline do not count, nor
\* those without a registration whose boot time is over; the others do.
Available(running, offline, late) ==
  running - Cardinality({j \in busySeen : jobs[j] = "running"}) - offline - late

\* Changed: the maximum bounds one run, not the runners there are.
TopUpBounded(running, available) == Min({PoolSize - available, PoolMaximum})

TopUp(running, available) ==
  LET topUp == PoolSize - available IN
  IF PoolMaximum = -1 THEN topUp ELSE Min({topUp, PoolMaximum - running})

\* The running instances are listed, not the pending ones, and the missing ones
\* asked for.
PoolList ==
  /\ offlineSeen >= 0
  /\ PoolEnds
  /\ \E pending \in 0 .. NotOnline :
       LET running == CurrentRunners - pending IN
       \E late \in 0 .. Min({loose, NotOnline - pending}) :
       \E offline \in 0 .. Min({offlineSeen, Available(running, 0, late)}) :
         LET topUp == TopUp(running, Available(running, offline, late)) IN
         IF topUp > 0
         THEN /\ launch' = [launch EXCEPT ![Pool] = Begin(Pool, PoolLabel, topUp)]
              /\ overlooked' = Max({overlooked, pending})
         ELSE UNCHANGED <<launch, overlooked>>
  /\ UNCHANGED <<jobs, booting, idle, loose, faults, raced>>

\* The result is not looked at.
PoolDone ==
  /\ LaunchStage(Pool, "done")
  /\ Becomes(Pool, NoLaunch)
  /\ UNCHANGED <<jobs, booting, idle, loose, faults, raced, poolVars>>

\* A call throws or the Lambda ends.
PoolCrash ==
  /\ offlineSeen >= 0 \/ ~LaunchStage(Pool, "off")
  /\ PoolEnds
  /\ Abandon(Pool)
  /\ UNCHANGED <<jobs, booting, idle, faults, raced, overlooked>>

PoolStep == PoolStatuses \/ PoolList \/ PoolDone
=============================================================================
