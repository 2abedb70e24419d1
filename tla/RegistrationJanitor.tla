------------------------ MODULE RegistrationJanitor ------------------------
(****************************************************************************)
(* The registration janitor (registration-janitor.ts): registrations that   *)
(* are offline, idle and without an instance are queued, and removed when   *)
(* they still are so after the confirmation delay.                          *)
(****************************************************************************)
EXTENDS RunnerLife

CONSTANT Confirmation  \* confirmationSeconds, 900 s

ASSUME JanitorAssumption == Confirmation \in Nat \ {0}

VARIABLES
  candidate, \* time since observedAt of the message about it, capped; -1 without one
  found      \* registrations confirm has passed provider.exists for

janitorVars == <<candidate, found>>

JanitorTypeOK == candidate \in [Runner -> -1 .. Confirmation] /\ found \subseteq Runner
JanitorInit   == candidate = [r \in Runner |-> -1] /\ found = {}

JanitorTick ==
  /\ candidate' = [r \in Runner |-> IF candidate[r] < 0 THEN -1 ELSE Capped(candidate[r], Confirmation)]
  /\ UNCHANGED found

Candidate(r, n) == candidate' = [candidate EXCEPT ![r] = n]
\* Changed: the test of the flag is turned round.
StaleBusy(r) == reg[r] = "offline" /\ busy[r]

Stale(r) == reg[r] = "offline" /\ ~busy[r]

\* provider.exists: EC2 may not show an instance in its first moment.
MayMiss(r) == ~Live(r) \/ age = 0

\* One message per registration at a time; another would find the same.
Discover(r) ==
  /\ candidate[r] = -1 /\ Stale(r) /\ MayMiss(r)
  /\ Candidate(r, 0)
  /\ UNCHANGED <<lifeVars, found>>

\* Changed: the message is taken whenever it arrives.
ElapsedAny(r) == candidate[r] >= 0

Elapsed(r) == candidate[r] = Confirmation

\* The group still lists the registration, and the instance does not exist.
Confirm(r) ==
  /\ Elapsed(r) /\ r \notin found
  /\ \/ Registered(r) /\ MayMiss(r) /\ found' = found \cup {r} /\ UNCHANGED candidate
     \/ ~(Registered(r) /\ ~Live(r)) /\ Candidate(r, -1) /\ UNCHANGED found
  /\ UNCHANGED lifeVars

\* The registration is read a last time and deleted.
Remove(r) ==
  /\ r \in found /\ found' = found \ {r}
  /\ Candidate(r, -1)
  /\ IF Stale(r) THEN Deregister(r) ELSE UNCHANGED <<reg, job>>
  /\ UNCHANGED <<ec2, busy, age, faults>>

\* A call fails or the Lambda ends: the message comes back, or is discarded.
ConfirmFails(r) ==
  /\ candidate[r] >= 0
  /\ Fault
  /\ found' = found \ {r}
  /\ \E n \in {-1, candidate[r]} : Candidate(r, n)
  /\ UNCHANGED <<ec2, reg, job, busy, age>>

JanitorStep(r) == Discover(r) \/ Confirm(r) \/ Remove(r)
=============================================================================
