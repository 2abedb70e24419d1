----------------------------- MODULE Deregister -----------------------------
(****************************************************************************)
(* The termination watcher (termination-watcher/src/deregister.ts behind    *)
(* termination-warning.ts, termination.ts and lambda.ts): the runner of an  *)
(* instance that EC2 takes away is removed from GitHub; a busy one is tried *)
(* again by a delayed message.                                              *)
(****************************************************************************)
EXTENDS RunnerLife

VARIABLES
  warned,   \* events on their way to the watcher
  retrying  \* messages on the retry queue: receive count, or -1

watcherVars == <<warned, retrying>>

MaxReceive == 3  \* maxReceiveCount of the queue

WatcherTypeOK ==
  /\ warned \subseteq Runner
  /\ retrying \in [Runner -> -1 .. MaxReceive - 1]

WatcherInit ==
  /\ warned = {}
  /\ retrying = [r \in Runner |-> -1]

Retrying(r, n) == retrying' = [retrying EXCEPT ![r] = n]

\* The spot interruption; its warning arrives, or not.
Interrupt(r) ==
  /\ ec2[r] = "running"
  /\ Fault
  /\ SetEc2(r, "doomed")
  /\ warned' \in {warned, warned \cup {r}}
  /\ UNCHANGED <<reg, job, busy, age, retrying>>

\* deregisterRunner: every error but the refusal is logged and forgotten.
DeregisterRunner(r) ==
  /\ r \in warned /\ warned' = warned \ {r}
  /\ \/ Deletable(r) /\ Deregister(r) /\ UNCHANGED <<faults, retrying>>
     \/ ~Registered(r) /\ UNCHANGED <<reg, job, faults, retrying>>
     \/ Registered(r) /\ busy[r] /\ Retrying(r, 0) /\ UNCHANGED <<reg, job, faults>>
     \/ Registered(r) /\ Fault /\ UNCHANGED <<reg, job, retrying>>
  /\ UNCHANGED <<ec2, busy, age>>

\* handleDeregisterRetry: a refusal sends a new message, whose receive count
\* starts again; any other error counts until the dead-letter queue has it.
HandleDeregisterRetry(r) ==
  /\ retrying[r] >= 0
  /\ \/ Deletable(r) /\ Deregister(r) /\ Retrying(r, -1) /\ UNCHANGED <<faults>>
     \/ ~Registered(r) /\ Retrying(r, -1) /\ UNCHANGED <<reg, job, faults>>
     \/ Registered(r) /\ busy[r] /\ Retrying(r, 0) /\ UNCHANGED <<reg, job, faults>>
     \/ /\ Registered(r) /\ Fault
        /\ Retrying(r, IF retrying[r] + 1 < MaxReceive THEN retrying[r] + 1 ELSE -1)
        /\ UNCHANGED <<reg, job>>
  /\ UNCHANGED <<ec2, busy, age, warned>>

WatcherStep(r) == DeregisterRunner(r) \/ HandleDeregisterRetry(r)
=============================================================================
