------------------------------ MODULE WarmLease ------------------------------
(****************************************************************************)
(* What a claim on the warm pool index promises (docs/warm-pool.md, "no     *)
(* lease, one claim per instance"): an instance is in the hands of at most  *)
(* one scale-up invocation, and the pool withdraws only instances that are  *)
(* in nobody's hands.  The promise ends for an instance whose index entry   *)
(* is deleted under the claim: that lease is void.                          *)
(****************************************************************************)
EXTENDS FiniteSets

CONSTANTS Instance, Invocation

VARIABLES
  holder,     \* the invocations that hold each instance under a lease
  withdrawn,  \* instances the pool has terminated
  void        \* instances whose lease was deleted

leaseVars == <<holder, withdrawn, void>>

LeaseInit ==
  /\ holder = [i \in Instance |-> {}]
  /\ withdrawn = {}
  /\ void = {}

Acquire(o, i) ==
  /\ holder[i] = {}
  /\ i \notin withdrawn \cup void
  /\ holder' = [holder EXCEPT ![i] = {o}]
  /\ UNCHANGED <<withdrawn, void>>

\* An invocation lets go of one instance, or ends and lets go of all of them.
LetGo(o, S) ==
  /\ \A i \in S : holder[i] = {o}
  /\ holder' = [i \in Instance |-> IF i \in S THEN {} ELSE holder[i]]
  /\ UNCHANGED <<withdrawn, void>>

Withdraw(i) ==
  /\ holder[i] = {}
  /\ withdrawn' = withdrawn \cup {i}
  /\ UNCHANGED <<holder, void>>

\* The lease record is deleted, whether its holder still works on the instance or ended.
Void(i) ==
  /\ holder' = [holder EXCEPT ![i] = {}]
  /\ void' = void \cup {i}
  /\ UNCHANGED withdrawn

LeaseNext ==
  \/ \E o \in Invocation, i \in Instance : Acquire(o, i)
  \/ \E o \in Invocation, S \in SUBSET Instance : LetGo(o, S)
  \/ \E i \in Instance : Withdraw(i) \/ Void(i)

LeaseSpec == LeaseInit /\ [][LeaseNext]_leaseVars
=============================================================================
