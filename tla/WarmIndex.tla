------------------------------ MODULE WarmIndex ------------------------------
(****************************************************************************)
(* The warm pool index: one DynamoDB item per warm-pool instance            *)
(* (libs/compute-providers/aws/ec2/src/warm-index.ts).  Scale-up, the pool  *)
(* Lambda and the stop-event consumer reach it only through the conditional *)
(* writes below; each is atomic, as a DynamoDB UpdateItem or DeleteItem is. *)
(*                                                                          *)
(* Epoch timestamps are kept as the time left until they pass, so that the  *)
(* state space stays finite: a claim is live while left >= 0, which is the  *)
(* code's claimUntil >= now.                                                *)
(****************************************************************************)
EXTENDS Integers

CONSTANTS
  Instance,        \* EC2 instance identifiers
  Invocation,      \* scale-up invocations; each owns one randomUUID()
  None,            \* no owner
  ClaimTTL,        \* WARM_CLAIM_TTL_SECONDS, in ticks
  Cooldown,        \* WARM_START_COOLDOWN_SECONDS, in ticks
  StartFailureLimit \* WARM_START_FAILURE_LIMIT: failures are not counted past it

ASSUME IndexAssumption ==
  /\ None \notin Invocation
  /\ None \notin Instance
  /\ ClaimTTL \in Nat
  /\ Cooldown \in Nat
  /\ StartFailureLimit \in Nat \ {0}

VARIABLE index

ItemState == {"ABSENT", "PRIMING", "WARM", "GARBAGE", "ACTIVATED"}

Item == [state : ItemState,
         owner : Invocation \cup {None},
         left  : -1 .. ClaimTTL,
         cool  : 0 .. Cooldown,
         fails : 0 .. StartFailureLimit]

\* The item of an instance the table has no entry for.
NoItem == [state |-> "ABSENT", owner |-> None, left |-> -1, cool |-> 0, fails |-> 0]

IndexInit == index = [i \in Instance |-> NoItem]

Tracked(i) == index[i].state # "ABSENT"

\* attribute_exists(claimUntil) AND claimUntil >= :now
LiveClaim(i) == index[i].owner # None /\ index[i].left >= 0

-----------------------------------------------------------------------------
InState(item, s) == [item EXCEPT !.state = s]

\* Mutant of IndexUpdate: the upsert also overwrites an activated item.
IndexUpdateAny(i, s) == index' = [index EXCEPT ![i] = InState(@, s)]

\* update: an upsert that never overwrites an activated item and keeps the claim.
IndexUpdate(i, s) ==
  index' = IF index[i].state = "ACTIVATED" THEN index
           ELSE [index EXCEPT ![i] = InState(@, s)]

\* Mutant of MarkWarm: the write does not look at the state.
MarkWarmAlways(i) == index' = [index EXCEPT ![i] = InState(@, "WARM")]

\* markWarm: WARM only while the item is still PRIMING.
MarkWarm(i) ==
  index' = IF index[i].state = "PRIMING" THEN [index EXCEPT ![i] = InState(@, "WARM")]
           ELSE index

\* remove: unconditional.
Remove(i) == index' = [index EXCEPT ![i] = NoItem]

\* Mutant of CanRemoveUnclaimed: a claim that ends now no longer counts.
CanRemoveEarly(i) == index[i].owner = None \/ index[i].left <= 0

\* removeUnclaimed resolves true exactly when no live claim is on the item.
CanRemoveUnclaimed(i) == ~LiveClaim(i)

\* Mutants of CanClaim: one ignores claims, one the state of the item.
CanClaimWarm(i)      == index[i].state = "WARM"
CanClaimUnclaimed(i) == ~LiveClaim(i)

\* claim resolves true exactly when the item is warm and no live claim is on it.
CanClaim(i) == index[i].state = "WARM" /\ ~LiveClaim(i)

\* Mutant of Claimed: the owner is written, the new claimUntil is not.
ClaimedForNoTime(item, o) == [item EXCEPT !.owner = o]

Claimed(item, o) == [item EXCEPT !.owner = o, !.left = ClaimTTL]
Unclaimed(item)  == [item EXCEPT !.owner = None, !.left = -1]

Claim(o, i) ==
  index' = IF CanClaim(i) THEN [index EXCEPT ![i] = Claimed(@, o)] ELSE index

\* release, releaseWithCooldown and markUnusable act only for the claim's owner.
Release(o, i) ==
  index' = IF index[i].owner = o THEN [index EXCEPT ![i] = Unclaimed(@)]
           ELSE index

CooledDown(item) ==
  [item EXCEPT !.cool = Cooldown,
               !.fails = IF @ < StartFailureLimit THEN @ + 1 ELSE @]

ReleaseWithCooldown(o, i) ==
  index' = IF index[i].owner = o THEN [index EXCEPT ![i] = CooledDown(Unclaimed(@))]
           ELSE index

\* Mutant of MarkUnusable: the item keeps the claim.
MarkUnusableOnly(o, i) ==
  index' = IF index[i].owner = o THEN [index EXCEPT ![i] = InState(@, "GARBAGE")] ELSE index

MarkUnusable(o, i) ==
  index' = IF index[i].owner = o
           THEN [index EXCEPT ![i] = InState(Unclaimed(@), "GARBAGE")]
           ELSE index

\* markActivated: an unconditional upsert that drops any claim.
MarkActivated(i) ==
  index' = [index EXCEPT ![i] = InState(Unclaimed(@), "ACTIVATED")]

-----------------------------------------------------------------------------
\* One tick of the clock against the timestamps stored in an item.
Older(item) ==
  [item EXCEPT !.left = IF @ >= 0 THEN @ - 1 ELSE @,
               !.cool = IF @ > 0 THEN @ - 1 ELSE @]

IndexElapse == index' = [i \in Instance |-> Older(index[i])]
=============================================================================
