# Formal models of the AWS GitHub runner control plane

TLA+ models of `src/lambdas`, the TypeScript services that scale self-hosted GitHub
Actions runners on AWS, with the TLC runs that check them and TLAPS proofs about them.

Six parts are modelled, each a small family of modules with a run of its own: the **warm
pool** (stopped instances that several Lambdas claim, start and destroy), **scaling** (scale-up,
job retry, cold pool), **removal** (scale-down, termination watcher, registration janitor), the
**scale-set controller** with its EC2 provider, **app failover** under GitHub's rate limits, and the
**webhook**. In all of them processes that share no memory act on what they read some time ago,
and on services whose calls may fail, or fail after they took effect.

Contents: [1 Inventory](#1-inventory), [2 Plan](#2-plan), [3 Modules and code](#3-modules-and-code),
[4 Runs](#4-runs), [5 Fairness](#5-fairness), [6 Proofs](#6-proofs),
[7 Findings](#7-findings), [8 Limits](#8-limits-of-the-models), [9 How to run](#9-how-to-run).

Paths are relative to `src/`; `ec2/` stands for
`src/lambdas/libs/compute-providers/aws/ec2/src/`, `control-plane/` for
`src/lambdas/functions/control-plane/src/`.

## 1 Inventory

For each component: the state it keeps, its operations, what is hard, and what makes it
correct. The heading says whether the models here cover it.

### Warm pool index — `ec2/warm-index.ts` — partly modelled
- *State.* One DynamoDB item per warm instance: state (PRIMING, WARM, GARBAGE, ACTIVATED),
  `claimOwner`/`claimUntil`, `cooldownUntil`, `startFailures`, `activatedAt`, facts about the
  instance; one reconcile marker item per pool.
- *Operations.* `query`, `update`, `markWarm`, `remove`, `removeUnclaimed`, `claim`, `release`,
  `releaseWithCooldown`, `markUnusable`, `markActivated`, `claimReconcile`.
- *Hard.* Four independent writers; each conditional write is the only synchronisation; a claim
  ends by the clock; an SDK retry of a claim that succeeded fails its own condition.
- *Correct when.* One live claim at a time; an activated item is never put back to standby; the
  entry of an instance in use is not lost.

### Warm instances, EC2 and the boot script — external, `ec2/control-plane/runners.ts`, `modules/runners/templates/start-runner.sh` — partly modelled
- *State.* EC2 instance state, tags (`ghr:warm-activated`, `ghr:warm-expires-at`, Owner, Type),
  runner registration, JIT config in Parameter Store.
- *Operations.* RunInstances, StartInstances, TerminateInstances, CreateTags/DeleteTags; the boot
  script's RUN / PRIME / WAIT modes.
- *Hard.* The boot script decides by what it reads at boot; an instance may be stopped by anyone;
  an API error does not say whether the call took effect.

### Warm activation in scale-up — `ec2/control-plane/warm-activation.ts` — modelled
- *State.* In memory only: candidates, claimed, started, exhausted (type, zone) pairs.
- *Operations.* `activateWarmRunners`, `claimWarmInstances`, `activateBatch`, `rollbackActivation`,
  `destroyUnregistered`.
- *Interacts* with the index, EC2, the tags and GitHub (JIT config).
- *Hard.* Concurrent invocations race for the same candidates; the Lambda may end between any two
  awaits; an error in the middle of a batch must not leak the other claims.
- *Correct when.* No instance in two hands; no more instances than asked for; every claim settled;
  no retry of a (type, zone) known to be out of capacity.

### Warm pool run, stop events, standby sweep — `ec2/control-plane/{pool,warm-pool,stop-events,scale-down}.ts` — partly modelled
- *State.* Per run: listing, index snapshot, pending updates and evictions. Persistent: only the index
  and the fleet.
- *Operations.* `list` (query, `adoptUntracked`, `readStandby`), `syncIndex`, `selectEvictions`,
  `destroy`, refill, `processStopEvents`/`markPrimed`, `sweepStoppedWarmInstances`.
- *Hard.* Everything acts on snapshots; entries must be neither resurrected nor lost; destroying must
  not race activating; leftovers of crashes must eventually be collected.
- *Correct when.* The pool destroys nothing that is being activated; every leftover is adopted,
  settled or destroyed in the end; the pool converges to its size.

### EC2 cold launches — `ec2/runners.ts`, `ec2/control-plane/{runner-creation,create-result,scale-up}.ts` — partly modelled
- *State.* None of its own; per call, the instances still to register, made, failed.
- *Operations.* CreateFleet with fallback to on-demand, registration of each instance, termination of
  those that could not be registered, classification of what is missing as retryable or final.
- *Hard.* Partial fleets; each of four steps fails for a part of the runners; several actors create for one owner.
- *Correct when.* Every runner asked for is made, or reported once.

### Scale-up — `control-plane/scale-runners/scale-up.ts`, `control-plane/lambda.ts` — modelled
- *State.* An SQS batch; the maximum; EC2's count of runners.
- *Operations.* Group by labels, check queued jobs, compute the number of new runners, create them,
  return the messages that must be retried, publish job retries.
- *Hard.* The maximum is checked and then acted on while other invocations and the cold pool do the
  same; which messages of a batch are returned; at-least-once delivery.
- *Correct when.* No queued job is dropped; messages returned match runners missing; the maximum is exceeded neither by one invocation alone nor step by step.

### Job retry — `control-plane/scale-runners/job-retry.ts` — modelled
- *State.* The retry counter in the message.
- *Operations.* Publish with a delay, check again, publish again.
- *Correct when.* A job still queued has a message somewhere until its attempts are used up.

### Cold pool — `control-plane/pool/pool.ts` — modelled
- *Operations.* Read the statuses of runners, list instances, top up to the size.
- *Hard.* Two readings of different times; lists running instances where scale-up counts pending ones too; shares the maximum with scale-up
  without a lock.
- *Correct when.* It exceeds the maximum by no more than its listing left out, and otherwise only by a race.

### Scale-down — `control-plane/scale-runners/scale-down.ts` — partly modelled
- *State.* Tags on instances: orphan, time of the first idle reading; GitHub's runner list and busy flags.
- *Operations.* Terminate orphans after a last check, evaluate the other runners in turn, keep the idle count, confirm
  idleness over a window, deregister, terminate.
- *Hard.* Busy is read, then the runner is deleted, then the instance is terminated; GitHub's flag lags; the Lambda may
  end between any two calls.
- *Correct when.* A runner is removed only when idle for the whole window; an orphan that is terminated is of no use; the fleet
  shrinks to the idle count in the end.

### Termination watcher — `lambdas/functions/termination-watcher/src/` — modelled
- *State.* SQS messages of deregistrations to retry and of registrations to confirm.
- *Operations.* Deregister the runner of a terminating instance, retry when busy (422), find and confirm stale registrations.
- *Hard.* A retry is a new message, so the receive count restarts; EC2 may not show an instance just launched.
- *Correct when.* Every registration without an instance goes in the end, and none with one does.

### Scale-set reconciler — `lambdas/services/scale-set/src/` — modelled
- *State.* Session, latest statistics, lifecycle of runners, health of the group.
- *Operations.* Register or find the scale set, connect, poll a message, delete it, acquire its jobs, observe events,
  reconcile through the provider, reconnect after an error, stop.
- *Hard.* Acknowledges before it processes; events are lost with a restart; sessions expire and are exclusive.
- *Correct when.* Every job offered is served in the end; the fleet stays within its bound; a busy runner is spared.

### EC2 scale-set provider — `ec2/scale-set/` — modelled
- *State.* The tags of an instance: provisioning, publishing, published, with its identity.
- *Operations.* List, launch, configure step by step, choose removals, deregister, terminate.
- *Hard.* An instance whose configuration was interrupted may run a job: it is neither counted nor removed.

### Scale-set client library — `lambdas/libs/github-actions-scale-set/src/` — partly modelled
- *State.* Token of the session's queue, refreshed when it expired. *Hard.* A request that failed may have taken effect.

### GitHub app authentication and failover — `control-plane/github/{auth,app-failover,octokit}.ts` — modelled
- *State.* Observed limits and cooldowns per app and resource; the installation clients of an invocation.
- *Operations.* Select an app, make its client once for all who want it, send, observe the answer, try the next app.
- *Hard.* Requests share clients and observations, and their answers arrive in any order.
- *Correct when.* A known exhaustion is not forgotten early, and is not believed much longer than it lasts; nobody waits
  for a client nobody makes.

### Webhook — `lambdas/functions/webhook/src/` — modelled
- *State.* The configuration cached by an environment.
- *Operations.* Verify, filter, match labels, pick queues (first, random, all), send; directly or behind EventBridge.
- *Hard.* Which queues are "equally good"; one send of several fails; a configuration that cannot be loaded; retries.
- *Correct when.* A job goes to the best queues that match, or somebody is told.

### Not modelled
- *AMI housekeeper, agent syncer*: one sequential scan over external state, without state of their own.
- *Storage providers and configuration housekeeper*: Parameter Store access and batched deletion. The one-time runner configuration itself is
  part of `WarmFleet` (`reg`) and `ScaleSetService` (`param`).
- *Placement of launches* (`ec2/control-plane/warm-placement*.ts`), *dynamic label parsing*, `config.ts` of the
  scale-set service: functions of their inputs on strings and numbers, covered by table tests, without any interleaving.
- *Terraform modules*: read for deployment facts (timeouts, reserved concurrency, schedules), which are assumptions here.

### How the components interact
GitHub → webhook → SQS → **scale-up** → (warm activation, then cold launch) → instance → GitHub. Scale-up publishes to the
**job retry** queue, which publishes back. Schedules drive the **pool runs**, **scale-down** and the **janitor**. EC2 state changes come through
EventBridge to the stop-event consumer and the **termination watcher**. They share EC2, its tags, GitHub's registrations and
the warm index, and no other state. The scale-set service is a long-running alternative to webhook and scale-up.
`PROJECT.json` lists the hazards at the line where they bite.

## 2 Plan

Done, in this order: warm pool, scaling, removal, app failover, scale set, webhook; then proofs for the warm pool, the webhook, the
scale set, removal, scaling and app failover, which now state every invariant and every action property of the runs. What is left, most useful first:

1. Abstract specifications of two custodies, with the refinement proved as for `WarmLease`: of a job on its way through the scale set (offered, in hand, assigned,
   dropped), and of the message of a queued job in `RunnerScaling`.
2. Bounds on the history: how many instances can be loose or torn for a number of faults and crashes.
3. Paged inventories of scale-down, and warm instances among the runners it evaluates.
4. `WarmPlacement`: share dealing and planning against a reference definition over bounded inputs.
5. Warm spot: the binding of persistent requests.

No module declares a RECURSIVE operator.

## 3 Modules and code

| Modules | Model | Composition |
|---|---|---|
| `WarmIndex`, `WarmFleet`, `WarmActivation`, `WarmReconcile` | index writes; instances, boot script, tags; scale-up's activation; pool run, stop events, sweep | `WarmPool` |
| `WarmLease` | abstract: what a claim promises (`docs/warm-pool.md`) | refined by `WarmPool` |
| `ColdLaunch`, `ScaleUp`, `ColdPool` | `createRunners`; batches and job retry; pool | `RunnerScaling` |
| `RunnerLife`, `ScaleDown`, `Deregister`, `RegistrationJanitor` | a runner in EC2 and GitHub; the three that remove it | `RunnerRemoval` |
| `ScaleSetService`, `ScaleSetProvider` | GitHub's scale set and EC2; one `reconcile` call | `ScaleSet` |
| `AppRateLimits` | limits, observations | `AppFailover` |
| `QueueSelection` | label matching, queue choice | `Webhook` |
| `MC...` | the initial states and definitions of a run | |
| `...Proofs` | theorems | |

Warm pool:
- `index` is the table. `ABSENT` is an item that does not exist. `owner`/`left` are
  `claimOwner`/`claimUntil`: timestamps become the time left until they pass, so that a claim is
  live at `left >= 0`, which is the code's `claimUntil >= now`, the last instant included.
- `ec2` merges the EC2 state with the point the boot script reached (`priming`, `waiting`, `job`) and
  keeps apart a stop by the instance's own shutdown (`parked`) and any other (`halted`), which is what
  the state reason code tells the classifier. `tag` is the age of `ghr:warm-activated`, saturating at `Grace`.
- An activation is a program with one `phase` per invocation and one `stage` per instance. Each
  awaited call is a step of its own; so everything another Lambda may do between two awaits is
  interleaved. A call that throws has a variant for "took effect" and one for "did not"; it
  spends one of `faults`. `bestEffort` writes either happen or are dropped and logged.
- `Crash` covers exceptions, aborts and the Lambda timeout, at any step. It needs no fault budget.
- A pool run is a sequence of `poolPhase`s; `seen` and `listed` are its snapshots, and the run acts on
  them however old they are. `PoolRead` states exactly which updates and removals `syncIndex` will make.
- `Tick` moves every clock at once. It is disabled while an active invocation has no time left: that
  invocation must then end (`Crash`), as the Lambda timeout makes it.
- `startedBy`, `loose`, `evicted` and `torn` are history: no action reads them. `loose` marks
  instances whose activation ended without its outcome recorded; `torn` those whose entry
  `syncIndex` removed under a live claim, which it can because `remove` has no condition
  (`pool.ts` drops an entry of a terminated instance or of a settled activation).

Scaling:
- Runners of one owner are alike, so they are counted by label set (`booting`, `idle`, `loose`). A `createRunners` call is a record
  `launch[a]` that goes through `fleet`, `ondemand`, `register`, `terminate`; every instance that is registered or terminated is a step.
- A batch is a sequence of messages; `work[w].back` are the positions that go into `retryMessageIds`, taken from the front of the group by
  `First`, once for the maximum (`Decide`) and once for the failures (`Settle`), as the two slices in the code.
- A message is the job and its retry counter. `raced`, `excused` and `short` are history or bookkeeping for the properties: `raced` is set when
  a call goes on whose count another call has made stale.
- The pool's listing is of running instances. The model does not tell pending from running ones apart; `PoolList` leaves out any number of the instances that are
  not online (`NotOnline`). `overlooked` is the history of it: the most that a run which tops up has left out.

Removal:
- `RunnerLife` is what GitHub and EC2 do with a runner: the busy flag lags the job, may read wrong once, and outlives a runner that dies.
- A run of scale-down goes through `orphans`, `condemned`, `evaluate`, `busy`, `delete`, `terminate`, with `sd.cur` the runner in hand; everything
  else may happen between two calls. `Deadline` ends a run at any of them.
- The tags `ghr:orphan` and `ghr:idle_detected_at` are `orphan` and `idleFor`, a time since. `quiet` is the history the tag should tell: the time since
  the first of an unbroken row of not-busy readings.
- The watcher's retry message carries its receive count; a busy answer sends a new one. The janitor's message carries its age.

Scale set:
- `ScaleSetService` is GitHub's side: one message at a time gathers what happened (`news`), stays until deleted (`box`), and one session is admitted.
  Statistics travel in messages; which runners are busy is kept with them for the properties only, as GitHub gives only the number.
- `pc` is the request the controller makes next. Each action ends at a request, and a fault makes it fail before or after it took effect.
- An error closes the session, forgets the statistics, keeps the lifecycles; `Stop` is a stopped process, which forgets both. `FatalError` is final, and
  the task is replaced only when no other reconciler of the group is live (`others`).
- The provider tags an instance `provisioning`, `publishing`, `published`; only published ones serve (`ServingCapacity`), and the rest are retained.

App failover:
- Times are lengths from now. `quota` is what an app is believed to have left of a resource and for how long; `budget` is what it has.
- An operation walks `chosen`, (`wait` | `lookup`, `mint`), `send`, and after a refusal `again`. Those that wait for a client fail or succeed with the one that makes it.
- Answers carry what was left when GitHub made them, and are observed later, in any order.

Webhook:
- A configuration is a record of flags and matchers; a queue's place in the sorted list is `Before`. `Targets` is the set of possible choices, each a set of queues.
- A delivery is rejected, accepted for the bus, or dispatched; `left` are the messages being sent, in any order, and `sent` the queues that hold one.

Operators commented "Mutant" or "Changed" are plausible bugs; each property is shown to fail when one of them takes the place of the original.

## 4 Runs

| Run | Question | Bounds | States |
|---|---|---|---|
| `clock` | Do claims exclude each other as time passes; is the sweep too early? | 1 instance, 2 invocations, ClaimTTL 1, LambdaTime 1, Grace 2, Expiry 5, no faults | 590,000 |
| `faults` | What survives lost writes, lost answers, interrupted instances? | 1 instance, 2 invocations, 1 fault, ClaimTTL 0, Grace 1, Expiry 3 | 997,000 |
| `activation` | Does a batch over several instances settle each of them? | 3 instances in 2 (type, zone) pairs, 1 invocation asked for up to 2, 2 faults | 685,000 |
| `upkeep` | Is every leftover collected, and every surplus shed? | pool size 1, 1 fault, fairness; 1 instance and 1 invocation, or 2 instances | 165,000 |
| `scaling` | Is every job served or given up, and every runner accounted for? | maximum 2; 2 jobs and 1 fault, or 1 job, up to 2 pool runs | 327,000 |
| `removal` | Is what is useless removed, and nothing else? | 1 runner and 3 faults, or 2 runners, idle count up to 1 | 72,000 |
| `scale_set` | Is every offered job served, within the bound of the fleet? | 3 instances; 2 jobs, or 1 job and up to 2 faults | 212,000 |
| `failover` | Are limits used and kept, and requests served? | 2 apps, 2 requests, budgets 2 and 1, window 2, up to 1 fault | 295,000 |
| `webhook` | Does a job reach the best queues, or is somebody told? | 3 queues of any flags; 2 deliveries and 3 faults | 174,000 |
| `one_start` | finding 1 | as `clock` | |
| `active` | finding 2 | 1 instance, 1 invocation | |
| `pool_maximum` | finding 3 | as `scaling` | |

What they show.
- **`clock`**. `ExclusiveActivation`: two invocations never work on one instance. `IInv`,
  the inductive invariant of the proofs. `SweepSparesFirstActivation`: the sweep lists
  and destroys later, so an expired standby listed by it could be activated in between; the margin
  in `Candidate` (`expires > Grace`) prevents it unless an earlier activation of the instance
  was left loose. The expiry of 5 leaves room for a full activation before, at and after the margin.
- **`faults`**. `PoolSparesHeld`, `RecordedActivationIsTagged`, `SecondStartNeedsLooseEnd`
  and the refinement `LeaseSpec`. With ClaimTTL and LambdaTime 0 claims expire at the first tick, so
  expiry races with every step.
- **`activation`**. From a filled pool: `ClaimsWithinDemand` across stale entries, fallbacks and
  further batches; `ExhaustedPairsAreLeftAlone`; `EndedClaimsAreLoose`: every way out of the batch
  settles its claim. Two instances share a pair and a third does not, so both answers of the
  capacity check occur; two faults allow a capacity failure and a failed write in one behaviour.
- **`upkeep`**. `UntrackedIsAdopted`, `GoneIsForgotten`, `AbandonedIsSettled`, `StandbyIsNotStuck`; and
  `SurplusIsShed`: the fault loses the index write of a launched instance, so that the
  next run launches another; the scan adopts the lost one and the pool is over its size. There are two scenes, chosen at the start
  (`young`): one instance with an invocation, or two instances without one. In the second
  standbys do not expire, otherwise the expiry sweep would shed them anyway.
- **`scaling`**. `QueuedJobIsTracked`: a queued job always has a message in a queue or a batch, unless its attempts ran out or a publication
  was lost (which `sqs.ts` logs and forgets). `ShortfallGoesBack`: as many messages go back as runners are missing, over both slices.
  `AllAccountedFor`: made, retryable and final runners add up. `MaximumUnlessRaced`: the maximum is exceeded only by a call whose count
  became stale, or by as many instances as one pool run did not list; with two runs, what each leaves out does not add up. `QueuedJobsAreServed`: every queued job starts, ends or is given up.
- **`removal`**. `IdleIsConfirmed`, `OrphanIsUseless`, `JanitorSparesLive`: what is removed was useless, with the two exceptions the code has (a tag that
  could not be removed, a runner that comes online after its last check). `ScaledDown`, `NoStaleRegistration`: whatever three faults
  leave behind is found by one of the three.
- **`scale_set`**. `AvailableIsAnnounced`: the one place where a job drops out of sight is between the deletion of its message and its acquisition.
  `FleetBounded` and `BusyIsSpared` over failures and restarts. `OfferedIsServed` and `SurplusIsRemoved`: in the end every offered job is served and
  idle surplus removed, except for what the code does not repair, which `Unrepaired` and `Retained` name.
- **`failover`**. `ExhaustionIsKept` against answers out of order; `RefusalsBounded`: GitHub refuses an app at most once per concurrent request and window;
  `ExhaustionIsReal`: an app is believed exhausted only while GitHub has nothing left for it, or for the margin of a second or the default minute after;
  `RequestsAreServed`: no limit and no waiting lasts for ever.
- **`webhook`**. `BestQueues` for every combination of flags of three queues and every label set; `DispatchedOrTold` over failed loads, sends and
  publications and the retries of EventBridge's target.

Why the bounds are enough. *Warm pool:* claims, tags, evictions and sweeps concern one instance each, and the code never
relates two instances except in a batch's counting (run `activation`) and the pool's size (run
`upkeep`); hence one instance elsewhere. Two invocations are the least that can race, and a third could only repeat the second, but for
an instance whose entry is removed under a claim (finding 12): the properties except it, and the theorems hold for any number.
`StartFailureLimit` is 2 so that one failure does and two do make an instance evictable; `ReconcileInterval` 1 makes the scan due in some runs and
not in others. *Scaling:* two jobs of one label set make a batch with a group of two, so that either slice can be empty, partial or whole; the race on the maximum
needs one invocation and one pool run, and a second pool run shows whether what the listings leave out adds up. *Removal:* the three removers meet on one runner; two runners are needed only for the idle count. A window of 2 has a
reading strictly inside it. *Scale set:* a maximum of 2 and a surge of 1 let a retained instance fill the surge, with one more to launch. *Failover:* the
smallest number of apps to fail over and of requests to share a client; a core budget of 2 serves one lookup and one token.
*Webhook:* among three queues there are a best, an equal and a worse one.

Bounds are constants: `MaxFaults` (errors, losses, interruptions per behaviour), `MaxNeeded`, `MaxPoolRuns`, and the ticks of
each timeout; ages saturate at the last value a guard tells apart. The identities in
`Invocation` are used once each. Symmetry is used on invocations only, and only in runs without liveness.
Deadlock is not checked: a bounded instance really stops, when every instance is terminated or every job, delivery and invocation is done.

## 5 Fairness

All fairness is weak, and is assumed only of what something keeps starting.
- *Warm pool* (`FairSpec`): the pool run and the sweep, which schedules invoke again and again; the steps of an invocation that began (it ends at the
  latest at its timeout); EC2 finishing a boot or a stop it began, a waiting instance taking the config that is there; the clock.
  Nothing of a boot script finishing its priming, of jobs, or of a stop event being delivered. So `StandbyIsNotStuck` holds for an instance
  that hangs while priming, and adoption does not depend on EventBridge.
- *Scaling*: Lambda runs what it started, SQS delivers what it holds, runners that came online take jobs, jobs end, scale-down keeps running. Nothing of
  the pool's schedule.
- *Removal*: scale-down, the janitor and the retry queue are served again and again; EC2 takes what it announced; GitHub corrects what it reports; jobs end. A runner need not
  register, come online or take a job.
- *Scale set*: the controller makes its next request; a session whose holder is gone expires; GitHub delivers messages and starts assigned jobs on online
  runners; agents boot and end, jobs end. Nothing of failures, and nothing makes a hung agent recover.
- *Failover*: operations go on, GitHub answers, the clock moves and budgets are renewed, another invocation follows.
- *Webhook*: Lambda is called and retried.

Faults are never forced. `PoolCrash` and `Deadline` spend a fault: a run that fails every time makes no progress in reality either.

## 6 Proofs

All theorems hold for any sets and any values of the constants within the named assumptions of the modules. Most of these only give types. Those that matter:
- `ActivationAssumption`: `LambdaTime <= ClaimTTL` and `LambdaTime < Grace`, facts of the deployment, not of the code: the scale-up Lambda has a timeout
  of 30 s (root and multi-runner defaults; 60 s in `modules/runners`), a claim lasts 10 minutes. The variable accepts up to 900 s:
  above 600 s exclusion is no longer guaranteed.
- `JanitorAssumption`: the confirmation delay (900 s) is longer than the time EC2 needs to show a new instance.
- `ServiceAssumption`: instances are numbered and finite, as are jobs.
- `LaunchAssumption`, `ScalingAssumption`: label sets, jobs and callers are finite, and there is a label set. What is counted over them is a number only then.
- `FailoverAssumption`: an invocation makes finitely many requests, and at least one.

| Theorem | Module | States |
|---|---|---|
| `TypeCorrect` | `WarmPoolProofs` | `[]TypeOK` |
| `InductiveInvariant` | `WarmPoolProofs` | `[]IInv` |
| `Exclusive` | `WarmPoolProofs` | `[]ExclusiveActivation` |
| `SparesHeld` | `WarmPoolProofs` | `[]PoolSparesHeld` |
| `ImplementsLease` | `WarmClaimProofs` | `LeaseSpec`, the refinement of `WarmLease` |
| `ClaimsAreSettled` | `WarmClaimProofs` | `[]EndedClaimsAreLoose` |
| `ExhaustedLeftAlone` | `WarmClaimProofs` | `[]ExhaustedPairsAreLeftAlone` |
| `WithinDemand` | `WarmClaimProofs` | `[]ClaimsWithinDemand` |
| `ActivationsAreTagged` | `WarmTraceProofs` | `[]RecordedActivationIsTagged` |
| `OneStart` | `WarmTraceProofs` | `[]SecondStartNeedsLooseEnd` |
| `SweepSpares` | `WarmTraceProofs` | `[]SweepSparesFirstActivation` |
| `TypeCorrect` | `WebhookProofs` | `[]TypeOK` |
| `BestQueuesAlways` | `WebhookProofs` | `[]BestQueues` |
| `JobsStayAnnounced` | `ScaleSetProofs` | `[]AvailableIsAnnounced` |
| `FleetStaysBounded` | `ScaleSetProofs` | `[]FleetBounded` |
| `BusyRunnersAreSpared` | `ScaleSetProofs` | `BusyIsSpared` |
| `TypeCorrect` | `ScaleSetProofs` | `[]TypeOK` |
| `TypeCorrect` | `RunnerRemovalProofs` | `[]TypeOK` |
| `IdleAlwaysConfirmed` | `RunnerRemovalProofs` | `[]IdleIsConfirmed` |
| `OrphansAreUseless` | `RunnerRemovalProofs` | `OrphanIsUseless` |
| `JanitorAlwaysSparesLive` | `RunnerRemovalProofs` | `JanitorSparesLive` |
| `TypeCorrect` | `RunnerScalingProofs` | `[]TypeOK` |
| `MaximumHolds` | `RunnerScalingProofs` | `[]MaximumUnlessRaced` |
| `JobsAreTracked` | `RunnerScalingProofs` | `[]QueuedJobIsTracked` |
| `ShortfallsGoBack` | `RunnerScalingProofs` | `[]ShortfallGoesBack` |
| `RunnersAreAccountedFor` | `RunnerScalingProofs` | `[]AllAccountedFor` |
| `TypeCorrect` | `AppFailoverProofs` | `[]TypeOK` |
| `RefusalsAreBounded` | `AppFailoverProofs` | `[]RefusalsBounded` |
| `ExhaustionKept` | `AppFailoverProofs` | `ExhaustionIsKept` |
| `ExhaustionHasCause` | `AppFailoverProofs` | `[]ExhaustionIsReal` |

The arguments. Warm pool:
- *Types.* `WarmPoolProofs` first states what each conditional write does to the entry it is given and that it leaves the
  others alone; nothing else in the proofs opens those definitions. Type correctness needs `PoolPhases` and
  `WritesAreListed`: `PoolAdopt` and `PoolWrite` write `listed[i]` into the index, a value of the
  right type only because what is in `toWrite` was listed.
- *Exclusion* is not inductive by itself: a claim could end by the clock under its holder. `HoldersOwn` strengthens it: who holds an
  instance is active and owns its entry with at least as much of the claim left as it has of its own
  run time. This is preserved by `Tick` because both clocks move together and an invocation without time stops the clock, and
  by the claims because a new claim starts at `ClaimTTL >= LambdaTime`. Every other writer
  either keeps the claim fields (`update`, `markWarm`) or is conditioned on the owner or
  on there being no live claim; the exception is `remove`, which is what `torn` records.
- *Eviction.* `PoolSparesHeld` needs that the entry of a doomed instance is absent and stays so (`DoomedIsAbsent`,
  `EvictedStaysAbsent`): no update of the same run may upsert it again, hence `PoolPhases` (updates precede evictions), and
  a later run does not list what is terminated.
- *Refinement.* Under `holder <- Holders` (none for a torn instance), `withdrawn <- evicted`, `void <- torn`, claims are
  `Acquire`, letting go and ending are `LetGo`, `PoolTerminate` is `Withdraw`, removing an entry under a claim is `Void`, and
  everything else stutters.
- *Settling.* That every way out of `activateBatch` settles its claim follows from which stages each phase admits
  (`PhaseStages`) and from the first loop finishing one instance before the next (`OneUnsettled`): a rollback under way is
  the only one, so `outcome` is about it.
- *Demand.* `ClaimsWithinDemand` counts: what an invocation has in hand, with those whose outcome is open, is at most what is needed less what was made
  (`Demand`). A claim is only taken when the count leaves room; an instance that drops out leaves both sides, one that is registered moves from one to the
  other. Other invocations do not matter, as each changes its own stages only.
- *Traces.* `WarmTraceProofs` first reduces every step of an invocation to the way it moves one instance from stage to stage (`Course`), and every step of the
  pool to what it does to one entry (`PoolTouch`) and newly takes on (`PoolTakesOn`). The rest argues on one instance at a time.
- *The tag* (`Tagging`): only the invocation that holds an instance removes its tag, it does so before it marks the entry, and a marked entry has no owner, so that
  nobody claims it again. With two holders this fails, since the rollback of one takes the tag of the other; hence torn instances are excluded.
- *Clocks*: `batchAge` and the time an invocation has left add up to at most `LambdaTime`, and an instance it remembers had more than `Grace` left to its
  expiry when the invocation began. With `LambdaTime < Grace` it cannot expire before the invocation ends: this is where the margin of `Candidate` is needed.
- *Launching*: an instance that is not launched has no entry, tag or holder, and one that a run launched has no entry until that run writes it. So nothing that a run
  remembers can be written over the outcome of an activation.
- *Tidiness* (`Tidied`): unless an activation of it was cut short, the tag and the starts of an instance are of the one invocation that works on it, or of a
  finished activation, whose outcome is final (`Closed`, `ClosedStays`). What the run read as activated or is to drop is finished; what the sweep listed is finished or
  expired. In particular a tag that has settled is of a finished activation (`SettledIsOver`), so `syncIndex` does not drop the entry of one at work. `OneStart` and
  `SweepSpares` both follow.

Webhook. Queue selection is a function of configuration and labels, so `BestQueues` follows from one fact per way of choosing (`StrictFirst`, `DynamicIsBest` and the lemmas
on plain jobs): the sort puts strict matches first, hence the first match is strict if any is, and the cut by `exactMatch` keeps loose matches only behind a
strict one that is not exact. The invariant adds that `left` and `sent` only ever come from a choice made for the delivery's own labels.

Scale set. `IInv` joins the types to
- `InMessage`: what the controller has in hand is the content of the message in the box until it is deleted, so that a deletion moves the jobs from `box` to
  `msg`, and a failure afterwards moves them to `dropped`;
- `CompletedIsOver`: wherever the completion of a runner is told (news, box or hand), the runner has ended and has no work;
- `CandidatesAreRemovable`: a candidate for removal is completed, or of unknown state with no runner busy in the statistics. Hence one that the statistics count as
  busy, or that was seen to start, is no candidate while it works;
- `LaunchBounded`: between the listing and the fleet request nobody else adds instances, so what is owned plus what is to be launched stays within the peak and
  the surge. That a fleet request for n instances adds at most n needs that the n lowest free instances are n, which rests on finite sets of
  numbers having a greatest element (`GreatestExists`, by well-founded descent on subsets).

`TypeOK` stands on a second invariant, `Typed`. A launch asks for no more than `Desired`, which is at most the maximum or the number of jobs, whichever statistics it is
computed from (`Bounds`). `currentRunners` is a count kept by hand: it stays within the number of instances because what is owned and what is free are apart when
the run lists them, and what is free only shrinks; and it never drops below zero because it covers at least what is left to configure or to remove (`Counts`).

Removal. `IInv` joins the types to
- `TagIsCovered`: the idle tag is never older than the row of not-busy readings, since it is set with or after its first reading, and a busy reading removes it or
  records a slip. When the tag has reached the window, so has the row;
- `CondemnedIsOffline`: a condemned orphan is not online, or came online since;
- `WaitedIsListed` and `FoundIsGone`: the message's age and the instance's grow with the same clock; so a message that has waited finds an instance older than
  EC2's lag, and what is missing then is gone.

Scaling. `IInv` is the conjunction of `ColdInv` (the runners and the calls), `QueuesOK`, `Workers` and `PoolTypeOK` (types) and `Tracked` (the messages).
- A call carries its own balance (`CallOK`): at each stage what is made, what failed and what is still to be registered or terminated add up to what was asked.
  `AllAccountedFor` is that balance at the end of the call.
- `MaximumUnlessRaced` needs `RoomIsLeft`: what a call that nobody made stale may still add fits under the maximum. A call is made stale by every other one that
  begins, hence at most one call has room to claim, and what it adds was counted. The room
  of a call of the pool is above the maximum by what its listing left out, which `overlooked` keeps the greatest of: so a call with room finds
  what there was within `Maximum + overlooked`, whoever made it.
- For `ShortfallGoesBack` the positions put back belong to groups that are finished, or to the current one; `First(n, s)` has the smaller of n and |s| elements
  (`FirstSize`), so the two slices of a group have the sizes that the code computes.
- `QueuedJobIsTracked`: the message of a queued job is in a queue, or at a position of a batch not yet decided, or at one that is put back.
- `SumFunction` over labels is treated as the cardinality of a set of pairs (`SumIsBelow`), which turns a change of one label's count into the
  addition or removal of one pair.

App failover. `IInv` joins the types to
- `Shapes`: when an operation uses an app, has tried it, and holds an answer;
- `Clients`: a client that is being made has exactly one maker, and nobody waits for any other;
- `SetupOK`: no request begins before the first client is made, of an app not known to be exhausted;
- `Bounds`: as long as nobody knows an app exhausted, its refusals in the window are at most the answers still to be reported; once it is known (`Spent`), they
  and the requests that could still be refused (`Could`) are at most the requests there are. The step in between (`Learned`) holds because the
  operation that reports, and those that were refused, are no longer among those that could be.

- `Truths`: an answer on its way names the end of the present window or none, and when it says that nothing is left before that end, nothing is. GitHub gives
  nothing back within a window, and the window and the answers grow old together, so an answer of the last window has no end left to name;
- `Reals`: what is believed exhausted ends within the bounds of `ExhaustionIsReal` (`Allowed`). A report joins two ends by taking the later one, which is
  again one of the two.

`ExhaustionIsKept` follows from the types and from what a report does, `ExhaustionIsReal` from `Reals`.

Only model-checked. The liveness properties: fairness and ENABLED are out of the prover's reach. Every invariant and every action property that a
run expects to hold is proved. Induction over finite sets is done by a
smallest counterexample (`SmallestSet`), from the well-foundedness of strict inclusion; nothing is recursive over sequences.

## 7 Findings

Shown by a run that is expected to fail:

1. `docs/warm-pool.md:13` says "A warm instance is activated at most once and never returns to the pool". Run `one_start`:
   an invocation starts an instance and ends before `markActivated`; the claim ends, the entry is still WARM, and a second
   invocation claims and starts the running instance again. `SecondStartNeedsLooseEnd` shows it takes exactly that.
   GitHub then refuses the second registration under the same name, and `destroyUnregistered` terminates the instance.
2. `control-plane/warm-pool.test.ts:184` (under `ec2/`) says the pool run 'never touches ACTIVE instances'. Run `active`:
   an instance listed as WARM is claimed, started, registered and recorded before `destroy` reaches it;
   `markActivated` dropped the claim, so `removeUnclaimed` succeeds and the running job is terminated.
   `PoolSparesHeld` shows what the code does ensure: nothing is destroyed while an invocation holds it.
3. `control-plane/pool/pool.ts:100` says "The pool must never push the total number of runners (busy + idle) past the configured maximum", and takes the
   length of its listing for the total. `ec2/control-plane/pool.ts:366` lists `running` instances only, while scale-up counts pending ones as well
   (`ec2/runners.ts:113`). Run `pool_maximum`: scale-up launches an instance and ends; EC2 still shows it as pending when the pool lists, and the top-up goes past
   the maximum with no other call under way (`PoolKeepsMaximum`). `MaximumUnlessRaced` shows how far: by as many as one listing left out (`overlooked`). Besides,
   the pool counts and creates separately from scale-up (`raced`).

Met while modelling, and stated in the properties as exceptions rather than shown by runs of their own:

4. `sqs.ts` logs a failed publication and returns, so that scale-up and job retry acknowledge the message whose successor was lost;
   `docs/rate-limits-and-tuning.md:44` says "queue publication failures remain retryable". (`excused` in `QueuedJobIsTracked`.)
5. `deregister.ts:174` expects the dead-letter queue to stop retries "after 3 total attempts"; each busy answer sends a new message, whose count starts
   again, so the attempts go on as long as GitHub says busy. `NoStaleRegistration` needs GitHub to correct its flag.
6. `message-session-client.ts:329` "Delete a queue message after processing it": `reconciler.ts:195` deletes first, as `docs/index.md:65` says.
   (`dropped` in `AvailableIsAnnounced`.)
7. `ec2/scale-set/inventory.ts:203` "do not let it suppress replacement capacity indefinitely": with more interrupted configurations than the surge of 1, the launch count
   of `provider.ts:104` is zero until one of them ends by itself. (`Retained` in `OfferedIsServed`.)
8. `dispatch.ts:77` speaks of queues of the same priority, and `dispatch.test.ts:213` of "never a lower-priority match"; the sort is by
   `bidirectionalLabelMatch` or `exactMatch`, and the cut by `exactMatch` alone. Behind a first match that is bidirectional and not exact, loose matches are
   taken as its equals. (The last disjunct of `BestQueues`.)
9. `docs/configuration.md` "Any busy reading removes the tag": not when the request to remove it fails, which is logged. (`slipped` in `IdleIsConfirmed`.)
10. A message deletion of the scale-set service whose answer is lost is repeated, answered 404, and taken for a fatal error. (`FatalError`.)
11. A dispatcher that fails after one of several sends is called again and sends to all targets: duplicates, and under `random` another queue. A foreign repository is
    an error there, and is retried like any other.
12. `pool.ts:181` removes an entry by its key alone, and a claim may have been taken since the listing. The scan adopts the instance again, and a second invocation can claim
    what the first still works on; with four invocations the rollback of one removes the activation tag the other relies on. The runs with two do not
    reach it: the proof did. (`torn` in `ExclusiveActivation`, `PoolSparesHeld` and `RecordedActivationIsTagged`.)
13. A job that starts between the statistics and the removal of its runner is lost: only the aggregate number of busy runners is known. (`BusyIsSpared` says what is
    known.)

## 8 Limits of the models

More behaviour than the code has:
- candidates are claimed in any order (newest first in the code), and surplus instances evicted in any order (oldest first);
- whether an instance is drifted or over its maximum age is a free choice of each run, as is which unchanged
  entries have another field to rewrite;
- messages to several queues are sent, and answers arrive, in any order; ties between apps go to any;
- a fault is any failure of the call, retried by the libraries or not.

Less than the code has, warm pool:
- on-demand instances only; persistent spot requests and their cancellation before a termination are left out: when AWS replaces an
  instance cannot be read from this repository;
- JIT configs only, not registration tokens;
- one pool run at a time: reserved concurrency is 1 by default (`modules/runners/variables.tf:627`);
- `query` and `claimReconcile` are one step;
- an untagged entry recorded as ACTIVATED is taken as settled (the code compares its `activatedAt` to the grace time);
- DynamoDB's own TTL deletion is not modelled, nor a runner script dying while it waits for its config;
- scale-down's evaluation of running runners is modelled apart (`ScaleDown`), not on warm instances. So a *running* instance with an activation's Owner and Type tags but neither entry nor
  activation tag, which takes two faults, is outside `UntrackedIsAdopted`: the scan does not
  list it and the sweep does not either until it stops.

Less than the code has, elsewhere:
- *scaling*: ephemeral runners with job check and job retry; one owner; launch template overrides, RunInstances and warm instances are left out of
  `createRunners`; the pool does not count busy runners;
- *removal*: runners are launched together at time 0; the paged inventory, the bypass tag and how a registration is found for an instance (id, exact name, suffix)
  are left out. `docs/rate-limits-and-tuning.md:93` says the EC2 scale-down is paged, but `control-plane.ts:37` passes `standbyOperations`, with which it is not.
  Busy runners take up the idle count, as in the code;
- *scale set*: back-off delays, metrics and the attempts inside one request; the boot timeout, which is of no consequence for a runner with an identity;
- *failover*: the cache of credentials, and routes whose resource is learned only from their answer, which are selected by the core quota until then
  (`app-failover.ts:163-168`); scale-down and pool do not resolve a stale installation again when they make a client;
- *webhook*: label parsing and the policies of dynamic labels are flags; a 500 of the direct webhook is final.

A behaviour has at most `MaxFaults` faults in the runs; the theorems hold for every number.

## 9 How to run

    tlc -workers 2 -config WarmPoolClock.cfg MCWarmPool
    tlc -workers 2 -config ScaleSet.cfg MCScaleSet
    tlapm ScaleSetProofs.tla

`WarmPoolUpkeep.cfg` goes with `MCWarmPoolUpkeep`, the other `WarmPool*.cfg` with `MCWarmPool`, `RunnerScalingPending.cfg` with `MCRunnerScaling`, and every
other configuration `X.cfg` with `MCX`.
