------------------------------ MODULE ScaleUp ------------------------------
(****************************************************************************)
(* Scale-up (control-plane/src/scale-runners/scale-up.ts behind             *)
(* scaleUpHandler of lambda.ts) and the job retry check (job-retry.ts):     *)
(* batches of the build queue are grouped by label set, each group is       *)
(* checked against GitHub and the maximum, runners are created, and the     *)
(* messages are acknowledged, put back, or followed by a delayed message    *)
(* on the retry queue.  Ephemeral runners, the job check enabled.           *)
(****************************************************************************)
EXTENDS ColdLaunch, Sequences

CONSTANTS
  Worker,        \* concurrent invocations of scale-up
  BadLabel,      \* label sets that may not resolve: InvalidRunnerLabelsError
  Maximum,       \* runners_maximum_count, -1 for none
  MaxAttempts,   \* job_retry.max_attempts
  BatchSize      \* messages per invocation

ASSUME ScaleUpAssumption ==
  /\ Worker \subseteq Actor
  /\ BadLabel \subseteq Label
  /\ Maximum \in Nat \cup {-1}
  /\ MaxAttempts \in Nat
  /\ BatchSize \in Nat \ {0}

VARIABLES
  build,    \* the build queue: copies of each message
  retry,    \* the job retry queue
  work,     \* each invocation's local state
  rejected, \* the label sets that do not resolve, fixed from the start
  excused   \* history: jobs with a message that was given up

queueVars == <<build, retry, work, rejected, excused>>

\* A message carries its job and its retryCounter, -1 while undefined.
Message == [job : Job, counter : -1 .. MaxAttempts - 1]
Phase == {"idle", "check", "create", "publish"}
\* back: positions of the batch in retryMessageIds; queued: those of the
\* group's jobs found queued and not yet published; did: groups finished;
\* short: runners of the batch that were not made and can be retried.
NoWork == [phase |-> "idle", batch |-> <<>>, did |-> {}, queued |-> {}, back |-> {}, short |-> 0]

ScaleUpTypeOK ==
  /\ build \in [Message -> Nat]
  /\ retry \in [Message -> Nat]
  /\ work \in [Worker -> [phase : Phase, batch : Seq(Message), did : SUBSET Label,
                          queued : SUBSET Nat, back : SUBSET Nat, short : Nat]]
  /\ \A w \in Worker :
       /\ Len(work[w].batch) <= BatchSize
       /\ work[w].queued \cup work[w].back \subseteq DOMAIN work[w].batch
  /\ rejected \subseteq BadLabel
  /\ excused \subseteq Job

ScaleUpInit ==
  /\ build = [m \in Message |-> 0]
  /\ retry = [m \in Message |-> 0]
  /\ work = [w \in Worker |-> NoWork]
  /\ rejected \in SUBSET BadLabel
  /\ excused = {}

\* The webhook accepted a queued job.
Enqueue(j) ==
  /\ jobs[j] = "none"
  /\ jobs' = [jobs EXCEPT ![j] = "queued"]
  /\ build' = [build EXCEPT ![[job |-> j, counter |-> -1]] = @ + 1]
  /\ UNCHANGED <<launch, booting, idle, loose, faults, raced, retry, work, rejected, excused>>

-----------------------------------------------------------------------------
Copies(m, batch, positions) == Cardinality({p \in positions : batch[p] = m})
PutBack(batch, positions) == build' = [m \in Message |-> build[m] + Copies(m, batch, positions)]

LabelAt(w, p)  == labelOf[work[w].batch[p].job]
Undone(w)      == {p \in DOMAIN work[w].batch : LabelAt(w, p) \notin work[w].did}
\* Groups are processed in the order of their first messages.
Current(w)     == LabelAt(w, Min(Undone(w)))
Group(w)       == {p \in Undone(w) : LabelAt(w, p) = Current(w)}
First(n, S)    == {p \in S : Cardinality({q \in S : q < p}) < n}
Update(w, v)   == work' = [work EXCEPT ![w] = v]
\* Changed: a group with messages put back ends without its publications.
PublishedEarly(w, v) ==
  IF v.phase # "create" /\ (v.queued \subseteq v.back \/ v.back # {})
  THEN [v EXCEPT !.phase = "check", !.queued = {}, !.did = @ \cup {Current(w)}] ELSE v

\* The group ends when nothing of it is left to publish.
Published(w, v) ==
  IF v.phase # "create" /\ v.queued \subseteq v.back
  THEN [v EXCEPT !.phase = "check", !.queued = {}, !.did = @ \cup {Current(w)}] ELSE v

\* The lower retry counters first, equal ones in the order of arrival.
Sorted(batch) ==
  \A p, q \in DOMAIN batch : p < q => Max({batch[p].counter, 0}) <= Max({batch[q].counter, 0})

\* Lambda takes a batch; its messages are invisible until it ends.
Receive(w) ==
  /\ work[w].phase = "idle"
  /\ \E n \in 1 .. BatchSize : \E batch \in [1 .. n -> {m \in Message : build[m] > 0}] :
       /\ Sorted(batch)
       /\ \A m \in Message : Copies(m, batch, 1 .. n) <= build[m]
       /\ build' = [m \in Message |-> build[m] - Copies(m, batch, 1 .. n)]
       /\ Update(w, [NoWork EXCEPT !.phase = "check", !.batch = batch])
  /\ UNCHANGED <<coldVars, retry, rejected, excused>>

\* The labels of the group do not resolve: its messages are acknowledged.
RejectGroup(w) ==
  /\ work[w].phase = "check" /\ Undone(w) # {}
  /\ Current(w) \in rejected
  /\ Update(w, Published(w, work[w]))
  /\ excused' = excused \cup {work[w].batch[p].job : p \in Group(w)}
  /\ UNCHANGED <<coldVars, build, retry, rejected>>

\* The runners to create for `wanted` queued jobs.
NewRunners(wanted) ==
  IF Maximum = -1 THEN wanted ELSE Max({0, Min({wanted, Maximum - CurrentRunners})})

\* With `queued` found queued, the runners are counted.  The messages of the
\* runners above the maximum are put back, from the front of the group.
Decide(w, queued) ==
  LET wanted == Cardinality(queued)
      new    == NewRunners(wanted)
  IN
  /\ Update(w, Published(w, [work[w] EXCEPT !.phase = IF new = 0 THEN "publish" ELSE "create",
                                            !.queued = queued,
                                            !.back = @ \cup First(wanted - new, Group(w)),
                                            !.short = @ + (wanted - new)]))
  /\ launch' = IF new = 0 THEN launch ELSE [launch EXCEPT ![w] = Begin(w, Current(w), new)]
  /\ UNCHANGED <<jobs, booting, idle, loose, raced>>

\* The job checks of a group, of which one may fail and count as queued.
CheckGroup(w) ==
  /\ work[w].phase = "check" /\ Undone(w) # {}
  /\ Current(w) \notin rejected
  /\ LET queued == {p \in Group(w) : jobs[work[w].batch[p].job] = "queued"} IN
     \/ /\ queued = {}
        /\ Update(w, Published(w, work[w]))
        /\ UNCHANGED coldVars
     \/ /\ queued # {}
        /\ Decide(w, queued)
        /\ UNCHANGED faults
     \/ /\ Fault
        /\ \E p \in Group(w) \ queued : Decide(w, queued \cup {p})
  /\ UNCHANGED <<build, retry, rejected, excused>>

\* Changed: the second slice starts at the front of the group again.
SettleFromFront(w) ==
  /\ work[w].phase = "create" /\ LaunchStage(w, "done")
  /\ Becomes(w, NoLaunch)
  /\ Update(w, Published(w, [work[w] EXCEPT !.phase = "publish",
                                            !.back = @ \cup First(launch[w].retryable, Group(w)),
                                            !.short = @ + launch[w].retryable]))
  /\ UNCHANGED <<jobs, booting, idle, loose, faults, raced, build, retry, rejected, excused>>

\* createRunners returned; the messages of the retryable failures are put
\* back, from the front of what is left of the group.
Settle(w) ==
  /\ work[w].phase = "create" /\ LaunchStage(w, "done")
  /\ Becomes(w, NoLaunch)
  /\ Update(w, Published(w, [work[w] EXCEPT !.phase = "publish",
                                            !.back = @ \cup First(launch[w].retryable, Group(w) \ work[w].back),
                                            !.short = @ + launch[w].retryable]))
  /\ UNCHANGED <<jobs, booting, idle, loose, faults, raced, build, retry, rejected, excused>>

\* publishRetryMessage, for the next queued message that was not put back.
ToPublish(w) == work[w].queued \ work[w].back
PublishRetry(w) ==
  /\ work[w].phase = "publish" /\ ToPublish(w) # {}
  /\ LET p == Min(ToPublish(w))
         m == work[w].batch[p]
         next == [m EXCEPT !.counter = @ + 1]
     IN
     /\ Update(w, Published(w, [work[w] EXCEPT !.queued = @ \ {p}]))
     /\ \/ /\ next.counter < MaxAttempts
           /\ retry' = [retry EXCEPT ![next] = @ + 1]
           /\ UNCHANGED <<faults, excused>>
        \/ /\ next.counter < MaxAttempts
           /\ Fault                          \* publishMessage logs the error
           /\ excused' = excused \cup {m.job}
           /\ UNCHANGED retry
        \/ /\ next.counter >= MaxAttempts
           /\ excused' = excused \cup {m.job}
           /\ UNCHANGED <<faults, retry>>
  /\ UNCHANGED <<launch, jobs, booting, idle, loose, raced, build, rejected>>

\* Changed: the failures are not reported and SQS deletes the batch.
FinishAll(w) ==
  /\ work[w].phase = "check" /\ Undone(w) = {}
  /\ Update(w, NoWork)
  /\ UNCHANGED <<coldVars, build, retry, rejected, excused>>

\* The handler reports its batch item failures; SQS deletes the other messages.
Finish(w) ==
  /\ work[w].phase = "check" /\ Undone(w) = {}
  /\ PutBack(work[w].batch, work[w].back)
  /\ Update(w, NoWork)
  /\ UNCHANGED <<coldVars, retry, rejected, excused>>

\* A client, label or count call throws, or the Lambda ends: the whole batch
\* is put back, whatever was created and published for it.
BatchFails(w) ==
  /\ work[w].phase # "idle"
  /\ Fault
  /\ PutBack(work[w].batch, DOMAIN work[w].batch)
  /\ Update(w, NoWork)
  /\ Abandon(w)
  /\ UNCHANGED <<jobs, booting, idle, raced, retry, rejected, excused>>

ScaleUpStep(w) ==
  \/ Receive(w) \/ RejectGroup(w) \/ CheckGroup(w) \/ Settle(w)
  \/ PublishRetry(w) \/ Finish(w)

-----------------------------------------------------------------------------
Drop(m) == retry' = [retry EXCEPT ![m] = @ - 1]

\* checkAndRetryJob of one record, after its delay.
RetryCheck(m) ==
  /\ retry[m] > 0
  /\ Drop(m)
  /\ build' = IF jobs[m.job] = "queued" THEN [build EXCEPT ![m] = @ + 1] ELSE build
  /\ UNCHANGED <<coldVars, work, rejected, excused>>

\* The publication fails: publishMessage logs the error and the record is acknowledged.
RetryPublishFails(m) ==
  /\ retry[m] > 0 /\ jobs[m.job] = "queued"
  /\ Fault
  /\ Drop(m)
  /\ excused' = excused \cup {m.job}
  /\ UNCHANGED <<launch, jobs, booting, idle, loose, raced, build, work, rejected>>

\* GitHub refuses for good (the record is acknowledged).
RetryRefused(m) ==
  /\ retry[m] > 0
  /\ Fault
  /\ Drop(m)
  /\ excused' = excused \cup {m.job}
  /\ UNCHANGED <<launch, jobs, booting, idle, loose, raced, build, work, rejected>>

\* The record is delivered again after its message was published.
RetryRedelivered(m) ==
  /\ retry[m] > 0 /\ jobs[m.job] = "queued"
  /\ Fault
  /\ build' = [build EXCEPT ![m] = @ + 1]
  /\ UNCHANGED <<launch, jobs, booting, idle, loose, raced, retry, work, rejected, excused>>

RetryFault(m) == RetryPublishFails(m) \/ RetryRefused(m) \/ RetryRedelivered(m)
=============================================================================
