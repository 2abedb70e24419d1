---------------------------- MODULE WebhookProofs ----------------------------
(****************************************************************************)
(* Proofs about the webhook: the types of its state, and that every message *)
(* it sends goes to a queue that is among the best for the job, for every   *)
(* number of runner configurations, labels and deliveries, every             *)
(* configuration, and every failure of a load or a call.                    *)
(****************************************************************************)
EXTENDS Webhook, TLAPS

-----------------------------------------------------------------------------
\* Queue selection.

\* The queues BestQueues prefers: strict matches that accept the job.
Better(c, labels) ==
  {p \in Queue : /\ CanRunJob(labels.plain, c[p]) /\ Strict(c[p])
                 /\ labels.dynamic => Accepts(c[p], labels)}

\* What BestQueues asks of one queue.
Best(c, s, labels, q) ==
  /\ CanRunJob(labels.plain, c[q])
  /\ labels.dynamic => Accepts(c[q], labels)
  /\ \/ Better(c, labels) = {} \/ q \in Better(c, labels)
     \/ s # "first" /\ ~labels.dynamic /\ \E p \in Better(c, labels) : ~c[p].exact

\* The sort puts strict matches first (dispatch.ts:49-54): what comes before a
\* strict match is strict.
LEMMA StrictFirst ==
  ASSUME NEW c, NEW S, NEW q, NEW p \in S, q \in First(c, S), Strict(c[p])
  PROVE  Strict(c[q])
<1>1. CASE p = q
  BY <1>1
<1>2. CASE p # q
  <2>1. Before(c, q, p)
    BY <1>2 DEF First
  <2>. QED
    BY <2>1, Zenon DEF Before
<1>. QED
  BY <1>1, <1>2

\* A job with dynamic labels goes to the first queue that accepts them.
LEMMA DynamicIsBest ==
  ASSUME NEW c \in [Queue -> Config], NEW s, NEW labels \in Labels, labels.dynamic,
         NEW S \in Targets(c, s, labels), NEW q \in S
  PROVE  q \in Queue /\ Best(c, s, labels, q)
<1>. DEFINE able == {p \in Matches(c, labels) : Accepts(c[p], labels)}
<1>1. q \in able /\ q \in First(c, able)
  BY DEF Targets, First
<1>2. q \in Queue /\ CanRunJob(labels.plain, c[q]) /\ Accepts(c[q], labels)
  BY <1>1 DEF Matches
<1>3. \A p \in Better(c, labels) : p \in able /\ Strict(c[p])
  BY DEF Better, Matches
<1>4. ASSUME NEW p \in Better(c, labels) PROVE q \in Better(c, labels)
  <2>1. Strict(c[q])
    BY <1>1, <1>3, <1>4, StrictFirst
  <2>. QED
    BY <2>1, <1>2 DEF Better
<1>. QED
  BY <1>2, <1>4 DEF Best

\* A job without them goes to matches like the first one, which is strict when
\* any is.
LEMMA PlainIsBest ==
  ASSUME NEW c \in [Queue -> Config], NEW s \in {"first", "random", "all"},
         NEW labels \in Labels, ~labels.dynamic,
         NEW S \in Targets(c, s, labels), NEW q \in S
  PROVE  q \in Queue /\ Best(c, s, labels, q)
<1>. DEFINE matches == Matches(c, labels)
            top == TopMatches(c, matches)
<1>1. q \in top /\ (s = "first" => q \in First(c, top))
  BY DEF Targets, First
<1>2. q \in Queue /\ q \in matches /\ CanRunJob(labels.plain, c[q])
  BY <1>1 DEF TopMatches, Matches
<1>3. PICK f \in matches : f \in First(c, matches) /\ c[q].exact = c[f].exact
  BY <1>1 DEF TopMatches, First
<1>4. f \in top /\ f \in Queue /\ CanRunJob(labels.plain, c[f])
  BY <1>3 DEF TopMatches, Matches
<1>5. \A p \in Better(c, labels) : p \in matches /\ Strict(c[p])
  BY DEF Better, Matches
<1>6. ASSUME NEW p \in Better(c, labels), q \notin Better(c, labels)
      PROVE  s # "first" /\ \E r \in Better(c, labels) : ~c[r].exact
  <2>1. Strict(c[f]) /\ f \in Better(c, labels)
    <3>1. Strict(c[f])
      BY <1>3, <1>5, <1>6, StrictFirst
    <3>. QED
      BY <3>1, <1>4 DEF Better
  <2>2. ~Strict(c[q])
    BY <1>2, <1>6 DEF Better
  <2>3. ~c[f].exact
    BY <1>3, <2>2 DEF Strict
  <2>4. s # "first"
    <3>1. SUFFICES ASSUME s = "first" PROVE FALSE
      OBVIOUS
    <3>2. Strict(c[q])
      BY <1>1, <1>4, <2>1, <3>1, StrictFirst
    <3>. QED
      BY <3>2, <2>2
  <2>. QED
    BY <2>1, <2>3, <2>4
<1>. QED
  BY <1>2, <1>6 DEF Best

LEMMA TargetsAreBest ==
  ASSUME NEW c \in [Queue -> Config], NEW s \in {"first", "random", "all"},
         NEW labels \in Labels, NEW S \in Targets(c, s, labels), NEW q \in S
  PROVE  q \in Queue /\ Best(c, s, labels, q)
BY DynamicIsBest, PlainIsBest

-----------------------------------------------------------------------------
\* The inductive invariant: an event that is still worked on has invocations
\* left, and its messages go to queues that were chosen for it.
InvocationsLeft == \A d \in Delivery : stage[d] # "dropped" => attempts[d] < MaxAttempts

SentIsBest ==
  \A d \in Delivery : \A q \in left[d] \cup sent[d] : Best(config, strategy, event[d].labels, q)

IInv == TypeOK /\ InvocationsLeft /\ SentIsBest

LEMMA InitOK == Init => IInv
BY WebhookAssumption DEF Init, Setup, Start, IInv, TypeOK, InvocationsLeft, SentIsBest

\* What an error does (lambda.ts:70-87): it ends the delivery of the webhook,
\* and costs the dispatcher an invocation.
LEMMA FailOK ==
  ASSUME IInv, NEW d \in Delivery, NEW code \in {202, 403, 500},
         stage[d] # "dropped", Fail(d, code)
  PROVE  /\ stage' \in [Delivery -> {"new", "dispatch", "sending", "done", "dropped"}]
         /\ attempts' \in [Delivery -> 0 .. MaxAttempts]
         /\ answer' \in [Delivery -> {0, 201, 202, 400, 401, 403, 500}]
         /\ InvocationsLeft'
<1>. USE WebhookAssumption DEF IInv, TypeOK, InvocationsLeft, Fail, Conclude, Enter, Answer
<1>1. CASE direct
  <2>1. /\ stage' = [stage EXCEPT ![d] = "done"] /\ answer' = [answer EXCEPT ![d] = code]
        /\ attempts' = attempts
    BY <1>1
  <2>. QED
    BY <2>1
<1>2. CASE ~direct
  <2>1. attempts[d] \in Nat /\ attempts[d] < MaxAttempts
    OBVIOUS
  <2>2. attempts' = [attempts EXCEPT ![d] = @ + 1]
    BY <1>2
  <2>3. stage' = [stage EXCEPT ![d] = IF attempts[d] + 1 < MaxAttempts THEN "dispatch" ELSE "dropped"]
    BY <1>2
  <2>4. attempts' \in [Delivery -> 0 .. MaxAttempts]
    BY <2>1, <2>2
  <2>5. InvocationsLeft'
    BY <2>1, <2>2, <2>3
  <2>. QED
    BY <1>2, <2>3, <2>4, <2>5
<1>. QED
  BY <1>1, <1>2

\* Each step keeps the types, the invocations left and the choice.
LEMMA StepOK ==
  ASSUME IInv, NEW d \in Delivery, Step(d)
  PROVE  IInv'
<1>. USE WebhookAssumption
<1>. USE DEF IInv, setup, Enter, Answer, Load, LoadError, Fault
<1>1. CASE Reject(d)
  <2>1. /\ stage' = [stage EXCEPT ![d] = "done"]
        /\ answer' \in [Delivery -> {0, 201, 202, 400, 401, 403, 500}]
        /\ cached' \in BOOLEAN /\ faults' \in 0 .. MaxFaults
        /\ UNCHANGED <<setup, left, attempts, sent>>
    <3>1. CASE Load /\ \E code \in Rejected(d) : Answer(d, code)
      <4>1. PICK code \in Rejected(d) : Answer(d, code)
        BY <3>1
      <4>2. code \in {202, 400, 401, 500} /\ answer' = [answer EXCEPT ![d] = code]
        BY <4>1 DEF Rejected
      <4>3. cached' = TRUE /\ faults' = faults /\ faults \in 0 .. MaxFaults
        BY <3>1 DEF TypeOK
      <4>4. Enter(d, "done") /\ UNCHANGED <<setup, left, attempts, sent>>
        BY <1>1 DEF Reject
      <4>. QED
        BY <4>2, <4>3, <4>4 DEF TypeOK
    <3>2. CASE LoadError /\ Answer(d, 500)
      BY <1>1, <3>2 DEF Reject, TypeOK
    <3>3. CASE PublishFails(d)
      BY <1>1, <3>3 DEF Reject, PublishFails, TypeOK
    <3>. QED
      BY <1>1, <3>1, <3>2, <3>3 DEF Reject
  <2>2. TypeOK'
    BY <2>1 DEF TypeOK
  <2>3. InvocationsLeft'
    <3>1. stage[d] = "new"
      BY <1>1 DEF Reject
    <3>. QED
      BY <2>1, <3>1 DEF TypeOK, InvocationsLeft
  <2>4. SentIsBest'
    BY <2>1 DEF SentIsBest
  <2>. QED
    BY <2>2, <2>3, <2>4
<1>2. CASE Accept(d)
  BY <1>2 DEF Accept, TypeOK, InvocationsLeft, SentIsBest
<1>3. CASE LoadFails(d)
  <2>1. SentIsBest'
    BY <1>3 DEF LoadFails, SentIsBest
  <2>2. Fail(d, 500) /\ stage[d] # "dropped"
    BY <1>3 DEF LoadFails
  <2>. QED
    BY <1>3, <2>1, <2>2, FailOK DEF LoadFails, TypeOK
<1>4. CASE Dispatch(d)
  <2>1. CASE event[d].kind = "foreign" /\ Fail(d, 403) /\ UNCHANGED left
    <3>1. SentIsBest'
      BY <1>4, <2>1 DEF Dispatch, SentIsBest
    <3>2. stage[d] # "dropped"
      BY <1>4 DEF Dispatch
    <3>. QED
      BY <1>4, <2>1, <3>1, <3>2, FailOK DEF Dispatch, TypeOK
  <2>2. CASE event[d].kind = "started" /\ Conclude(d, 201) /\ UNCHANGED <<left, attempts>>
    BY <1>4, <2>2 DEF Dispatch, Conclude, TypeOK, InvocationsLeft, SentIsBest
  <2>3. CASE Chosen(d) = {} /\ Conclude(d, 202) /\ UNCHANGED <<left, attempts>>
    BY <1>4, <2>3 DEF Dispatch, Conclude, TypeOK, InvocationsLeft, SentIsBest
  <2>4. ASSUME NEW S \in Chosen(d), left' = [left EXCEPT ![d] = S],
               Enter(d, "sending"), UNCHANGED <<answer, attempts>>
        PROVE  IInv'
    <3>1. config \in [Queue -> Config] /\ strategy \in {"first", "random", "all"}
          /\ event[d].labels \in Labels
      BY DEF TypeOK
    <3>2. \A q \in S : q \in Queue /\ Best(config, strategy, event[d].labels, q)
      BY <2>4, <3>1, TargetsAreBest DEF Chosen
    <3>3. SentIsBest'
      BY <1>4, <2>4, <3>2 DEF Dispatch, SentIsBest, TypeOK
    <3>. QED
      BY <1>4, <2>4, <3>2, <3>3 DEF Dispatch, TypeOK, InvocationsLeft
  <2>. QED
    BY <1>4, <2>1, <2>2, <2>3, <2>4 DEF Dispatch
<1>5. CASE Send(d)
  BY <1>5 DEF Send, TypeOK, InvocationsLeft, SentIsBest
<1>6. CASE SendFails(d)
  <2>1. SentIsBest' /\ left' \in [Delivery -> SUBSET Queue] /\ sent' \in [Delivery -> SUBSET Queue]
    BY <1>6 DEF SendFails, SentIsBest, TypeOK
  <2>2. Fail(d, 500) /\ stage[d] # "dropped"
    BY <1>6 DEF SendFails
  <2>. QED
    BY <1>6, <2>1, <2>2, FailOK DEF SendFails, TypeOK
<1>7. CASE AllSent(d)
  BY <1>7 DEF AllSent, Conclude, TypeOK, InvocationsLeft, SentIsBest
<1>. QED
  BY <1>1, <1>2, <1>3, <1>4, <1>5, <1>6, <1>7 DEF Step

LEMMA NextOK == IInv /\ [Next]_vars => IInv'
<1>. SUFFICES ASSUME IInv, [Next]_vars PROVE IInv'
  OBVIOUS
<1>1. CASE Recycle
  BY <1>1 DEF Recycle, setup, IInv, TypeOK, InvocationsLeft, SentIsBest
<1>2. CASE \E d \in Delivery : Step(d)
  BY <1>2, StepOK
<1>3. CASE UNCHANGED vars
  BY <1>3 DEF vars, setup, IInv, TypeOK, InvocationsLeft, SentIsBest
<1>. QED
  BY <1>1, <1>2, <1>3 DEF Next

\* Every variable keeps its type: whatever fails, an event is dispatched at
\* most MaxAttempts times, and GitHub gets an answer the code knows.
THEOREM TypeCorrect == Spec => []TypeOK
<1>1. IInv => TypeOK
  BY DEF IInv
<1>. QED
  BY InitOK, NextOK, <1>1, PTL DEF Spec

\* Every message goes to a queue that is among the best for its job
\* (dispatch.ts:49-145).
THEOREM BestQueuesAlways == Spec => []BestQueues
<1>1. IInv => BestQueues
  BY DEF IInv, SentIsBest, BestQueues, Best, Better
<1>. QED
  BY InitOK, NextOK, <1>1, PTL DEF Spec
=============================================================================
