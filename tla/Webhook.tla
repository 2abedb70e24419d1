------------------------------- MODULE Webhook -------------------------------
(****************************************************************************)
(* The webhook: GitHub delivers an event, and the Lambda function either    *)
(* dispatches the queued job itself, or puts the event on the EventBridge,  *)
(* from which a second function dispatches it and is called again when it   *)
(* fails.  The configuration is loaded once by each environment.            *)
(****************************************************************************)
EXTENDS QueueSelection

CONSTANTS
  Delivery,    \* the deliveries of GitHub
  MaxAttempts, \* invocations of the dispatcher for one event
  MaxFaults    \* bound on failed loads and calls

ASSUME WebhookAssumption == MaxAttempts \in Nat \ {0} /\ MaxFaults \in Nat

VARIABLES
  config,   \* the runner configurations
  strategy, \* queueSelectionStrategy
  direct,   \* the webhook dispatches itself
  event,    \* what each delivery carries
  cached,   \* the environment that is called next has its configuration
  stage,    \* how far each delivery has come
  left,     \* messages that are being sent
  attempts, \* invocations of the dispatcher so far
  answer,   \* the status code GitHub has got, or 0
  sent,     \* the queues that hold a message of the delivery
  faults    \* faults left

setup == <<config, strategy, direct, event>>
vars == <<setup, cached, stage, left, attempts, answer, sent, faults>>

\* An event with a bad signature, of another type, from a repository that is
\* not on the allow list, too large for the EventBridge, of a job that is not
\* queued, or of a queued one.
Kind == {"forged", "unsupported", "foreign", "large", "started", "queued"}

TypeOK ==
  /\ config \in [Queue -> Config] /\ strategy \in {"first", "random", "all"} /\ direct \in BOOLEAN
  /\ event \in [Delivery -> [kind : Kind, labels : Labels]]
  /\ cached \in BOOLEAN
  /\ stage \in [Delivery -> {"new", "dispatch", "sending", "done", "dropped"}]
  /\ left \in [Delivery -> SUBSET Queue] /\ sent \in [Delivery -> SUBSET Queue]
  /\ attempts \in [Delivery -> 0 .. MaxAttempts]
  /\ answer \in [Delivery -> {0, 201, 202, 400, 401, 403, 500}]
  /\ faults \in 0 .. MaxFaults

Setup ==
  /\ config \in [Queue -> Config] /\ strategy \in {"first", "random", "all"} /\ direct \in BOOLEAN
  /\ event \in [Delivery -> [kind : Kind, labels : Labels]]
  /\ faults \in 0 .. MaxFaults

Start ==
  /\ cached \in BOOLEAN
  /\ stage = [d \in Delivery |-> "new"]
  /\ left = [d \in Delivery |-> {}] /\ sent = [d \in Delivery |-> {}]
  /\ attempts = [d \in Delivery |-> 0] /\ answer = [d \in Delivery |-> 0]

Init == Setup /\ Start

Fault == faults > 0 /\ faults' = faults - 1
Enter(d, s) == stage' = [stage EXCEPT ![d] = s]
Answer(d, code) == answer' = [answer EXCEPT ![d] = code]

\* load: the configuration is cached, or is read now; a store that cannot be
\* read or a value that is not valid is an error, and only a success is cached.
Load == cached' = TRUE /\ UNCHANGED faults
LoadError == ~cached /\ UNCHANGED cached /\ Fault

\* Another environment takes over.
Recycle == cached /\ cached' = FALSE /\ UNCHANGED <<setup, stage, left, attempts, answer, sent, faults>>

-----------------------------------------------------------------------------
\* directWebhook and eventBridgeWebhook, up to the dispatch or the event bus.

\* The code an event is refused with, if it is.
Rejected(d) ==
  {code \in {202, 400, 401} :
     \/ event[d].kind = "forged" /\ code = 401
     \/ event[d].kind = "unsupported" /\ code = 202
     \/ event[d].kind = "large" /\ ~direct /\ code = 400}

\* publish: the event, or the error event of one too large, does not get onto
\* the bus, or the bus says so.
PublishFails(d) ==
  /\ ~direct /\ Rejected(d) \subseteq {400}
  /\ Fault /\ cached' = TRUE /\ Answer(d, 500)

\* The event is refused, or the configuration cannot be loaded, or the event
\* cannot be published.
Reject(d) ==
  /\ stage[d] = "new" /\ Enter(d, "done")
  /\ \/ Load /\ \E code \in Rejected(d) : Answer(d, code)
     \/ LoadError /\ Answer(d, 500)
     \/ PublishFails(d)
  /\ UNCHANGED <<setup, left, attempts, sent>>

Accept(d) ==
  /\ stage[d] = "new" /\ Load
  /\ Rejected(d) = {}
  /\ Enter(d, "dispatch")
  /\ IF direct THEN UNCHANGED answer ELSE Answer(d, 201)
  /\ UNCHANGED <<setup, left, attempts, sent>>

-----------------------------------------------------------------------------
\* dispatch, in either function.

\* The job is refused or not queued, and that is the answer; the dispatcher
\* has nobody to tell.
Conclude(d, code) ==
  /\ Enter(d, "done")
  /\ IF direct THEN Answer(d, code) ELSE UNCHANGED answer

\* Mutant: the dispatcher logs an error like the webhook, and returns.
FailQuietly(d, code) == Conclude(d, code) /\ UNCHANGED attempts

\* An error: the answer of the webhook; the dispatcher is called again.
Fail(d, code) ==
  IF direct THEN Conclude(d, code) /\ UNCHANGED attempts
  ELSE /\ attempts' = [attempts EXCEPT ![d] = @ + 1]
       /\ Enter(d, IF attempts[d] + 1 < MaxAttempts THEN "dispatch" ELSE "dropped")
       /\ UNCHANGED answer

Chosen(d) == Targets(config, strategy, event[d].labels)

\* In the direct webhook the configuration was loaded before.
LoadFails(d) ==
  /\ stage[d] = "dispatch" /\ ~direct /\ LoadError
  /\ Fail(d, 500)
  /\ UNCHANGED <<setup, left, sent>>

Dispatch(d) ==
  /\ stage[d] = "dispatch" /\ Load
  /\ \/ event[d].kind = "foreign" /\ Fail(d, 403) /\ UNCHANGED left
     \/ event[d].kind = "started" /\ Conclude(d, 201) /\ UNCHANGED <<left, attempts>>
     \/ /\ event[d].kind \in {"queued", "large"}
        /\ IF Chosen(d) = {} THEN Conclude(d, 202) /\ UNCHANGED left
           ELSE /\ Enter(d, "sending") /\ UNCHANGED answer
                /\ \E S \in Chosen(d) : left' = [left EXCEPT ![d] = S]
        /\ UNCHANGED attempts
  /\ UNCHANGED <<setup, sent>>

\* The messages are sent at the same time.
Send(d) ==
  /\ stage[d] = "sending" /\ left[d] # {}
  /\ \E q \in left[d] :
       /\ left' = [left EXCEPT ![d] = @ \ {q}]
       /\ sent' = [sent EXCEPT ![d] = @ \cup {q}]
  /\ UNCHANGED <<setup, cached, stage, attempts, answer, faults>>

\* One fails; any of the others may arrive, and even the one that failed.
SendFails(d) ==
  /\ stage[d] = "sending" /\ left[d] # {} /\ Fault
  /\ \E arrived \in SUBSET left[d] : sent' = [sent EXCEPT ![d] = @ \cup arrived]
  /\ left' = [left EXCEPT ![d] = {}]
  /\ Fail(d, 500)
  /\ UNCHANGED <<setup, cached>>

AllSent(d) ==
  /\ stage[d] = "sending" /\ left[d] = {}
  /\ Conclude(d, 201)
  /\ UNCHANGED <<setup, cached, left, attempts, sent, faults>>

-----------------------------------------------------------------------------
Step(d) == Reject(d) \/ Accept(d) \/ LoadFails(d) \/ Dispatch(d) \/ Send(d) \/ SendFails(d) \/ AllSent(d)
Next == Recycle \/ \E d \in Delivery : Step(d)

\* API Gateway and EventBridge call the functions.
Spec == Init /\ [][Next]_vars /\ \A d \in Delivery : WF_vars(Step(d))

-----------------------------------------------------------------------------
\* A job goes to queues that match it, and to one that does not match strictly
\* only if none does.  With a choice of queues there is one exception: behind
\* a strict match that is not an exact one (bidirectionalLabelMatch), the
\* matches that are not strict are taken for equals (dispatch.ts:77-80).
BestQueues ==
  \A d \in Delivery, q \in Queue : q \in sent[d] =>
    LET labels == event[d].labels
        better == {p \in Queue : /\ CanRunJob(labels.plain, config[p]) /\ Strict(config[p])
                                 /\ labels.dynamic => Accepts(config[p], labels)}
    IN /\ CanRunJob(labels.plain, config[q])
       /\ labels.dynamic => Accepts(config[q], labels)
       /\ \/ better = {} \/ q \in better
          \/ strategy # "first" /\ ~labels.dynamic /\ \E p \in better : ~config[p].exact

\* A job that a queue accepts reaches as many queues as the strategy asks for,
\* or GitHub is told of an error, or all attempts failed (lambda.ts:20-87).
Wanted(d) ==
  /\ event[d].kind = "queued" \/ (event[d].kind = "large" /\ direct)
  /\ Targets(config, strategy, event[d].labels) # {}
DispatchedOrTold ==
  \A d \in Delivery :
    <>[](\/ ~Wanted(d)
         \/ \E S \in Targets(config, strategy, event[d].labels) : S \subseteq sent[d]
         \/ answer[d] >= 400 \/ stage[d] = "dropped")
=============================================================================
