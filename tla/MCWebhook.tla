------------------------------ MODULE MCWebhook ------------------------------
(****************************************************************************)
(* One job of any labels on three queues, one with dynamic labels on two,   *)
(* and two deliveries of any kind on two fixed queues.                      *)
(****************************************************************************)
EXTENDS Webhook

Plain(S) == [plain |-> S, dynamic |-> FALSE, only |-> {}]
QueueOf(m, e, b) == [matchers |-> {m}, exact |-> e, bidirectional |-> b,
                     dynamic |-> FALSE, provider |-> "ec2", violates |-> FALSE]
Simple == {QueueOf(m, e, b) : m \in {{"a"}, {"a", "b"}}, e \in BOOLEAN, b \in BOOLEAN}
Able == {[c EXCEPT !.dynamic = able, !.provider = p, !.violates = v] :
           c \in {QueueOf({"a"}, e, FALSE) : e \in BOOLEAN}, able \in BOOLEAN, p \in Provider, v \in BOOLEAN}
Event(kind, labels) == [kind |-> kind, labels |-> labels]
Other == Event("unsupported", Plain({}))

AnyLabels ==
  /\ config \in [Queue -> Simple]
  /\ strategy \in {"first", "random", "all"} /\ direct = TRUE
  /\ \E S \in SUBSET Label : event = <<Event("queued", Plain(S)), Other>>
  /\ faults = 0 /\ cached = TRUE

DynamicLabels ==
  /\ \E c1, c2 \in Able : config = <<c1, c2, c2>>
  /\ strategy = "all" /\ direct = TRUE
  /\ \E only \in {{}, {"ec2"}, {"other"}} :
       event = <<Event("queued", [plain |-> {"a"}, dynamic |-> TRUE, only |-> only]), Other>>
  /\ faults = 0 /\ cached = TRUE

AnyDelivery ==
  /\ config = [q \in Queue |-> QueueOf({"a"}, q # 3, FALSE)]
  /\ strategy \in {"first", "random", "all"} /\ direct \in BOOLEAN
  /\ event \in [Delivery -> {Event(k, Plain({"a"})) : k \in Kind}]
  /\ event[2].kind \in {"queued", "foreign"}
  /\ faults \in 0 .. MaxFaults

MCInit == (AnyLabels \/ DynamicLabels \/ AnyDelivery) /\ Start
MCSpec == MCInit /\ [][Next]_vars /\ \A d \in Delivery : WF_vars(Step(d))
=============================================================================
