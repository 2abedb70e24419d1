--------------------------- MODULE QueueSelection ---------------------------
(****************************************************************************)
(* Which queues the webhook sends a queued job to.  Each runner             *)
(* configuration has a queue, matchers for the labels of a job, and a       *)
(* priority: those that match strictly come first, then the order in which  *)
(* they are configured.  Labels that begin with ghr- are dynamic: they do   *)
(* not take part in the matching, and not every queue accepts them.         *)
(****************************************************************************)
EXTENDS Integers

CONSTANTS
  Queue,  \* the runner configurations, numbered in their order
  Label   \* labels that are not dynamic

ASSUME QueueAssumption == Queue \subseteq Nat

Provider == {"ec2", "other"}

\* A configuration; "violates" says that its policy refuses the dynamic labels.
Config == [matchers : SUBSET SUBSET Label, exact : BOOLEAN, bidirectional : BOOLEAN,
           dynamic : BOOLEAN, provider : Provider, violates : BOOLEAN]

\* A job's plain labels, whether it has dynamic labels that are well formed,
\* and the providers those are addressed to.
Labels == [plain : SUBSET Label, dynamic : BOOLEAN, only : SUBSET Provider]

\* canRunJob.  A job without labels is matched the other way round.
CanRunJob(labels, c) ==
  IF c.bidirectional THEN labels \in c.matchers
  ELSE LET match == \E m \in c.matchers : IF c.exact THEN labels \subseteq m ELSE labels \cap m # {}
       IN IF labels = {} THEN ~match ELSE match

Strict(c) == c.bidirectional \/ c.exact

\* Mutant: the queues are tried as they are configured.
BeforeAsListed(config, p, q) == p < q

\* The order of the sorted configuration; the sort is stable.
Before(config, p, q) ==
  IF Strict(config[p]) = Strict(config[q]) THEN p < q ELSE Strict(config[p])

Matches(config, labels) == {q \in Queue : CanRunJob(labels.plain, config[q])}

\* The queue of S that comes first in the order.
First(config, S) == {q \in S : \A p \in S \ {q} : Before(config, q, p)}

\* The matches that share exactMatch with the first.
TopMatches(config, S) == {q \in S : \E f \in First(config, S) : config[q].exact = config[f].exact}

\* A queue for dynamic labels: it allows them, none is for another provider,
\* and its policy accepts them.
Accepts(c, labels) == c.dynamic /\ labels.only \subseteq {c.provider} /\ ~c.violates

\* The sets of queues that may be chosen; none when the job is refused.
Targets(config, strategy, labels) ==
  LET matches == Matches(config, labels)
      top == TopMatches(config, matches)
      able == {q \in matches : Accepts(config[q], labels)}
  IN {S \in (SUBSET matches) \ {{}} :
        IF labels.dynamic THEN S = First(config, able)
        ELSE \/ strategy = "all" /\ S = top
             \/ strategy = "random" /\ \E q \in top : S = {q}
             \/ strategy = "first" /\ S = First(config, top)}
=============================================================================
