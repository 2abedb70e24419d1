-------------------------- MODULE MCRunnerScaling --------------------------
(****************************************************************************)
(* One invocation of scale-up at a time; two jobs and one fault, or one job *)
(* and two runs of the pool, which may end at any step.                     *)
(****************************************************************************)
EXTENDS RunnerScaling

CONSTANTS w1, p1, j1, j2, a

\* Both jobs compete for the runners of one label set.
LabelOf == [j \in Job |-> a]

MCInit ==
  /\ Init
  /\ jobs[j1] = "none"
  /\ poolRuns \in {0, MaxPoolRuns}
  /\ IF poolRuns = 0 THEN jobs[j2] = "none" ELSE jobs[j2] = "done" /\ faults = 0
MCSpec == MCInit /\ [][Next]_vars /\ Fairness
=============================================================================
