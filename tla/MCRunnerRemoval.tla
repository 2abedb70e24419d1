-------------------------- MODULE MCRunnerRemoval --------------------------
(****************************************************************************)
(* One runner and a few faults, or two runners without faults, of which one *)
(* may be kept idle.                                                        *)
(****************************************************************************)
EXTENDS RunnerRemoval

MCInit == Init /\ Live(1) /\ IF Live(2) THEN faults = 0 ELSE idleCount = 0
MCSpec == MCInit /\ [][Next]_vars /\ Fairness
=============================================================================
