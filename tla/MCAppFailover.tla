---------------------------- MODULE MCAppFailover ----------------------------
(****************************************************************************)
(* Two apps, of which one has a stored installation, and two requests: of   *)
(* any resources without a fault, or one of each resource and one fault.    *)
(****************************************************************************)
EXTENDS AppFailover

MCBudget == [r \in Resource |-> IF r = "core" THEN 2 ELSE 1]
MCInit ==
  /\ Init
  /\ wants[2] = "core" => wants[1] = "core"
  /\ faults = 1 => wants[1] # wants[2]
MCSpec == MCInit /\ [][Next]_vars /\ Fairness
=============================================================================
