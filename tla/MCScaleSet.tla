----------------------------- MODULE MCScaleSet -----------------------------
(****************************************************************************)
(* Two jobs and no fault, or one job and as many faults as leave room for   *)
(* the runners always kept: two faults without any, one fault with one.     *)
(* With one fault and no runner kept, another reconciler of the group may   *)
(* be live, or GitHub may not know the scale set or its labels.             *)
(****************************************************************************)
EXTENDS ScaleSet

MCInit ==
  /\ Init
  /\ IF job[2] = "none" THEN min <= 1 /\ faults = 0 ELSE min + faults <= 2 /\ min <= 1
  /\ scaleSet # "labelled" => min = 0 /\ faults = 1 /\ ~others
  /\ others => min = 0 /\ faults = 1
MCSpec == MCInit /\ [][Next]_vars /\ Fairness
=============================================================================
