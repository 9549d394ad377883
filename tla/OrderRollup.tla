----------------------------- MODULE OrderRollup -----------------------------
(***************************************************************************)
(* The order roll-up rules of the experiment-run service                   *)
(* (backend/app/modules/experiment_runs/service.py): which status an order *)
(* takes from the execution statuses of its WIPs.  `seen` maps each WIP of *)
(* the order to the execution status the rolling-up session reads for it.  *)
(***************************************************************************)

EndedExec       == {"completed", "terminated"}
ResultReadyExec == {"waiting_confirm"} \cup EndedExec

ExecStatuses == {"waiting_load", "running", "unloaded"} \cup ResultReadyExec

(* Every WIP of the order has an execution row in `statuses`; an order     *)
(* without WIPs, or with a WIP that has no row, never qualifies.           *)
AllWipsIn(seen, statuses) ==
  /\ DOMAIN seen # {}
  /\ \A w \in DOMAIN seen : seen[w] \in statuses

(* _refresh_order_after_result: only an in-progress order moves.           *)
AfterResult(order, seen) ==
  IF order = "in_progress" /\ AllWipsIn(seen, ResultReadyExec)
  THEN "waiting_result_confirm" ELSE order

(* Mutant of AfterConfirm: it moves only an order whose results are all in.*)
AfterConfirmGuarded(order, seen) ==
  IF order # "waiting_result_confirm" THEN order
  ELSE IF AllWipsIn(seen, {"terminated"}) THEN "terminated"
  ELSE IF AllWipsIn(seen, EndedExec) THEN "completed" ELSE order

(* _refresh_order_after_confirm: whatever status the order has.            *)
AfterConfirm(order, seen) ==
  IF AllWipsIn(seen, {"terminated"}) THEN "terminated"
  ELSE IF AllWipsIn(seen, EndedExec) THEN "completed" ELSE order

=============================================================================
