---------------------------- MODULE WipLifecycle -----------------------------
(***************************************************************************)
(* What an experiment run promises about one WIP, as its handlers read one *)
(* after the other: the fine-grained execution status, whether the raw     *)
(* data was verified, and the abort request decided by a supervisor.       *)
(* ExperimentRun implements this specification when sessions do not        *)
(* overlap.                                                                *)
(***************************************************************************)
CONSTANT Wips

VARIABLES
  status,    \* execution status of each WIP
  verified,  \* raw data verified
  abort      \* abort request: none, pending, terminated or rejected

vars == <<status, verified, abort>>

Ended == {"completed", "terminated"}

Init ==
  /\ status   = [w \in Wips |-> "waiting_load"]
  /\ verified = [w \in Wips |-> FALSE]
  /\ abort    = [w \in Wips |-> "none"]

(* The WIP is loaded on a machine.                                         *)
CheckIn(w) ==
  /\ status[w] = "waiting_load"
  /\ status' = [status EXCEPT ![w] = "running"]
  /\ UNCHANGED <<verified, abort>>

(* The WIP is taken off the machine.                                       *)
CheckOut(w) ==
  /\ status[w] = "running"
  /\ status' = [status EXCEPT ![w] = "unloaded"]
  /\ UNCHANGED <<verified, abort>>

(* A person or the machine reports the result.                             *)
ReportResult(w) ==
  /\ status[w] \in {"running", "unloaded"}
  /\ status' = [status EXCEPT ![w] = "waiting_confirm"]
  /\ \E b \in BOOLEAN : verified' = [verified EXCEPT ![w] = b]
  /\ UNCHANGED abort

Verify(w) ==
  /\ status[w] = "waiting_confirm"
  /\ ~verified[w]
  /\ verified' = [verified EXCEPT ![w] = TRUE]
  /\ UNCHANGED <<status, abort>>

Confirm(w) ==
  /\ status[w] = "waiting_confirm"
  /\ verified[w]
  /\ status' = [status EXCEPT ![w] = "completed"]
  /\ UNCHANGED <<verified, abort>>

RequestAbort(w) ==
  /\ status[w] \notin Ended
  /\ abort[w] # "pending"
  /\ abort' = [abort EXCEPT ![w] = "pending"]
  /\ UNCHANGED <<status, verified>>

(* The supervisor decides a pending request, whatever the WIP became since *)
(* it was filed.                                                           *)
ReviewAbort(w) ==
  /\ abort[w] = "pending"
  /\ \E approve \in BOOLEAN :
       /\ status' = [status EXCEPT ![w] = IF approve THEN "terminated" ELSE "running"]
       /\ abort'  = [abort  EXCEPT ![w] = IF approve THEN "terminated" ELSE "rejected"]
  /\ UNCHANGED verified

Step(w) ==
  \/ CheckIn(w) \/ CheckOut(w) \/ ReportResult(w) \/ Verify(w) \/ Confirm(w)
  \/ RequestAbort(w) \/ ReviewAbort(w)

Next == \E w \in Wips : Step(w)

Spec == Init /\ [][Next]_vars

=============================================================================
