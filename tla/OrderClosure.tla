---------------------------- MODULE OrderClosure -----------------------------
(***************************************************************************)
(* From the first WIP of an order to its closing: the sample goes from lab *)
(* to lab (backend/app/services), every lab runs its WIPs and returns      *)
(* their reports (modules/reports), signs off, and the last lab hands the  *)
(* order over for pickup (modules/closures).                               *)
(*                                                                         *)
(* The two closure operations take several statements of one transaction,  *)
(* READ COMMITTED and without row locks, so they are sessions here.  Every *)
(* other handler is one step: what their own interleavings do is the       *)
(* subject of ExperimentRun.  The order has one sample and one dependency  *)
(* group: its items are done in the order of Route.                        *)
(***************************************************************************)
EXTENDS Naturals, Sequences, FiniteSets, OrderRollup

CONSTANTS
  Labs,
  AllLabs,       \* the scope of a role that sees every lab
  Applicant,     \* who holds the sample after the pickup
  NoLab,         \* the destination of no transfer
  Route,         \* the lab of each order item, in dependency order
  MaxReports,    \* bound: reports written for one WIP
  Closers,       \* sessions that run to_pickup and close_order
  CrossLab,      \* TRUE: the closers' roles see all labs; FALSE: one lab
  Overlap,       \* TRUE: other handlers run while a closer is at work
  LegacyActions  \* the actions of A's order API in use

ASSUME RouteAssumption == Route \in Seq(Labs) /\ Route # <<>>

ASSUME PlacesAssumption ==
  /\ AllLabs \notin Labs
  /\ Applicant \notin Labs
  /\ NoLab \notin Labs

ASSUME OptionsAssumption ==
  /\ MaxReports \in Nat \ {0}
  /\ CrossLab \in BOOLEAN
  /\ Overlap \in BOOLEAN
  /\ LegacyActions \subseteq {"ready_for_pickup", "close"}

Items     == DOMAIN Route
ReportIds == 1..MaxReports
Scopes    == IF CrossLab THEN {AllLabs} ELSE Labs

VARIABLES
  order,     \* orders.status
  claimed,   \* order_items.dependency_check of each item
  wip,       \* the WIP of each item: its status, note, abort and sign-off
  reports,   \* the reports of each item's WIP
  sample,    \* the sample: its status, who holds it, its open transfer
  sess       \* the closers: the operation each one is in the middle of

vars == <<order, claimed, wip, reports, sample, sess>>

-----------------------------------------------------------------------------
WipStatuses    == {"absent", "created", "running"} \cup ResultReadyExec
ReportStatuses == {"absent", "draft", "pending_review", "confirmed", "returned", "revised"}

OrderStatuses  == {"sample_received", "in_progress", "waiting_result_confirm", "completed",
                   "terminated", "waiting_report_return", "waiting_pickup", "closed",
                   "ready_for_pickup"}

SampleStatuses == {"pending_receive", "received", "split", "pending_transfer", "outbound",
                   "in_storage", "picked_up", "terminated"}

(* The states in which a sample has left the experiment.                   *)
Delivered == {"outbound", "in_storage", "picked_up", "pending_receive"}

NoWip == [status |-> "absent", noted |-> FALSE, pending |-> FALSE, signed |-> FALSE]

Exists(i) == wip[i].status # "absent"
Ended(i)  == wip[i].status \in EndedExec
Done(i)   == wip[i].status = "completed"

HasReport(i, statuses) == \E k \in ReportIds : reports[i][k] \in statuses

Idle == [phase |-> "idle"]

(* The steps of other handlers.                                            *)
Free == Overlap \/ \A s \in Closers : sess[s] = Idle

-----------------------------------------------------------------------------
(* The execution of a WIP, in coarse steps.                                *)

(* The execution statuses a roll-up sees: the WIPs that exist.             *)
Seen(w) == [i \in {j \in Items : w[j].status # "absent"} |-> w[i].status]

RollsUpAfterResult(w)  == order' = AfterResult(order, Seen(w))
RollsUpAfterConfirm(w) == order' = AfterConfirm(order, Seen(w))

CheckIn(i) ==
  /\ Free
  /\ wip[i].status = "created"
  /\ wip' = [wip EXCEPT ![i].status = "running"]
  /\ UNCHANGED <<order, claimed, reports, sample, sess>>

(* A result is uploaded; its note may be the empty string.                 *)
UploadResult(i) ==
  /\ Free
  /\ wip[i].status = "running"
  /\ \E noted \in BOOLEAN :
       wip' = [wip EXCEPT ![i].status = "waiting_confirm", ![i].noted = noted]
  /\ RollsUpAfterResult(wip')
  /\ UNCHANGED <<claimed, reports, sample, sess>>

(* complete_wip_sample_flow: the sample waits for a transfer, or stays in  *)
(* the lab that has the next experiment or had the last one.               *)
AdvanceSample(i) ==
  sample' = [sample EXCEPT
               !.status = IF i < Len(Route) /\ Route[i + 1] # Route[i]
                          THEN "pending_transfer" ELSE "split",
               !.at = Route[i]]

(* The result is confirmed whether or not an abort request is pending.     *)
ConfirmResult(i) ==
  /\ Free
  /\ wip[i].status = "waiting_confirm"
  /\ wip' = [wip EXCEPT ![i].status = "completed"]
  /\ RollsUpAfterConfirm(wip')
  /\ AdvanceSample(i)
  /\ UNCHANGED <<claimed, reports, sess>>

(* Mutant of RequestAbort: also for an experiment that ended.              *)
RequestAbortAnytime(i) ==
  /\ Free
  /\ Exists(i)
  /\ ~wip[i].pending
  /\ wip' = [wip EXCEPT ![i].pending = TRUE]
  /\ UNCHANGED <<order, claimed, reports, sample, sess>>

RequestAbort(i) ==
  /\ Free
  /\ Exists(i) /\ ~Ended(i)
  /\ ~wip[i].pending
  /\ wip' = [wip EXCEPT ![i].pending = TRUE]
  /\ UNCHANGED <<order, claimed, reports, sample, sess>>

(* The sample ends with its last WIP that was not terminated.              *)
ApproveAbort(i) ==
  /\ Free
  /\ wip[i].pending
  /\ wip' = [wip EXCEPT ![i].status = "terminated", ![i].pending = FALSE]
  /\ RollsUpAfterConfirm(wip')
  /\ sample' = IF \A j \in Items : wip'[j].status \in {"absent", "terminated"}
               THEN [sample EXCEPT !.status = "terminated"] ELSE sample
  /\ UNCHANGED <<claimed, reports, sess>>

RejectAbort(i) ==
  /\ Free
  /\ wip[i].pending
  /\ wip' = [wip EXCEPT ![i].status = "running", ![i].pending = FALSE]
  /\ order' = "in_progress"
  /\ UNCHANGED <<claimed, reports, sample, sess>>

-----------------------------------------------------------------------------
(* The sample on its way through the labs.                                 *)

(* claim_next_dependency_experiment: the first item not completed becomes  *)
(* claimed, once.                                                          *)
Claim(i) ==
  /\ Free
  /\ ~Done(i) /\ \A j \in 1..(i - 1) : Done(j)
  /\ ~claimed[i]
  /\ claimed' = [claimed EXCEPT ![i] = TRUE]
  /\ UNCHANGED <<order, wip, reports, sample, sess>>

AtLab == sample.at \in Labs

Receive ==
  /\ Free
  /\ AtLab
  /\ sample.status = "pending_receive"
  /\ sample' = IF sample.transfer = "transferring" /\ sample.to = sample.at
               THEN [sample EXCEPT !.status = "received", !.transfer = "none", !.to = NoLab]
               ELSE [sample EXCEPT !.status = "received"]
  /\ UNCHANGED <<order, claimed, wip, reports, sess>>

(* Into storage, from any status.                                          *)
Inbound ==
  /\ Free
  /\ AtLab
  /\ sample' = [sample EXCEPT !.status = "in_storage"]
  /\ UNCHANGED <<order, claimed, wip, reports, sess>>

(* The item continues the first segment of the route, all of one lab, that *)
(* is not completed, and has no WIP yet.                                   *)
Creatable(i) ==
  /\ ~Exists(i)
  /\ \A j \in 1..(i - 1) : Exists(j)
  /\ \A j \in 1..(i - 1) : ~Done(j) => \A k \in j..i : Route[k] = Route[i]

(* The sample is split, whatever its status, and a WIP is created.         *)
Split(i) ==
  /\ Free
  /\ AtLab
  /\ Creatable(i)
  /\ wip' = [wip EXCEPT ![i].status = "created"]
  /\ sample' = [sample EXCEPT !.status = "split"]
  /\ UNCHANGED <<order, claimed, reports, sess>>

(* The applicant is told to come: nothing is left to do for the sample.    *)
Outbound ==
  /\ Free
  /\ AtLab
  /\ sample.status \in {"split", "pending_transfer"}
  /\ sample.transfer = "none"
  /\ \A i \in Items : Done(i)
  /\ sample' = [sample EXCEPT !.status = "outbound"]
  /\ UNCHANGED <<order, claimed, wip, reports, sess>>

PickupConfirmed ==
  /\ Free
  /\ sample.status = "outbound"
  /\ sample' = [sample EXCEPT !.status = "picked_up", !.at = Applicant]
  /\ UNCHANGED <<order, claimed, wip, reports, sess>>

CreateTransfer(to) ==
  /\ Free
  /\ AtLab
  /\ sample.at # to
  /\ sample.transfer = "none"
  /\ sample' = [sample EXCEPT !.transfer = "pending", !.to = to]
  /\ UNCHANGED <<order, claimed, wip, reports, sess>>

SendTransfer ==
  /\ Free
  /\ sample.transfer = "pending"
  /\ sample' = [sample EXCEPT !.transfer = "transferring", !.status = "pending_receive",
                              !.at = sample.to]
  /\ UNCHANGED <<order, claimed, wip, reports, sess>>

(* release_order_item_dependency_check_for_sample is called with the key   *)
(* of the sample's row, while order_items.sample_id holds the sample's     *)
(* number (Claim uses the number): the UPDATE matches no item.             *)
CancelTransfer ==
  /\ Free
  /\ sample.transfer = "pending"
  /\ sample' = [sample EXCEPT !.transfer = "none", !.to = NoLab]
  /\ UNCHANGED <<order, claimed, wip, reports, sess>>

-----------------------------------------------------------------------------
(* Reports.                                                                *)

Formal == {"confirmed", "returned"}

(* _advance_order                                                          *)
AwaitReport == order' = IF order = "completed" THEN "waiting_report_return" ELSE order

CreateReport(i, submit) ==
  /\ Free
  /\ wip[i].status \in {"waiting_confirm", "completed"}
  /\ ~HasReport(i, Formal)
  /\ \E k \in ReportIds :
       /\ reports[i][k] = "absent"
       /\ \A j \in 1..(k - 1) : reports[i][j] # "absent"
       /\ reports' = [reports EXCEPT ![i][k] = IF submit THEN "pending_review" ELSE "draft"]
  /\ IF submit THEN AwaitReport ELSE UNCHANGED order
  /\ UNCHANGED <<claimed, wip, sample, sess>>

SubmitReport(i, k) ==
  /\ Free
  /\ reports[i][k] \in {"draft", "revised"}
  /\ reports' = [reports EXCEPT ![i][k] = "pending_review"]
  /\ AwaitReport
  /\ UNCHANGED <<claimed, wip, sample, sess>>

ReviewReport(i, k, approve) ==
  /\ Free
  /\ reports[i][k] = "pending_review"
  /\ reports' = [reports EXCEPT ![i][k] = IF approve THEN "confirmed" ELSE "revised"]
  /\ UNCHANGED <<order, claimed, wip, sample, sess>>

PublishReport(i, k) ==
  /\ Free
  /\ reports[i][k] = "confirmed"
  /\ reports' = [reports EXCEPT ![i][k] = "returned"]
  /\ AwaitReport
  /\ UNCHANGED <<claimed, wip, sample, sess>>

-----------------------------------------------------------------------------
(* Closure.                                                                *)

(* The WIPs a role sees of the order.                                      *)
InScope(scope) == {i \in Items : Exists(i) /\ scope \in {AllLabs, Route[i]}}

(* What has to hold of a WIP before its lab signs it off.                  *)
Closable(i) ==
  /\ Ended(i)
  /\ Done(i) => wip[i].noted
  /\ ~wip[i].pending
  /\ HasReport(i, {"returned"})

(* _compute_closure: the conditions of canClose.                           *)
CanClose(scope) ==
  /\ InScope(scope) # {}
  /\ \A i \in InScope(scope) : Closable(i)
  /\ sample.status \in Delivered

(* Mutant of CheckClosure: whatever the status of the order.               *)
CheckClosureAnytime(s, scope) ==
  /\ sess[s] = Idle
  /\ CanClose(scope)
  /\ sess' = [sess EXCEPT ![s] = [phase |-> "checked", scope |-> scope]]
  /\ UNCHANGED <<order, claimed, wip, reports, sample>>

(* to_pickup checks the conditions and the status of the order.            *)
CheckClosure(s, scope) ==
  /\ sess[s] = Idle
  /\ order \in {"completed", "waiting_report_return"}
  /\ CanClose(scope)
  /\ sess' = [sess EXCEPT ![s] = [phase |-> "checked", scope |-> scope]]
  /\ UNCHANGED <<order, claimed, wip, reports, sample>>

(* Mutant of AllSigned: counted before the session's flush.                *)
AllSignedUnflushed(mine) ==
  /\ \A i \in Items : claimed[i]
  /\ \E i \in Items : Exists(i)
  /\ \A i \in Items : Exists(i) => wip[i].signed

(* all_wips_lab_closed, as a session sees it that has signed `mine`.       *)
AllSigned(mine) ==
  /\ \A i \in Items : claimed[i]
  /\ \E i \in Items : Exists(i)
  /\ \A i \in Items : Exists(i) => wip[i].signed \/ i \in mine

(* The session lists the WIPs in its scope again, flushes their sign-offs, *)
(* which locks the rows it changes, and counts.  It sees what others have  *)
(* committed, not what they have flushed.                                  *)
FlushAndCount(s) ==
  /\ sess[s].phase = "checked"
  /\ LET mine  == InScope(sess[s].scope)
         dirty == {i \in mine : ~wip[i].signed}
     IN /\ \A t \in Closers : sess[t].phase = "flushed" => dirty \cap sess[t].mine = {}
        /\ sess' = [sess EXCEPT ![s] = [phase |-> "flushed", mine |-> mine,
                                        all |-> AllSigned(mine)]]
  /\ UNCHANGED <<order, claimed, wip, reports, sample>>

CommitPickup(s) ==
  /\ sess[s].phase = "flushed"
  /\ wip' = [i \in Items |-> IF i \in sess[s].mine THEN [wip[i] EXCEPT !.signed = TRUE]
                             ELSE wip[i]]
  /\ order' = IF sess[s].all THEN "waiting_pickup" ELSE order
  /\ sess' = [sess EXCEPT ![s] = Idle]
  /\ UNCHANGED <<claimed, reports, sample>>

(* Mutant of CheckClose: without the pickup of the sample.                 *)
CheckCloseUnpicked(s) ==
  /\ sess[s] = Idle
  /\ order = "waiting_pickup"
  /\ sess' = [sess EXCEPT ![s] = [phase |-> "closing"]]
  /\ UNCHANGED <<order, claimed, wip, reports, sample>>

(* close_order reads the order and the sample, then commits.               *)
CheckClose(s) ==
  /\ sess[s] = Idle
  /\ order = "waiting_pickup"
  /\ sample.status = "picked_up"
  /\ sess' = [sess EXCEPT ![s] = [phase |-> "closing"]]
  /\ UNCHANGED <<order, claimed, wip, reports, sample>>

CommitClose(s) ==
  /\ sess[s].phase = "closing"
  /\ order' = "closed"
  /\ sess' = [sess EXCEPT ![s] = Idle]
  /\ UNCHANGED <<claimed, wip, reports, sample>>

(* A's order API moves the order along its own table of transitions.       *)
Transition == [ready_for_pickup |-> [from |-> "sample_received", to |-> "ready_for_pickup"],
               close            |-> [from |-> "ready_for_pickup", to |-> "closed"]]

OrderAction(action) ==
  /\ Free
  /\ order = Transition[action].from
  /\ order' = Transition[action].to
  /\ UNCHANGED <<claimed, wip, reports, sample, sess>>

-----------------------------------------------------------------------------
(* The sample is on its way to the first lab, whose item the applicant's   *)
(* page has claimed if it asked for the destination.                       *)
Init ==
  /\ order = "sample_received"
  /\ \E c \in BOOLEAN : claimed = [i \in Items |-> c /\ i = 1]
  /\ wip = [i \in Items |-> NoWip]
  /\ reports = [i \in Items |-> [k \in ReportIds |-> "absent"]]
  /\ sample = [status |-> "pending_receive", at |-> Route[1], transfer |-> "none", to |-> NoLab]
  /\ sess = [s \in Closers |-> Idle]

Execute ==
  \E i \in Items :
    \/ CheckIn(i) \/ UploadResult(i) \/ ConfirmResult(i)
    \/ RequestAbort(i) \/ ApproveAbort(i) \/ RejectAbort(i)

MoveSample ==
  \/ \E i \in Items : Claim(i) \/ Split(i)
  \/ \E to \in Labs : CreateTransfer(to)
  \/ Receive \/ Inbound \/ Outbound \/ PickupConfirmed
  \/ SendTransfer \/ CancelTransfer

Report ==
  \E i \in Items :
    \/ \E submit \in BOOLEAN : CreateReport(i, submit)
    \/ \E k \in ReportIds : SubmitReport(i, k) \/ PublishReport(i, k)
    \/ \E k \in ReportIds, approve \in BOOLEAN : ReviewReport(i, k, approve)

Close ==
  \/ \E s \in Closers :
       \/ \E scope \in Scopes : CheckClosure(s, scope)
       \/ FlushAndCount(s) \/ CommitPickup(s) \/ CheckClose(s) \/ CommitClose(s)
  \/ \E action \in LegacyActions : OrderAction(action)

Next == Execute \/ MoveSample \/ Report \/ Close

Spec == Init /\ [][Next]_vars

-----------------------------------------------------------------------------
(* Properties.                                                             *)

(* Rows and sessions hold values of their types.                           *)
TypeOK ==
  /\ order \in OrderStatuses
  /\ claimed \in [Items -> BOOLEAN]
  /\ wip \in [Items -> [status : WipStatuses, noted : BOOLEAN, pending : BOOLEAN,
                        signed : BOOLEAN]]
  /\ reports \in [Items -> [ReportIds -> ReportStatuses]]
  /\ sample \in [status : SampleStatuses, at : Labs \cup {Applicant},
                 transfer : {"none", "pending", "transferring"}, to : Labs \cup {NoLab}]
  /\ sess \in [Closers -> {Idle}
                 \cup [phase : {"checked"}, scope : Scopes]
                 \cup [phase : {"flushed"}, mine : SUBSET Items, all : BOOLEAN]
                 \cup [phase : {"closing"}]]

(* to_pickup's conditions outlast the transaction that checked them: a WIP *)
(* its lab signed off has ended, has no abort request left to decide, has  *)
(* its data and a returned report.                                         *)
SignedOff == \A i \in Items : wip[i].signed => Closable(i)

(* A closed order has no work left: every item of it has a WIP that ended  *)
(* and that its lab signed off.  close_order looks at the sample only, and *)
(* all_wips_lab_closed only at the WIPs that exist so far.                 *)
ClosedMeansDone == order = "closed" => \A i \in Items : Ended(i) /\ wip[i].signed

(* A closed order stays closed (FINAL_STATUSES), whatever the roll-ups of  *)
(* the execution write.                                                    *)
ClosedIsFinal == [][order = "closed" => order' = "closed"]_vars

(* "The last lab to call to_pickup ... the order finally advances": the     *)
(* transaction whose sign-off is the last one missing moves the order.     *)
LastLabAdvances ==
  [][(\E i \in Items : ~wip[i].signed /\ wip'[i].signed) /\ AllSigned({})'
       => order' = "waiting_pickup"]_vars

=============================================================================
