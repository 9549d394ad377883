------------------------- MODULE OrderClosureProofs --------------------------
(***************************************************************************)
(* Theorems about OrderClosure, for any laboratories, route, number of     *)
(* reports and closers.  What else a theorem supposes, about who overlaps  *)
(* with whom, it says.                                                     *)
(***************************************************************************)
EXTENDS OrderClosure, TLAPS

(* The steps that are not a closer's.                                      *)
Handler ==
  \/ Execute \/ MoveSample \/ Report
  \/ \E action \in LegacyActions : OrderAction(action)

(* The steps of the closer s.                                              *)
Closing(s) ==
  \/ \E scope \in Scopes : CheckClosure(s, scope)
  \/ FlushAndCount(s) \/ CommitPickup(s) \/ CheckClose(s) \/ CommitClose(s)

(* A step is one of these.                                                 *)
LEMMA StepKinds ==
  ASSUME Next
  PROVE  Handler \/ \E s \in Closers : Closing(s)
BY DEF Next, Close, Handler, Closing

-----------------------------------------------------------------------------
(* Types.                                                                  *)

WipRow    == [status : WipStatuses, noted : BOOLEAN, pending : BOOLEAN, signed : BOOLEAN]
SampleRow == [status : SampleStatuses, at : Labs \cup {Applicant},
              transfer : {"none", "pending", "transferring"}, to : Labs \cup {NoLab}]

(* A transfer that waits to be sent has a destination.                     *)
Addressed == sample.transfer = "pending" => sample.to \in Labs

(* A roll-up yields a status of the order.                                 *)
LEMMA RollUpType ==
  ASSUME order \in OrderStatuses, NEW w
  PROVE  /\ RollsUpAfterResult(w) => order' \in OrderStatuses
         /\ RollsUpAfterConfirm(w) => order' \in OrderStatuses
         /\ AwaitReport => order' \in OrderStatuses
BY DEF RollsUpAfterResult, RollsUpAfterConfirm, AfterResult, AfterConfirm, AwaitReport,
       OrderStatuses

(* The execution of a WIP keeps the types.                                 *)
LEMMA ExecuteType ==
  ASSUME TypeOK, NEW i \in Items,
         \/ CheckIn(i) \/ UploadResult(i) \/ ConfirmResult(i)
         \/ RequestAbort(i) \/ ApproveAbort(i) \/ RejectAbort(i)
  PROVE  TypeOK'
<1> USE DEF TypeOK
<1>a. {"running", "waiting_confirm", "completed", "terminated"} \subseteq WipStatuses
  BY DEF WipStatuses, ResultReadyExec, EndedExec
<1>b. wip[i] \in WipRow /\ wip \in [Items -> WipRow]
  BY DEF WipRow
<1>1. CASE CheckIn(i)
  BY <1>1 DEF CheckIn, WipStatuses
<1>2. CASE UploadResult(i)
  <2>1. PICK noted \in BOOLEAN :
          wip' = [wip EXCEPT ![i].status = "waiting_confirm", ![i].noted = noted]
    BY <1>2 DEF UploadResult
  <2>2. wip' \in [Items -> WipRow]
    BY <1>a, <1>b, <2>1 DEF WipRow
  <2>3. order' \in OrderStatuses
    BY <1>2, RollUpType DEF UploadResult
  <2>4. UNCHANGED <<claimed, reports, sample, sess>>
    BY <1>2 DEF UploadResult
  <2>5. QED
    BY <2>2, <2>3, <2>4 DEF WipRow
<1>3. CASE ConfirmResult(i)
  <2>1. Route[i] \in Labs
    BY RouteAssumption DEF Items
  <2>2. AdvanceSample(i)
    BY <1>3 DEF ConfirmResult
  <2>3. sample' \in SampleRow
    BY <2>1, <2>2 DEF AdvanceSample, SampleRow, SampleStatuses
  <2>4. wip' = [wip EXCEPT ![i].status = "completed"]
    BY <1>3 DEF ConfirmResult
  <2>5. wip' \in [Items -> WipRow]
    BY <1>a, <1>b, <2>4 DEF WipRow
  <2>6. order' \in OrderStatuses /\ UNCHANGED <<claimed, reports, sess>>
    BY <1>3, RollUpType DEF ConfirmResult
  <2>7. QED
    BY <2>3, <2>5, <2>6 DEF SampleRow, WipRow
<1>4. CASE RequestAbort(i)
  BY <1>4 DEF RequestAbort
<1>5. CASE ApproveAbort(i)
  <2>1. wip' = [wip EXCEPT ![i].status = "terminated", ![i].pending = FALSE]
    BY <1>5 DEF ApproveAbort
  <2>2. wip' \in [Items -> WipRow]
    BY <1>a, <1>b, <2>1 DEF WipRow
  <2>3. sample' \in {sample, [sample EXCEPT !.status = "terminated"]}
    BY <1>5 DEF ApproveAbort
  <2>4. sample' \in SampleRow
    BY <2>3 DEF SampleRow, SampleStatuses
  <2>5. order' \in OrderStatuses /\ UNCHANGED <<claimed, reports, sess>>
    BY <1>5, RollUpType DEF ApproveAbort
  <2>6. QED
    BY <2>2, <2>4, <2>5 DEF SampleRow, WipRow
<1>6. CASE RejectAbort(i)
  BY <1>6 DEF RejectAbort, WipStatuses, OrderStatuses
<1>7. QED
  BY <1>1, <1>2, <1>3, <1>4, <1>5, <1>6

(* The way of the sample keeps the types.                                  *)
LEMMA MoveType ==
  ASSUME TypeOK, Addressed, MoveSample
  PROVE  TypeOK' /\ Addressed'
<1> USE DEF TypeOK, Addressed
<1>1. ASSUME NEW i \in Items, Claim(i)
      PROVE  TypeOK' /\ Addressed'
  BY <1>1 DEF Claim
<1>2. ASSUME NEW i \in Items, Split(i)
      PROVE  TypeOK' /\ Addressed'
  BY <1>2 DEF Split, WipStatuses, SampleStatuses
<1>3. ASSUME NEW to \in Labs, CreateTransfer(to)
      PROVE  TypeOK' /\ Addressed'
  BY <1>3 DEF CreateTransfer
<1>4. CASE Receive
  BY <1>4 DEF Receive, SampleStatuses
<1>5. CASE Inbound \/ Outbound
  BY <1>5 DEF Inbound, Outbound, SampleStatuses
<1>6. CASE PickupConfirmed
  BY <1>6 DEF PickupConfirmed, SampleStatuses
<1>7. CASE SendTransfer
  BY <1>7 DEF SendTransfer, SampleStatuses
<1>8. CASE CancelTransfer
  BY <1>8 DEF CancelTransfer
<1>9. QED
  BY <1>1, <1>2, <1>3, <1>4, <1>5, <1>6, <1>7, <1>8 DEF MoveSample

(* Reporting keeps the types.                                              *)
LEMMA ReportType ==
  ASSUME TypeOK, Report
  PROVE  TypeOK'
<1> USE DEF TypeOK, ReportStatuses
<1>1. ASSUME NEW i \in Items, NEW submit \in BOOLEAN, CreateReport(i, submit)
      PROVE  TypeOK'
  <2>1. order' \in OrderStatuses
    BY <1>1, RollUpType DEF CreateReport
  <2>2. PICK k \in ReportIds :
          reports' = [reports EXCEPT ![i][k] = IF submit THEN "pending_review" ELSE "draft"]
    BY <1>1 DEF CreateReport
  <2>3. QED
    BY <1>1, <2>1, <2>2 DEF CreateReport
<1>2. ASSUME NEW i \in Items, NEW k \in ReportIds, SubmitReport(i, k) \/ PublishReport(i, k)
      PROVE  TypeOK'
  <2>1. order' \in OrderStatuses
    BY <1>2, RollUpType DEF SubmitReport, PublishReport
  <2>2. \E st \in ReportStatuses : reports' = [reports EXCEPT ![i][k] = st]
    BY <1>2 DEF SubmitReport, PublishReport
  <2>3. UNCHANGED <<claimed, wip, sample, sess>>
    BY <1>2 DEF SubmitReport, PublishReport
  <2>4. QED
    BY <2>1, <2>2, <2>3
<1>3. ASSUME NEW i \in Items, NEW k \in ReportIds, NEW approve \in BOOLEAN,
             ReviewReport(i, k, approve)
      PROVE  TypeOK'
  BY <1>3 DEF ReviewReport
<1>4. QED
  BY <1>1, <1>2, <1>3 DEF Report

(* What a closer that is at work holds.                                    *)
LEMMA WorkingCloser ==
  ASSUME TypeOK, NEW s \in Closers
  PROVE  /\ sess[s].phase = "checked" => sess[s].scope \in Scopes
         /\ sess[s].phase = "flushed" => sess[s].mine \subseteq Items /\ sess[s].all \in BOOLEAN
         /\ sess[s] # Idle => sess[s].phase \in {"checked", "flushed", "closing"}
BY DEF TypeOK, Idle

(* A closer keeps the types.                                               *)
LEMMA ClosingType ==
  ASSUME TypeOK, NEW s \in Closers, Closing(s)
  PROVE  TypeOK'
<1> USE DEF TypeOK, Idle
<1>1. ASSUME NEW scope \in Scopes, CheckClosure(s, scope)
      PROVE  TypeOK'
  BY <1>1 DEF CheckClosure
<1>2. CASE FlushAndCount(s)
  <2>1. InScope(sess[s].scope) \in SUBSET Items
    BY DEF InScope
  <2>2. AllSigned(InScope(sess[s].scope)) \in BOOLEAN
    BY DEF AllSigned
  <2>3. QED
    BY <1>2, <2>1, <2>2 DEF FlushAndCount
<1>3. CASE CommitPickup(s)
  <2>1. wip' \in [Items -> WipRow]
    <3>1. ASSUME NEW i \in Items
          PROVE  wip[i] \in WipRow /\ [wip[i] EXCEPT !.signed = TRUE] \in WipRow
      <4>1. wip \in [Items -> WipRow]
        BY DEF WipRow
      <4>2. QED
        BY <4>1 DEF WipRow
    <3>2. wip' = [i \in Items |-> IF i \in sess[s].mine THEN [wip[i] EXCEPT !.signed = TRUE]
                                 ELSE wip[i]]
      BY <1>3 DEF CommitPickup
    <3>3. QED
      BY <3>1, <3>2
  <2>2. QED
    BY <1>3, <2>1 DEF CommitPickup, WipRow, OrderStatuses
<1>4. CASE CheckClose(s)
  BY <1>4 DEF CheckClose
<1>5. CASE CommitClose(s)
  BY <1>5 DEF CommitClose, OrderStatuses
<1>6. QED
  BY <1>1, <1>2, <1>3, <1>4, <1>5 DEF Closing

(* Only the sample's own steps concern its transfer.                       *)
LEMMA AddressedElsewhere ==
  ASSUME TypeOK, Addressed, [Next]_vars, ~MoveSample
  PROVE  Addressed'
<1>1. sample'.transfer = sample.transfer /\ sample'.to = sample.to
  <2>1. ASSUME NEW i \in Items, ConfirmResult(i) \/ ApproveAbort(i)
        PROVE  sample'.transfer = sample.transfer /\ sample'.to = sample.to
    BY <2>1 DEF ConfirmResult, AdvanceSample, ApproveAbort, TypeOK
  <2>2. CASE UNCHANGED sample
    BY <2>2
  <2>3. QED
    BY <2>1, <2>2 DEF Next, Execute, Report, Close, CheckIn, UploadResult, RequestAbort,
       RejectAbort, CreateReport, SubmitReport, ReviewReport, PublishReport, CheckClosure,
       FlushAndCount, CommitPickup, CheckClose, CommitClose, OrderAction, vars
<1>2. QED
  BY <1>1 DEF Addressed

(* Every step keeps the types.                                             *)
LEMMA TypeStep ==
  ASSUME TypeOK, Addressed, [Next]_vars
  PROVE  TypeOK' /\ Addressed'
<1>1. TypeOK'
  <2>1. CASE Execute
    BY <2>1, ExecuteType DEF Execute
  <2>2. CASE MoveSample
    BY <2>2, MoveType
  <2>3. CASE Report
    BY <2>3, ReportType
  <2>4. ASSUME NEW action \in LegacyActions, OrderAction(action)
        PROVE  TypeOK'
    <3>1. Transition[action].to \in OrderStatuses
      BY OptionsAssumption DEF Transition, OrderStatuses
    <3>2. QED
      BY <2>4, <3>1 DEF OrderAction, TypeOK
  <2>5. ASSUME NEW s \in Closers, Closing(s)
        PROVE  TypeOK'
    BY <2>5, ClosingType
  <2>6. CASE UNCHANGED vars
    BY <2>6 DEF vars, TypeOK
  <2>7. QED
    BY <2>1, <2>2, <2>3, <2>4, <2>5, <2>6, StepKinds DEF Handler
<1>2. CASE MoveSample
  BY <1>1, <1>2, MoveType
<1>3. CASE ~MoveSample
  BY <1>1, <1>3, AddressedElsewhere
<1>4. QED
  BY <1>1, <1>2, <1>3

(* The initial state has the types.                                        *)
LEMMA TypeInit ==
  ASSUME Init
  PROVE  TypeOK /\ Addressed
<1>1. Route[1] \in Labs /\ 1 \in Items
  BY RouteAssumption DEF Items
<1>2. QED
  BY <1>1 DEF Init, TypeOK, Addressed, NoWip, Idle, OrderStatuses, WipStatuses, ReportStatuses,
     SampleStatuses

(* Rows and closers stay in their types.                                   *)
THEOREM ClosureTypeCorrect == Spec => []TypeOK
<1>1. TypeOK /\ Addressed /\ [Next]_vars => (TypeOK /\ Addressed)'
  BY TypeStep
<1>2. Init => TypeOK /\ Addressed
  BY TypeInit
<1>3. QED
  BY <1>1, <1>2, PTL DEF Spec

-----------------------------------------------------------------------------
(* What the other handlers leave alone.                                    *)

(* A report that was returned stays returned.                              *)
LEMMA ReturnedStays ==
  ASSUME TypeOK, [Next]_vars, NEW i \in Items, HasReport(i, {"returned"})
  PROVE  HasReport(i, {"returned"})'
<1>1. PICK k \in ReportIds : reports[i][k] = "returned"
  BY DEF HasReport
<1>2. reports'[i][k] = "returned"
  <2>1. ASSUME NEW j \in Items, NEW submit \in BOOLEAN, CreateReport(j, submit)
        PROVE  reports'[i][k] = "returned"
    BY <1>1, <2>1 DEF CreateReport, TypeOK
  <2>2. ASSUME NEW j \in Items, NEW n \in ReportIds, SubmitReport(j, n)
        PROVE  reports'[i][k] = "returned"
    BY <1>1, <2>2 DEF SubmitReport, TypeOK
  <2>3. ASSUME NEW j \in Items, NEW n \in ReportIds, PublishReport(j, n)
        PROVE  reports'[i][k] = "returned"
    BY <1>1, <2>3 DEF PublishReport, TypeOK
  <2>4. ASSUME NEW j \in Items, NEW n \in ReportIds, NEW approve \in BOOLEAN,
               ReviewReport(j, n, approve)
        PROVE  reports'[i][k] = "returned"
    BY <1>1, <2>4 DEF ReviewReport, TypeOK
  <2>5. CASE UNCHANGED reports
    BY <1>1, <2>5
  <2>6. QED
    BY <2>1, <2>2, <2>3, <2>4, <2>5 DEF Next, Execute, MoveSample, Report, Close, CheckIn,
       UploadResult, ConfirmResult, RequestAbort, ApproveAbort, RejectAbort, Claim, Split,
       CreateTransfer, Receive, Inbound, Outbound, PickupConfirmed, SendTransfer,
       CancelTransfer, CheckClosure, FlushAndCount, CommitPickup, CheckClose, CommitClose,
       OrderAction, vars
<1>3. QED
  BY <1>2 DEF HasReport

(* A WIP that has ended and has no request to decide stays as it is, and   *)
(* no WIP disappears; the sign-off is the closers' alone.                  *)
Untouched(i) ==
  /\ wip'[i].signed = wip[i].signed
  /\ Exists(i) => Exists(i)'
  /\ Ended(i) /\ ~wip[i].pending => wip'[i] = wip[i]

LEMMA ExecuteTouches ==
  ASSUME TypeOK, Execute, NEW i \in Items
  PROVE  Untouched(i)
<1> USE DEF TypeOK, Untouched, Exists, Ended, EndedExec
<1>1. PICK j \in Items : \/ CheckIn(j) \/ UploadResult(j) \/ ConfirmResult(j)
                         \/ RequestAbort(j) \/ ApproveAbort(j) \/ RejectAbort(j)
  BY DEF Execute
<1>2. CASE CheckIn(j)
  BY <1>2 DEF CheckIn
<1>3. CASE UploadResult(j)
  <2>1. PICK noted \in BOOLEAN :
          wip' = [wip EXCEPT ![j].status = "waiting_confirm", ![j].noted = noted]
    BY <1>3 DEF UploadResult
  <2>2. wip[j].status = "running"
    BY <1>3 DEF UploadResult
  <2>3. QED
    BY <2>1, <2>2
<1>4. CASE ConfirmResult(j)
  <2>1. wip' = [wip EXCEPT ![j].status = "completed"] /\ wip[j].status = "waiting_confirm"
    BY <1>4 DEF ConfirmResult
  <2>2. QED
    BY <2>1
<1>5. CASE RequestAbort(j)
  BY <1>5 DEF RequestAbort
<1>6. CASE ApproveAbort(j)
  <2>1. wip' = [wip EXCEPT ![j].status = "terminated", ![j].pending = FALSE] /\ wip[j].pending
    BY <1>6 DEF ApproveAbort
  <2>2. QED
    BY <2>1
<1>7. CASE RejectAbort(j)
  BY <1>7 DEF RejectAbort
<1>8. QED
  BY <1>1, <1>2, <1>3, <1>4, <1>5, <1>6, <1>7

LEMMA HandlerTouches ==
  ASSUME TypeOK, Handler
  PROVE  /\ Free /\ sess' = sess
         /\ \A i \in Items : Untouched(i)
<1> USE DEF TypeOK
<1>1. Free /\ sess' = sess
  BY DEF Handler, Execute, MoveSample, Report, CheckIn, UploadResult, ConfirmResult,
     RequestAbort, ApproveAbort, RejectAbort, Claim, Split, CreateTransfer, Receive, Inbound,
     Outbound, PickupConfirmed, SendTransfer, CancelTransfer, CreateReport, SubmitReport,
     ReviewReport, PublishReport, OrderAction
<1>2. ASSUME NEW i \in Items
      PROVE  Untouched(i)
  <2>1. ASSUME NEW j \in Items, Split(j)
        PROVE  Untouched(i)
    BY <2>1 DEF Split, Creatable, Untouched, Exists, Ended, EndedExec
  <2>2. CASE UNCHANGED wip
    BY <2>2 DEF Untouched, Exists
  <2>3. QED
    BY <2>1, <2>2, ExecuteTouches DEF Handler, MoveSample, Report, Claim, CreateTransfer,
       Receive, Inbound, Outbound, PickupConfirmed, SendTransfer, CancelTransfer,
       CreateReport, SubmitReport, ReviewReport, PublishReport, OrderAction
<1>3. QED
  BY <1>1, <1>2

(* What a closer does to the WIPs.                                         *)
LEMMA ClosingTouches ==
  ASSUME TypeOK, NEW s \in Closers, Closing(s), NEW i \in Items
  PROVE  /\ wip'[i] \in {wip[i], [wip[i] EXCEPT !.signed = TRUE]}
         /\ wip'[i] # wip[i] => CommitPickup(s) /\ i \in sess[s].mine
BY DEF Closing, CheckClosure, FlushAndCount, CommitPickup, CheckClose, CommitClose

(* What was closable stays closable, and what is there stays there.        *)
LEMMA ClosableStays ==
  ASSUME TypeOK, [Next]_vars, NEW i \in Items
  PROVE  /\ Closable(i) => Closable(i)'
         /\ Exists(i) => Exists(i)'
         /\ wip[i].signed => wip'[i].signed
<1>1. /\ Ended(i) /\ ~wip[i].pending => /\ wip'[i].status = wip[i].status
                                       /\ wip'[i].noted = wip[i].noted
                                       /\ wip'[i].pending = wip[i].pending
      /\ Exists(i) => Exists(i)'
      /\ wip[i].signed => wip'[i].signed
  <2>1. CASE Handler
    BY <2>1, HandlerTouches DEF Untouched
  <2>2. ASSUME NEW s \in Closers, Closing(s)
        PROVE  <1>1!:
    <3>1. wip[i] \in WipRow
      BY DEF TypeOK, WipRow
    <3>2. QED
      BY <2>2, <3>1, ClosingTouches DEF Exists, WipRow
  <2>3. CASE UNCHANGED vars
    BY <2>3 DEF vars, Exists
  <2>4. QED
    BY <2>1, <2>2, <2>3, StepKinds
<1>2. QED
  BY <1>1, ReturnedStays DEF Closable, Ended, Done

-----------------------------------------------------------------------------
(* Sign-offs.                                                              *)

(* Either nothing else happens while a closer is at work, or what a closer *)
(* signs is the one WIP of its own laboratory.                             *)
Undisturbed ==
  \/ ~Overlap
  \/ /\ ~CrossLab
     /\ \A i, j \in Items : Route[i] = Route[j] => i = j

(* A closer that has checked, or is about to sign, does so for WIPs that   *)
(* can be closed, and there is one when it has checked.                    *)
Checked(s) ==
  sess[s].phase = "checked" =>
    /\ InScope(sess[s].scope) # {}
    /\ \A i \in InScope(sess[s].scope) : Closable(i)

Flushed(s) == sess[s].phase = "flushed" => \A i \in sess[s].mine : Closable(i)

(* The inductive invariant.                                                *)
SignInv ==
  /\ TypeOK
  /\ Addressed
  /\ SignedOff
  /\ \A s \in Closers : Checked(s) /\ Flushed(s)

(* While a closer that looked at one laboratory waits, nothing comes into  *)
(* its scope.                                                              *)
LEMMA ScopeStays ==
  ASSUME Undisturbed, TypeOK, [Next]_vars, NEW s \in Closers, sess[s].phase = "checked",
         InScope(sess[s].scope) # {}
  PROVE  InScope(sess[s].scope)' \subseteq InScope(sess[s].scope)
           \/ sess'[s] # sess[s]
<1> SUFFICES ASSUME sess'[s] = sess[s],
                    NEW i \in Items, Exists(i)', sess[s].scope \in {AllLabs, Route[i]}
             PROVE  Exists(i)
  BY DEF InScope
<1>1. CASE Handler
  <2>1. Overlap
    <3>1. sess[s] # Idle
      BY DEF Idle
    <3>2. QED
      BY <1>1, <3>1, HandlerTouches DEF Free
  <2>2. ~CrossLab /\ \A j, k \in Items : Route[j] = Route[k] => j = k
    BY <2>1 DEF Undisturbed
  <2>3. sess[s].scope \in Labs
    BY <2>2, WorkingCloser DEF Scopes
  <2>4. \A j \in InScope(sess[s].scope) : Route[j] = sess[s].scope /\ Exists(j) /\ j \in Items
    BY <2>3, PlacesAssumption DEF InScope
  <2>5. QED
    BY <2>2, <2>3, <2>4, PlacesAssumption
<1>2. ASSUME NEW t \in Closers, Closing(t)
      PROVE  Exists(i)
  BY <1>2, ClosingTouches DEF Exists, TypeOK
<1>3. CASE UNCHANGED vars
  BY <1>3 DEF vars, Exists
<1>4. QED
  BY <1>1, <1>2, <1>3, StepKinds

(* A closer that does not move keeps what it has checked.                  *)
LEMMA WaitingKeeps ==
  ASSUME Undisturbed, SignInv, [Next]_vars, NEW s \in Closers, sess'[s] = sess[s]
  PROVE  Checked(s)' /\ Flushed(s)'
<1>1. Checked(s)'
  <2> SUFFICES ASSUME sess[s].phase = "checked"
               PROVE  /\ InScope(sess[s].scope)' # {}
                      /\ \A i \in InScope(sess[s].scope)' : Closable(i)'
    BY DEF Checked
  <2>1. InScope(sess[s].scope) # {} /\ \A i \in InScope(sess[s].scope) : Closable(i)
    BY DEF SignInv, Checked
  <2>2. InScope(sess[s].scope)' \subseteq InScope(sess[s].scope)
    BY <2>1, ScopeStays DEF SignInv
  <2>3. InScope(sess[s].scope) \subseteq InScope(sess[s].scope)'
    BY ClosableStays DEF SignInv, InScope
  <2>4. QED
    BY <2>1, <2>2, <2>3, ClosableStays DEF SignInv, InScope
<1>2. Flushed(s)'
  <2>1. sess[s].phase = "flushed" => sess[s].mine \subseteq Items
    BY WorkingCloser DEF SignInv
  <2>2. QED
    BY <2>1, ClosableStays DEF SignInv, Flushed
<1>3. QED
  BY <1>1, <1>2

(* The inductive step.                                                     *)
LEMMA SignStep ==
  ASSUME Undisturbed, SignInv, [Next]_vars
  PROVE  SignInv'
<1>1. TypeOK' /\ Addressed'
  BY TypeStep DEF SignInv
<1>2. SignedOff'
  <2> SUFFICES ASSUME NEW i \in Items, wip'[i].signed
               PROVE  Closable(i)'
    BY DEF SignedOff
  <2>1. CASE wip[i].signed
    BY <2>1, ClosableStays DEF SignInv, SignedOff
  <2>2. CASE ~wip[i].signed
    <3>1. PICK s \in Closers : CommitPickup(s) /\ i \in sess[s].mine
      <4>1. ~Handler
        BY <2>2, HandlerTouches DEF Untouched, SignInv
      <4>2. ~UNCHANGED vars
        BY <2>2 DEF vars
      <4>3. QED
        BY <2>2, <4>1, <4>2, StepKinds, ClosingTouches DEF SignInv
    <3>2. Closable(i)
      BY <3>1 DEF CommitPickup, SignInv, Flushed
    <3>3. QED
      BY <3>2, ClosableStays DEF SignInv
  <2>3. QED
    BY <2>1, <2>2
<1>3. ASSUME NEW s \in Closers
      PROVE  Checked(s)' /\ Flushed(s)'
  <2>1. CASE sess'[s] = sess[s]
    BY <2>1, WaitingKeeps
  <2>2. CASE sess'[s] # sess[s]
    <3>1. Closing(s)
      <4>1. ~Handler /\ ~UNCHANGED vars
        BY <2>2, HandlerTouches DEF SignInv, vars
      <4>2. PICK t \in Closers : Closing(t)
        BY <4>1, StepKinds
      <4>3. \E r : sess' = [sess EXCEPT ![t] = r]
        BY <4>2 DEF Closing, CheckClosure, FlushAndCount, CommitPickup, CheckClose, CommitClose
      <4>4. QED
        BY <2>2, <4>2, <4>3 DEF SignInv, TypeOK
    <3>2. ASSUME NEW scope \in Scopes, CheckClosure(s, scope)
          PROVE  Checked(s)' /\ Flushed(s)'
      BY <3>2 DEF CheckClosure, CanClose, Checked, Flushed, SignInv, TypeOK, InScope, Closable,
         Exists, Ended, Done, HasReport
    <3>3. CASE FlushAndCount(s)
      <4>1. \A i \in InScope(sess[s].scope) : Closable(i)
        BY <3>3 DEF FlushAndCount, SignInv, Checked
      <4>2. sess'[s].phase = "flushed" /\ sess'[s].mine = InScope(sess[s].scope)
        BY <3>3 DEF FlushAndCount, SignInv, TypeOK
      <4>3. QED
        BY <4>1, <4>2, ClosableStays DEF Checked, Flushed, SignInv, InScope
    <3>4. CASE CommitPickup(s) \/ CommitClose(s)
      BY <3>4 DEF CommitPickup, CommitClose, Checked, Flushed, SignInv, TypeOK, Idle
    <3>5. CASE CheckClose(s)
      BY <3>5 DEF CheckClose, Checked, Flushed, SignInv, TypeOK
    <3>6. QED
      BY <3>1, <3>2, <3>3, <3>4, <3>5 DEF Closing
  <2>3. QED
    BY <2>1, <2>2
<1>4. QED
  BY <1>1, <1>2, <1>3 DEF SignInv

(* The initial state satisfies it.                                         *)
LEMMA SignInit ==
  ASSUME Init
  PROVE  SignInv
<1>1. SignedOff
  BY DEF Init, SignedOff, NoWip
<1>2. \A s \in Closers : Checked(s) /\ Flushed(s)
  BY DEF Init, Checked, Flushed, Idle
<1>3. QED
  BY <1>1, <1>2, TypeInit DEF SignInv

(* So the invariant holds when closers are not disturbed.                  *)
LEMMA SignInvariant ==
  ASSUME Undisturbed
  PROVE  Spec => []SignInv
<1>1. SignInv /\ [Next]_vars => SignInv'
  BY SignStep
<1>2. Init => SignInv
  BY SignInit
<1>3. QED
  BY <1>1, <1>2, PTL DEF Spec

(* A WIP that was signed off had met all conditions of to_pickup, and      *)
(* meets them for ever.                                                    *)
THEOREM SignOffsHold ==
  ASSUME Undisturbed
  PROVE  Spec => []SignedOff
<1>1. SignInv => SignedOff
  BY DEF SignInv
<1>2. QED
  BY <1>1, SignInvariant, PTL

-----------------------------------------------------------------------------
(* Closed orders.                                                          *)

(* No other handler overlaps with a closer, and A's order API cannot take  *)
(* an order from the receipt of the sample to the end on its own.          *)
Orderly ==
  /\ ~Overlap
  /\ LegacyActions # {"ready_for_pickup", "close"}

AllEnded == \A i \in Items : Ended(i)
AllThere == \A i \in Items : Exists(i)
SignedAll == \A i \in Items : wip[i].signed

Leaving == sample.status \in {"outbound", "picked_up"}

(* The sample is announced for pickup when every item has its WIP.         *)
LeavesComplete == Leaving => AllThere

(* An order that waits for the pickup was signed off by every laboratory   *)
(* if all of its experiments have ended, or its sample is on its way out:  *)
(* an experiment that ended later has moved the order away.                *)
PickupSigned == order = "waiting_pickup" /\ (AllEnded \/ Leaving) => SignedAll

(* What a closer found when it counted, or checked the order, is still so. *)
Counted(s) ==
  /\ sess[s].phase = "flushed" /\ sess[s].all => AllSigned(sess[s].mine)
  /\ sess[s].phase = "closing" => SignedAll

(* The inductive invariant.                                                *)
ClosedInv ==
  /\ SignInv
  /\ LeavesComplete
  /\ PickupSigned
  /\ order = "ready_for_pickup" => "ready_for_pickup" \in LegacyActions
  /\ order = "closed" => SignedAll
  /\ \A s \in Closers : Counted(s)

(* Sign-offs and WIPs are never taken back.                                *)
LEMMA AllStay ==
  ASSUME TypeOK, [Next]_vars
  PROVE  /\ SignedAll => SignedAll'
         /\ AllThere => AllThere'
BY ClosableStays DEF SignedAll, AllThere

(* What the execution does to the order when no roll-up is the matter.     *)
LEMMA ExecuteMoves ==
  ASSUME TypeOK, SignedOff, Execute
  PROVE  /\ ~Leaving => ~Leaving'
         /\ order' \in {order, "in_progress", "waiting_result_confirm", "completed", "terminated"}
         /\ order' = order /\ AllEnded' => AllEnded \/ order \in {"completed", "terminated"}
         /\ SignedAll => order' = order
<1> USE DEF TypeOK, Leaving
<1>1. PICK i \in Items : \/ CheckIn(i) \/ UploadResult(i) \/ ConfirmResult(i)
                         \/ RequestAbort(i) \/ ApproveAbort(i) \/ RejectAbort(i)
  BY DEF Execute
<1>2. SignedAll => Ended(i) /\ ~wip[i].pending
  BY DEF SignedAll, SignedOff, Closable
<1>3. CASE CheckIn(i) \/ RequestAbort(i)
  <2>1. order' = order /\ sample' = sample
    BY <1>3 DEF CheckIn, RequestAbort
  <2>2. ASSUME AllEnded'
        PROVE  AllEnded
    <3>1. wip'[i].status \in EndedExec
      BY <2>2 DEF AllEnded, Ended
    <3>2. RequestAbort(i)
      BY <1>3, <3>1 DEF CheckIn, EndedExec
    <3>3. \A j \in Items : wip'[j].status = wip[j].status
      BY <3>2 DEF RequestAbort
    <3>4. QED
      BY <2>2, <3>3 DEF AllEnded, Ended
  <2>3. QED
    BY <2>1, <2>2
<1>4. CASE UploadResult(i)
  <2>1. order' \in {order, "waiting_result_confirm"} /\ sample' = sample
        /\ wip[i].status = "running"
    BY <1>4 DEF UploadResult, RollsUpAfterResult, AfterResult
  <2>2. wip'[i].status = "waiting_confirm"
    BY <1>4 DEF UploadResult
  <2>3. QED
    BY <1>2, <2>1, <2>2 DEF AllEnded, Ended, EndedExec
<1>5. ASSUME RollsUpAfterConfirm(wip'), wip' \in [Items -> WipRow]
      PROVE  /\ order' \in {order, "completed", "terminated"}
             /\ AllEnded' => order' \in {"completed", "terminated"}
  <2>1. order' \in {order, "completed", "terminated"}
    BY <1>5 DEF RollsUpAfterConfirm, AfterConfirm
  <2>2. ASSUME AllEnded'
        PROVE  order' \in {"completed", "terminated"}
    <3>1. DOMAIN Seen(wip') = Items /\ \A j \in Items : Seen(wip')[j] = wip'[j].status
      BY <2>2 DEF Seen, AllEnded, Ended, EndedExec
    <3>2. AllWipsIn(Seen(wip'), EndedExec)
      BY <1>1, <2>2, <3>1 DEF AllWipsIn, AllEnded, Ended
    <3>3. QED
      BY <1>5, <3>2 DEF RollsUpAfterConfirm, AfterConfirm
  <2>3. QED
    BY <2>1, <2>2
<1>6. CASE ConfirmResult(i)
  <2>1. wip' = [wip EXCEPT ![i].status = "completed"] /\ wip[i].status = "waiting_confirm"
        /\ RollsUpAfterConfirm(wip') /\ AdvanceSample(i)
    BY <1>6 DEF ConfirmResult
  <2>2. wip' \in [Items -> WipRow]
    BY <1>6, ExecuteType DEF WipRow
  <2>3. ~Leaving'
    BY <2>1 DEF AdvanceSample
  <2>4. ~SignedAll
    BY <1>2, <2>1 DEF Ended, EndedExec
  <2>5. QED
    BY <1>5, <2>1, <2>2, <2>3, <2>4
<1>7. CASE ApproveAbort(i)
  <2>1. wip[i].pending /\ RollsUpAfterConfirm(wip')
        /\ sample' \in {sample, [sample EXCEPT !.status = "terminated"]}
    BY <1>7 DEF ApproveAbort
  <2>2. wip' \in [Items -> WipRow]
    BY <1>7, ExecuteType DEF WipRow
  <2>3. QED
    BY <1>2, <1>5, <2>1, <2>2
<1>8. CASE RejectAbort(i)
  <2>1. wip'[i].status = "running" /\ order' = "in_progress" /\ sample' = sample
        /\ wip[i].pending
    BY <1>8 DEF RejectAbort
  <2>2. QED
    BY <1>2, <2>1 DEF AllEnded, Ended, EndedExec
<1>9. QED
  BY <1>1, <1>3, <1>4, <1>6, <1>7, <1>8

(* What the way of the sample does.                                        *)
LEMMA MoveMoves ==
  ASSUME TypeOK, MoveSample
  PROVE  /\ order' = order
         /\ Leaving' => Leaving \/ AllEnded
         /\ AllEnded' => AllEnded
         /\ AllEnded => AllEnded' /\ AllThere
<1>1. order' = order
  BY DEF MoveSample, Claim, Split, CreateTransfer, Receive, Inbound, Outbound, PickupConfirmed,
     SendTransfer, CancelTransfer
<1>2. Leaving' => Leaving \/ AllEnded
  <2>1. CASE Outbound
    BY <2>1 DEF Outbound, AllEnded, Ended, Done, EndedExec
  <2>2. CASE PickupConfirmed
    BY <2>2 DEF PickupConfirmed, Leaving
  <2>3. CASE UNCHANGED sample
    BY <2>3 DEF Leaving
  <2>4. QED
    BY <2>1, <2>2, <2>3 DEF MoveSample, Claim, Split, CreateTransfer, Receive, Inbound,
       SendTransfer, CancelTransfer, TypeOK, Leaving
<1>3. AllEnded' => AllEnded
  <2>1. ASSUME NEW i \in Items, Split(i)
        PROVE  ~AllEnded'
    <3>1. wip'[i].status = "created"
      BY <2>1 DEF Split, TypeOK
    <3>2. QED
      BY <3>1 DEF AllEnded, Ended, EndedExec
  <2>2. CASE UNCHANGED wip
    BY <2>2 DEF AllEnded, Ended
  <2>3. QED
    BY <2>1, <2>2 DEF MoveSample, Claim, CreateTransfer, Receive, Inbound, Outbound,
       PickupConfirmed, SendTransfer, CancelTransfer
<1>4. AllEnded => AllEnded' /\ AllThere
  <2>1. ASSUME NEW i \in Items, Split(i)
        PROVE  ~AllEnded
    BY <2>1 DEF Split, Creatable, AllEnded, Ended, Exists, EndedExec
  <2>2. CASE UNCHANGED wip
    BY <2>2 DEF AllEnded, AllThere, Exists, Ended, EndedExec
  <2>3. AllEnded => AllThere
    BY DEF AllEnded, AllThere, Exists, Ended, EndedExec
  <2>4. QED
    BY <2>1, <2>2, <2>3 DEF MoveSample, Claim, CreateTransfer, Receive, Inbound, Outbound,
       PickupConfirmed, SendTransfer, CancelTransfer
<1>5. QED
  BY <1>1, <1>2, <1>3, <1>4

(* What reports, and the actions of A's order API, do.                     *)
LEMMA ReportMoves ==
  ASSUME Report
  PROVE  /\ UNCHANGED <<wip, sample>>
         /\ order' \in {order, "waiting_report_return"}
         /\ order' # order => order = "completed"
BY DEF Report, CreateReport, SubmitReport, ReviewReport, PublishReport, AwaitReport

LEMMA LegacyMoves ==
  ASSUME NEW action \in LegacyActions, OrderAction(action)
  PROVE  /\ UNCHANGED <<wip, sample>>
         /\ \/ order' = "ready_for_pickup" /\ action = "ready_for_pickup"
            \/ order' = "closed" /\ order = "ready_for_pickup" /\ action = "close"
BY OptionsAssumption DEF OrderAction, Transition

(* What the handlers preserve of a closed order.                           *)
LEMMA HandlerCloses ==
  ASSUME Orderly, ClosedInv, Handler
  PROVE  /\ LeavesComplete'
         /\ PickupSigned'
         /\ order' = "ready_for_pickup" => "ready_for_pickup" \in LegacyActions
         /\ order' = "closed" => SignedAll'
<1> USE DEF LeavesComplete, PickupSigned
<1>1. TypeOK /\ SignedOff
  BY DEF ClosedInv, SignInv
<1>2. (SignedAll => SignedAll') /\ (AllThere => AllThere')
  BY <1>1, AllStay DEF Handler, Next, Close
<1>3. CASE Execute
  BY <1>1, <1>2, <1>3, ExecuteMoves DEF ClosedInv
<1>4. CASE MoveSample
  BY <1>1, <1>2, <1>4, MoveMoves DEF ClosedInv
<1>5. CASE Report
  <2>1. (Leaving' <=> Leaving) /\ (AllEnded' <=> AllEnded)
    BY <1>5, ReportMoves DEF Leaving, AllEnded, Ended
  <2>2. QED
    BY <1>2, <1>5, <2>1, ReportMoves DEF ClosedInv
<1>6. ASSUME NEW action \in LegacyActions, OrderAction(action)
      PROVE  /\ LeavesComplete'
             /\ PickupSigned'
             /\ order' = "ready_for_pickup" => "ready_for_pickup" \in LegacyActions
             /\ order' = "closed" => SignedAll'
  <2>1. (Leaving' <=> Leaving) /\ (AllEnded' <=> AllEnded)
    BY <1>6, LegacyMoves DEF Leaving, AllEnded, Ended
  <2>2. order' # "closed"
    BY <1>6, LegacyMoves, OptionsAssumption DEF ClosedInv, Orderly
  <2>3. QED
    BY <1>2, <1>6, <2>1, <2>2, LegacyMoves DEF ClosedInv
<1>7. QED
  BY <1>3, <1>4, <1>5, <1>6 DEF Handler

(* When an order is told to wait for its pickup, every laboratory whose    *)
(* work exists has signed it.                                              *)
LEMMA PickupCommits ==
  ASSUME ClosedInv, NEW s \in Closers, CommitPickup(s), sess[s].all
  PROVE  AllSigned({})'
<1>1. AllSigned(sess[s].mine)
  BY DEF CommitPickup, ClosedInv, Counted
<1>2. \A i \in Items : /\ wip'[i].status = wip[i].status
                       /\ wip[i].signed \/ i \in sess[s].mine => wip'[i].signed
  BY DEF CommitPickup, ClosedInv, SignInv, TypeOK
<1>3. claimed' = claimed
  BY DEF CommitPickup
<1>4. QED
  BY <1>1, <1>2, <1>3 DEF AllSigned, Exists

(* A closer changes neither claims, nor the sample, nor the progress of a  *)
(* WIP, nor what another closer holds.                                     *)
LEMMA ClosingKeeps ==
  ASSUME TypeOK, NEW s \in Closers, Closing(s)
  PROVE  /\ UNCHANGED <<claimed, sample>>
         /\ \A i \in Items : wip'[i].status = wip[i].status
         /\ \A t \in Closers \ {s} : sess'[t] = sess[t]
<1>1. \A i \in Items : wip[i] \in WipRow
  BY DEF TypeOK, WipRow
<1>2. \A i \in Items : wip'[i].status = wip[i].status
  BY <1>1, ClosingTouches DEF WipRow
<1>3. QED
  BY <1>2 DEF Closing, CheckClosure, FlushAndCount, CommitPickup, CheckClose, CommitClose, TypeOK

(* What the closers preserve of a closed order.                            *)
LEMMA ClosingCloses ==
  ASSUME ClosedInv, NEW s \in Closers, Closing(s)
  PROVE  /\ LeavesComplete'
         /\ PickupSigned'
         /\ order' = "ready_for_pickup" => "ready_for_pickup" \in LegacyActions
         /\ order' = "closed" => SignedAll'
<1> USE DEF LeavesComplete, PickupSigned
<1>1. TypeOK
  BY DEF ClosedInv, SignInv
<1>2. (SignedAll => SignedAll') /\ (AllThere => AllThere')
  BY <1>1, AllStay DEF Closing, Next, Close
<1>3. sample' = sample /\ \A i \in Items : wip'[i].status = wip[i].status
  BY <1>1, ClosingKeeps
<1>4. (Leaving' <=> Leaving) /\ (AllEnded' <=> AllEnded)
  BY <1>3 DEF Leaving, AllEnded, Ended
<1>5. CASE CommitPickup(s)
  <2>1. CASE sess[s].all
    <3>1. AllSigned({})'
      BY <1>5, <2>1, PickupCommits
    <3>2. AllThere' => SignedAll'
      BY <3>1 DEF AllSigned, AllThere, SignedAll
    <3>3. AllEnded' => AllThere'
      BY DEF AllEnded, AllThere, Exists, Ended, EndedExec
    <3>4. order' = "waiting_pickup"
      BY <1>5, <2>1 DEF CommitPickup
    <3>5. QED
      BY <1>2, <1>4, <3>2, <3>3, <3>4 DEF ClosedInv
  <2>2. CASE ~sess[s].all
    BY <1>2, <1>4, <1>5, <2>2 DEF CommitPickup, ClosedInv
  <2>3. QED
    BY <2>1, <2>2
<1>6. CASE CommitClose(s)
  BY <1>2, <1>4, <1>6 DEF CommitClose, ClosedInv, Counted
<1>7. CASE order' = order
  BY <1>2, <1>4, <1>7 DEF ClosedInv
<1>8. QED
  BY <1>5, <1>6, <1>7 DEF Closing, CheckClosure, FlushAndCount, CheckClose

(* What was signed and claimed when a closer counted is so when it         *)
(* commits, because nothing but closers runs meanwhile.                    *)
LEMMA CountedStays ==
  ASSUME Orderly, ClosedInv, [Next]_vars, NEW s \in Closers
  PROVE  Counted(s)'
<1>1. TypeOK
  BY DEF ClosedInv, SignInv
<1>2. SignedAll => SignedAll'
  BY <1>1, AllStay
<1>3. CASE Handler
  <2>1. sess[s] = Idle /\ sess' = sess
    BY <1>1, <1>3, HandlerTouches DEF Free, Orderly
  <2>2. QED
    BY <2>1 DEF Counted, Idle
<1>4. ASSUME NEW t \in Closers, Closing(t)
      PROVE  Counted(s)'
  <2>1. ASSUME NEW mine, AllSigned(mine)
        PROVE  AllSigned(mine)'
    BY <1>1, <1>4, <2>1, ClosingKeeps, ClosableStays DEF AllSigned, Exists
  <2>2. CASE sess'[s] = sess[s]
    BY <1>2, <2>1, <2>2 DEF ClosedInv, Counted
  <2>3. CASE t = s /\ sess'[s] # sess[s]
    <3>1. ASSUME NEW scope \in Scopes, CheckClosure(s, scope)
          PROVE  Counted(s)'
      BY <1>1, <3>1 DEF CheckClosure, Counted, TypeOK
    <3>2. CASE FlushAndCount(s)
      <4>1. /\ sess'[s].phase = "flushed"
            /\ sess'[s].all = AllSigned(sess'[s].mine)
        BY <1>1, <3>2 DEF FlushAndCount, TypeOK
      <4>2. claimed' = claimed /\ wip' = wip
        BY <3>2 DEF FlushAndCount
      <4>3. QED
        BY <4>1, <4>2 DEF Counted, AllSigned, Exists
    <3>3. CASE CommitPickup(s) \/ CommitClose(s)
      BY <1>1, <3>3 DEF CommitPickup, CommitClose, Counted, TypeOK, Idle
    <3>4. CASE CheckClose(s)
      <4>1. SignedAll
        BY <3>4 DEF CheckClose, ClosedInv, PickupSigned, Leaving
      <4>2. QED
        BY <1>1, <1>2, <3>4, <4>1 DEF CheckClose, Counted, TypeOK
    <3>5. QED
      BY <1>4, <2>3, <3>1, <3>2, <3>3, <3>4 DEF Closing
  <2>4. QED
    BY <1>1, <1>4, <2>2, <2>3, ClosingKeeps
<1>5. CASE UNCHANGED vars
  BY <1>5 DEF vars, ClosedInv, Counted, AllSigned, SignedAll, Exists
<1>6. QED
  BY <1>3, <1>4, <1>5, StepKinds

(* The inductive step.                                                     *)
LEMMA ClosedStep ==
  ASSUME Orderly, ClosedInv, [Next]_vars
  PROVE  ClosedInv'
<1>1. SignInv'
  BY SignStep DEF ClosedInv, Orderly, Undisturbed
<1>2. \A s \in Closers : Counted(s)'
  BY CountedStays
<1>3. CASE Handler
  BY <1>1, <1>2, <1>3, HandlerCloses DEF ClosedInv
<1>4. ASSUME NEW s \in Closers, Closing(s)
      PROVE  ClosedInv'
  BY <1>1, <1>2, <1>4, ClosingCloses DEF ClosedInv
<1>5. CASE UNCHANGED vars
  BY <1>1, <1>2, <1>5 DEF vars, ClosedInv, LeavesComplete, PickupSigned, Leaving, AllThere,
     AllEnded, SignedAll, Exists, Ended
<1>6. QED
  BY <1>3, <1>4, <1>5, StepKinds

(* The initial state satisfies it.                                         *)
LEMMA ClosedInit ==
  ASSUME Init
  PROVE  ClosedInv
<1>1. LeavesComplete /\ PickupSigned /\ order = "sample_received"
  BY DEF Init, LeavesComplete, PickupSigned, Leaving
<1>2. \A s \in Closers : Counted(s)
  BY DEF Init, Counted, Idle
<1>3. QED
  BY <1>1, <1>2, SignInit DEF ClosedInv

(* So the invariant holds in orderly operation.                            *)
LEMMA ClosedInvariant ==
  ASSUME Orderly
  PROVE  Spec => []ClosedInv
<1>1. ClosedInv /\ [Next]_vars => ClosedInv'
  BY ClosedStep
<1>2. Init => ClosedInv
  BY ClosedInit
<1>3. QED
  BY <1>1, <1>2, PTL DEF Spec

(* A closed order has no work left, however many closers there are.        *)
THEOREM ClosedOrdersAreDone ==
  ASSUME Orderly
  PROVE  Spec => []ClosedMeansDone
<1>1. ClosedInv => ClosedMeansDone
  BY DEF ClosedInv, SignInv, SignedOff, Closable, SignedAll, ClosedMeansDone
<1>2. QED
  BY <1>1, ClosedInvariant, PTL

-----------------------------------------------------------------------------
(* One closer at a time.                                                   *)

OneAtATime == Orderly /\ \A s, t \in Closers : s = t

(* The order is where the closer found it, and the count is exact.         *)
Exact(s) ==
  /\ sess[s].phase \in {"checked", "flushed"} =>
       order \in {"completed", "waiting_report_return"}
  /\ sess[s].phase = "flushed" => (sess[s].all <=> AllSigned(sess[s].mine))
  /\ sess[s].phase = "closing" => order = "waiting_pickup"

(* The inductive invariant.                                                *)
AloneInv == ClosedInv /\ \A s \in Closers : Exact(s)

(* What one closer found stays, because it is alone.                       *)
LEMMA ExactStays ==
  ASSUME OneAtATime, AloneInv, [Next]_vars, NEW s \in Closers
  PROVE  Exact(s)'
<1>1. TypeOK
  BY DEF AloneInv, ClosedInv, SignInv
<1>2. CASE Handler
  <2>1. sess[s] = Idle /\ sess' = sess
    BY <1>1, <1>2, HandlerTouches DEF Free, OneAtATime, Orderly
  <2>2. QED
    BY <2>1 DEF Exact, Idle
<1>3. CASE Closing(s)
  <2>1. ASSUME NEW scope \in Scopes, CheckClosure(s, scope)
        PROVE  Exact(s)'
    BY <1>1, <2>1 DEF CheckClosure, Exact, TypeOK
  <2>2. CASE FlushAndCount(s)
    <3>1. /\ sess'[s].phase = "flushed"
          /\ sess'[s].all = AllSigned(sess'[s].mine)
      BY <1>1, <2>2 DEF FlushAndCount, TypeOK
    <3>2. UNCHANGED <<order, claimed, wip>> /\ order \in {"completed", "waiting_report_return"}
      BY <2>2 DEF FlushAndCount, AloneInv, Exact
    <3>3. QED
      BY <3>1, <3>2 DEF Exact, AllSigned, Exists
  <2>3. CASE CommitPickup(s) \/ CommitClose(s)
    BY <1>1, <2>3 DEF CommitPickup, CommitClose, Exact, TypeOK, Idle
  <2>4. CASE CheckClose(s)
    BY <1>1, <2>4 DEF CheckClose, Exact, TypeOK
  <2>5. QED
    BY <1>3, <2>1, <2>2, <2>3, <2>4 DEF Closing
<1>4. CASE UNCHANGED vars
  BY <1>4 DEF vars, AloneInv, Exact, AllSigned, Exists
<1>5. QED
  BY <1>2, <1>3, <1>4, StepKinds DEF OneAtATime

(* So the invariant holds with one closer at a time.                       *)
LEMMA AloneInvariant ==
  ASSUME OneAtATime
  PROVE  Spec => []AloneInv
<1>1. AloneInv /\ [Next]_vars => AloneInv'
  BY ClosedStep, ExactStays DEF AloneInv, OneAtATime
<1>2. Init => AloneInv
  BY ClosedInit DEF Init, AloneInv, Exact, Idle
<1>3. QED
  BY <1>1, <1>2, PTL DEF Spec

(* A closed order stays closed: no execution, no report and no sign-off of *)
(* it is left that could write its status.                                 *)
THEOREM ClosedOrdersStayClosed ==
  ASSUME OneAtATime
  PROVE  Spec => ClosedIsFinal
<1>1. AloneInv /\ [Next]_vars => [order = "closed" => order' = "closed"]_vars
  <2> SUFFICES ASSUME AloneInv, [Next]_vars, order = "closed"
               PROVE  order' = "closed"
    OBVIOUS
  <2>1. TypeOK /\ SignedOff /\ SignedAll
    BY DEF AloneInv, ClosedInv, SignInv
  <2>2. CASE Execute
    BY <2>1, <2>2, ExecuteMoves
  <2>3. CASE MoveSample
    BY <2>1, <2>3, MoveMoves
  <2>4. CASE Report
    BY <2>4, ReportMoves
  <2>5. ASSUME NEW action \in LegacyActions, OrderAction(action)
        PROVE  FALSE
    BY <2>5, OptionsAssumption DEF OrderAction, Transition
  <2>6. ASSUME NEW s \in Closers, Closing(s)
        PROVE  order' = "closed"
    BY <2>6 DEF Closing, CheckClosure, FlushAndCount, CommitPickup, CheckClose, CommitClose,
       AloneInv, Exact
  <2>7. CASE UNCHANGED vars
    BY <2>7 DEF vars
  <2>8. QED
    BY <2>2, <2>3, <2>4, <2>5, <2>6, <2>7, StepKinds DEF Handler
<1>2. QED
  BY <1>1, AloneInvariant, PTL DEF Spec, ClosedIsFinal

(* The laboratory that signs last hands the order over for its pickup.     *)
THEOREM LastSignOffAdvances ==
  ASSUME OneAtATime
  PROVE  Spec => LastLabAdvances
<1>1. AloneInv /\ [Next]_vars =>
        [(\E i \in Items : ~wip[i].signed /\ wip'[i].signed) /\ AllSigned({})'
           => order' = "waiting_pickup"]_vars
  <2> SUFFICES ASSUME AloneInv, [Next]_vars, AllSigned({})',
                      NEW i \in Items, ~wip[i].signed, wip'[i].signed
               PROVE  order' = "waiting_pickup"
    OBVIOUS
  <2>1. TypeOK
    BY DEF AloneInv, ClosedInv, SignInv
  <2>2. ~Handler /\ ~UNCHANGED vars
    BY <2>1, HandlerTouches DEF Untouched, vars
  <2>3. PICK s \in Closers : Closing(s)
    BY <2>2, StepKinds
  <2>4. CommitPickup(s)
    BY <2>1, <2>3, ClosingTouches
  <2>5. AllSigned(sess[s].mine)
    <3>1. claimed' = claimed /\ \A j \in Items : wip'[j].status = wip[j].status
      BY <2>1, <2>3, ClosingKeeps
    <3>2. \A j \in Items : wip'[j].signed => wip[j].signed \/ j \in sess[s].mine
      BY <2>1, <2>3, ClosingTouches
    <3>3. QED
      BY <3>1, <3>2 DEF AllSigned, Exists
  <2>6. QED
    BY <2>4, <2>5 DEF CommitPickup, AloneInv, Exact
<1>2. QED
  BY <1>1, AloneInvariant, PTL DEF Spec, LastLabAdvances

=============================================================================
