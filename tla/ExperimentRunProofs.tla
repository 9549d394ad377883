------------------------- MODULE ExperimentRunProofs -------------------------
(***************************************************************************)
(* Theorems about ExperimentRun, for any number of WIPs, sessions and      *)
(* workers, any set of requests and WIP actions, and however sessions      *)
(* interleave or die, unless a theorem's hypotheses say otherwise.         *)
(***************************************************************************)
EXTENDS ExperimentRun, TLAPS

(***************************************************************************)
(* What the steps have in common.  A step of a handler that commits stores *)
(* rows of the right types, and the row it means to store never forgets a  *)
(* note or an abort request of the copy it started from.                   *)
(***************************************************************************)

(* A row whose status is backed by the trace that leads to this status.    *)
Traced(e) ==
  /\ e.status \in {"waiting_confirm", "completed"} => e.note # "null"
  /\ e.status = "terminated" => e.abort # "none"

(* Everything traced in e is still traced in f.                            *)
Behind(e, f) ==
  /\ e.status # "absent" => f.status # "absent"
  /\ e.note # "null" => f.note # "null"
  /\ e.abort # "none" => f.abort # "none"

(* The steps that commit rows of a WIP.                                    *)
Commits(s) ==
  \/ SyncWipStatus(s) \/ CheckIn(s) \/ CheckOut(s) \/ UpdateProgress(s)
  \/ UploadResult(s) \/ VerifyData(s) \/ ConfirmResult(s) \/ RequestAbort(s)
  \/ ApproveAbort(s) \/ RejectAbort(s) \/ MachineCompletion(s) \/ Tick(s)

(* A session at work holds a session record, not Idle.                     *)
LEMMA WorkingSession ==
  ASSUME TypeOK, NEW s \in Sessions, sess[s].phase \in Phases
  PROVE  sess[s] \in Session
BY DEF TypeOK, Idle, Phases

(* Merging rows of the right types gives a row of the right type.          *)
LEMMA MergeWipType ==
  ASSUME NEW a \in WipRow, NEW b \in WipRow, NEW c \in WipRow
  PROVE  MergeWip(a, b, c) \in WipRow
BY DEF MergeWip, Dirty, WipRow

(* A merge of execution rows is an execution row.                          *)
LEMMA MergeExecType ==
  ASSUME NEW a \in ExecRow, NEW b \in ExecRow, NEW c \in ExecRow, NEW rearm \in BOOLEAN
  PROVE  MergeExec(a, b, c, rearm) \in ExecRow
BY DEF MergeExec, Dirty, ExecRow

(* The heart of the trace argument: a stale copy is harmless, because the  *)
(* columns the stored row gained meanwhile are kept by the merge.          *)
LEMMA MergeTraces ==
  ASSUME NEW a \in ExecRow, NEW b \in ExecRow, NEW c \in ExecRow, NEW rearm \in BOOLEAN,
         Traced(a), Behind(b, a), Traced(c), Behind(b, c)
  PROVE  /\ Traced(MergeExec(a, b, c, rearm))
         /\ Behind(a, MergeExec(a, b, c, rearm))
BY DEF MergeExec, Dirty, ExecRow, Traced, Behind

(* A row with another status, column by column.                            *)
Restated(e, st) ==
  [status |-> st, verified |-> e.verified,
   note |-> e.note, abort |-> e.abort, due |-> e.due]

(* The copies a handler builds have the right types.                       *)
LEMMA CopyTypes ==
  ASSUME TypeOK, NEW s \in Sessions, sess[s].phase = "loaded"
  PROVE  /\ \A st \in ExecStatuses : WithStatus(s, st) \in WipRow
         /\ \A st \in ExecStatuses : WithExec(s, st) \in ExecRow
         /\ \A st \in ExecStatuses : WithExec(s, st) = Restated(sess[s].exec, st)
         /\ Ensured(sess[s].exec) \in ExecRow
         /\ sess[s].w \in Wips /\ sess[s].wip \in WipRow /\ sess[s].exec \in ExecRow
         /\ sess[s].order \in OrderStatuses \cup {"unread"}
<1>1. sess[s] \in Session
  BY WorkingSession DEF Phases
<1>2. sess[s].wip \in WipRow /\ sess[s].exec \in ExecRow /\ sess[s].w \in Wips
      /\ sess[s].order \in OrderStatuses \cup {"unread"}
  BY <1>1 DEF Session
<1>3. ASSUME NEW st \in ExecStatuses
      PROVE  WithStatus(s, st) \in WipRow
  BY <1>2 DEF WithStatus, ExecToB, WipRow, WipStatuses, ExecStatuses, ResultReadyExec, EndedExec
<1>4. ASSUME NEW st \in ExecStatuses
      PROVE  WithExec(s, st) = Restated(sess[s].exec, st)
  BY <1>2 DEF WithExec, Ensured, ExecRow, Restated
<1>5. ASSUME NEW st \in ExecStatuses
      PROVE  WithExec(s, st) \in ExecRow
  BY <1>2, <1>4 DEF ExecRow, Restated
<1>6. Ensured(sess[s].exec) \in ExecRow
  BY <1>2 DEF Ensured, ExecRow, ExecStatuses
<1>7. QED
  BY <1>2, <1>3, <1>4, <1>5, <1>6

(* What is left of a session after a commit is a session record or Idle,   *)
(* and it no longer holds copies that it may store.                        *)
LEMMA RollUpSession ==
  ASSUME TypeOK, NEW s \in Sessions, sess[s].phase = "loaded",
         NEW st \in ExecStatuses, NEW phase \in {"result_rollup", "confirm_rollup"},
         ThenRollUp(s, phase, st)
  PROVE  \E x \in Session : sess' = [sess EXCEPT ![s] = x] /\ x.phase \notin {"loaded", "write_order"}
<1> DEFINE x == [Open(phase, sess[s].op, sess[s].w, BlankWip) EXCEPT !.exec = [NoExec EXCEPT !.status = st]]
<1>1. sess[s] \in Session
  BY WorkingSession DEF Phases
<1>2. BlankWip \in WipRow
  BY ProgressAssumption DEF BlankWip, WipRow, WipStatuses, Progress
<1>3. [NoExec EXCEPT !.status = st] \in ExecRow
  BY DEF NoExec, ExecRow, Notes, Aborts
<1>4. x \in Session /\ x.phase = phase
  BY <1>1, <1>2, <1>3 DEF Open, Session, Phases
<1>5. sess' = [sess EXCEPT ![s] = x]
  BY DEF ThenRollUp, Become
<1>6. QED
  BY <1>4, <1>5

(* A session that ends holds no copy that counts.                          *)
LEMMA IdleAfter ==
  ASSUME NEW s, Become(s, Idle)
  PROVE  \E x \in Session \cup {Idle} : sess' = [sess EXCEPT ![s] = x] /\ x.phase \notin {"loaded", "write_order"}
<1>1. Idle \in Session \cup {Idle} /\ Idle.phase \notin {"loaded", "write_order"}
  BY DEF Idle
<1>2. QED
  BY <1>1 DEF Become

(* Every committing step, in one shape.                                    *)
Committed(s) ==
  /\ sess[s].phase = "loaded"
  /\ \E nw \in WipRow, ne \in ExecRow, rearm \in BOOLEAN :
       /\ Store(s, nw, ne, rearm)
       /\ Traced(sess[s].exec) /\ Accepts(sess[s].op, sess[s].exec) =>
            Traced(ne) /\ Behind(sess[s].exec, ne)
       /\ sess[s].op = "dispatch" => ne = sess[s].exec
  /\ order' \in OrderStatuses
  /\ \E x \in Session \cup {Idle} : sess' = [sess EXCEPT ![s] = x] /\ x.phase \notin {"loaded", "write_order"}

(* Every committing operation is of that shape.                            *)
LEMMA CommitStep ==
  ASSUME TypeOK, NEW s \in Sessions, Commits(s)
  PROVE  Committed(s)
<1> DEFINE copy == sess[s].exec
           Shape(nw, ne, rearm) ==
             /\ nw \in WipRow /\ ne \in ExecRow /\ rearm \in BOOLEAN
             /\ Store(s, nw, ne, rearm)
             /\ Traced(copy) /\ Accepts(sess[s].op, copy) => Traced(ne) /\ Behind(copy, ne)
             /\ sess[s].op = "dispatch" => ne = copy
<1>0. sess[s].phase = "loaded"
  BY DEF Commits, SyncWipStatus, CheckIn, CheckOut, UpdateProgress, UploadResult, VerifyData,
         ConfirmResult, RequestAbort, ApproveAbort, RejectAbort, MachineCompletion, Tick, Loaded
<1>c. /\ \A st \in ExecStatuses : WithStatus(s, st) \in WipRow
      /\ \A st \in ExecStatuses : WithExec(s, st) \in ExecRow
      /\ \A st \in ExecStatuses : WithExec(s, st) = Restated(copy, st)
      /\ Ensured(copy) \in ExecRow
      /\ sess[s].w \in Wips /\ sess[s].wip \in WipRow /\ copy \in ExecRow
      /\ sess[s].order \in OrderStatuses \cup {"unread"}
  BY <1>0, CopyTypes
<1>r. /\ WithExec(s, "running") = Restated(copy, "running")
      /\ WithExec(s, "unloaded") = Restated(copy, "unloaded")
      /\ WithExec(s, "waiting_confirm") = Restated(copy, "waiting_confirm")
      /\ WithExec(s, "completed") = Restated(copy, "completed")
      /\ WithExec(s, "terminated") = Restated(copy, "terminated")
  BY <1>c DEF ExecStatuses, ResultReadyExec, EndedExec
<1>e. copy \in ExecRow
  BY <1>c
<1>o. order \in OrderStatuses
  BY DEF TypeOK
<1>p. FullProgress \in Progress /\ FullProgress \in Nat /\ ProgressStep \in Nat
  BY ProgressAssumption DEF Progress
<1>s. {"running", "unloaded", "waiting_confirm", "completed", "terminated"} \subseteq ExecStatuses
  BY DEF ExecStatuses, ResultReadyExec, EndedExec
<1>shape. ASSUME NEW nw, NEW ne, NEW rearm, Shape(nw, ne, rearm), order' \in OrderStatuses,
                 \E x \in Session \cup {Idle} : sess' = [sess EXCEPT ![s] = x] /\ x.phase \notin {"loaded", "write_order"}
          PROVE  Committed(s)
  <2>1. nw \in WipRow /\ ne \in ExecRow /\ rearm \in BOOLEAN
    BY <1>shape
  <2>2. QED
    BY <1>shape, <2>1, <1>0 DEF Committed
<1> HIDE DEF copy
<1>1. CASE SyncWipStatus(s)
  <2>1. PICK target \in Chain : Store(s, [sess[s].wip EXCEPT !.status = target], copy, FALSE)
    BY <1>1 DEF SyncWipStatus, copy
  <2>2. [sess[s].wip EXCEPT !.status = target] \in WipRow
    BY <1>c DEF WipRow, Chain, Rank, WipStatuses
  <2>3. Shape([sess[s].wip EXCEPT !.status = target], copy, FALSE)
    BY <2>1, <2>2, <1>c DEF Behind
  <2>4. QED
    BY <1>1, <2>3, <1>o, <1>shape, IdleAfter DEF SyncWipStatus
<1>2. CASE CheckIn(s)
  <2> DEFINE ne == [Restated(copy, "running") EXCEPT !.due = TRUE]
  <2>1. ne \in ExecRow /\ Traced(ne) /\ Behind(copy, ne)
    BY <1>e, <1>s DEF ExecRow, Traced, Behind, Restated
  <2>2. Shape(WithStatus(s, "running"), ne, TRUE)
    BY <1>2, <2>1, <1>c, <1>r, <1>s DEF CheckIn, Loaded
  <2>3. order' \in OrderStatuses
    BY <1>2, <1>o, <1>c DEF CheckIn, StoreOrder, Dirty, OrderStatuses
  <2>4. QED
    BY <1>2, <2>2, <2>3, <1>shape, IdleAfter DEF CheckIn
<1>3. CASE CheckOut(s)
  <2> DEFINE ne == [Restated(copy, "unloaded") EXCEPT !.due = FALSE]
  <2>1. ne \in ExecRow /\ Traced(ne) /\ Behind(copy, ne)
    BY <1>e, <1>s DEF ExecRow, Traced, Behind, Restated
  <2>2. Shape(WithStatus(s, "unloaded"), ne, FALSE)
    BY <1>3, <2>1, <1>c, <1>r, <1>s DEF CheckOut, Loaded
  <2>3. QED
    BY <1>3, <2>2, <1>o, <1>shape, IdleAfter DEF CheckOut
<1>4. CASE UpdateProgress(s)
  <2>1. PICK p \in Progress : Store(s, [sess[s].wip EXCEPT !.progress = p], copy, FALSE)
    BY <1>4 DEF UpdateProgress, copy
  <2>2. [sess[s].wip EXCEPT !.progress = p] \in WipRow
    BY <1>c DEF WipRow
  <2>3. Shape([sess[s].wip EXCEPT !.progress = p], copy, FALSE)
    BY <2>1, <2>2, <1>c DEF Behind
  <2>4. QED
    BY <1>4, <2>3, <1>o, <1>shape, IdleAfter DEF UpdateProgress
<1>5. CASE UploadResult(s)
  <2> DEFINE nw == [WithStatus(s, "waiting_confirm") EXCEPT !.progress = FullProgress]
             ne(note, ok) == [Restated(copy, "waiting_confirm") EXCEPT !.note = note, !.verified = ok, !.due = FALSE]
  <2>1. PICK note \in {"empty", "text"}, ok \in BOOLEAN : Store(s, nw, ne(note, ok), FALSE)
    BY <1>5, <1>r DEF UploadResult
  <2>2. nw \in WipRow
    BY <1>c, <1>s, <1>p DEF WipRow
  <2>3. ne(note, ok) \in ExecRow /\ Traced(ne(note, ok)) /\ Behind(copy, ne(note, ok))
    BY <1>e, <1>s DEF ExecRow, Traced, Behind, Restated, Notes
  <2>4. Shape(nw, ne(note, ok), FALSE)
    BY <1>5, <2>1, <2>2, <2>3 DEF UploadResult, Loaded
  <2>5. \E x \in Session : sess' = [sess EXCEPT ![s] = x] /\ x.phase \notin {"loaded", "write_order"}
    BY <1>5, <1>0, <1>s, RollUpSession DEF UploadResult
  <2>6. QED
    BY <1>5, <2>4, <2>5, <1>o, <1>shape DEF UploadResult
<1>6. CASE VerifyData(s)
  <2> DEFINE ne == [copy EXCEPT !.verified = TRUE]
  <2>1. ne \in ExecRow /\ (Traced(copy) => Traced(ne)) /\ Behind(copy, ne)
    BY <1>c DEF ExecRow, Traced, Behind, Restated
  <2>2. Shape(sess[s].wip, ne, FALSE)
    BY <1>6, <2>1, <1>c DEF VerifyData, Loaded, copy
  <2>3. QED
    BY <1>6, <2>2, <1>o, <1>shape, IdleAfter DEF VerifyData
<1>7. CASE ConfirmResult(s)
  <2> DEFINE ne == Restated(copy, "completed")
  <2>1. copy.status = "waiting_confirm" => (Traced(copy) => Traced(ne)) /\ Behind(copy, ne)
    BY <1>e, <1>s DEF ExecRow, Traced, Behind, Restated
  <2>2. Accepts(sess[s].op, copy) => copy.status = "waiting_confirm"
    BY <1>7 DEF ConfirmResult, Loaded, Accepts
  <2>3. Shape(WithStatus(s, "completed"), ne, FALSE)
    BY <1>7, <2>1, <2>2, <1>c, <1>r, <1>s DEF ConfirmResult, Loaded
  <2>4. \E x \in Session : sess' = [sess EXCEPT ![s] = x] /\ x.phase \notin {"loaded", "write_order"}
    BY <1>7, <1>0, <1>s, RollUpSession DEF ConfirmResult
  <2>5. QED
    BY <1>7, <2>3, <2>4, <1>o, <1>shape DEF ConfirmResult
<1>8. CASE RequestAbort(s)
  <2> DEFINE ne == [Ensured(copy) EXCEPT !.abort = "pending"]
  <2>1. ne \in ExecRow /\ (Traced(copy) => Traced(ne)) /\ Behind(copy, ne)
    BY <1>c DEF ExecRow, Traced, Behind, Ensured, Aborts
  <2>2. Shape(sess[s].wip, ne, FALSE)
    BY <1>8, <2>1, <1>c DEF RequestAbort, Loaded, copy
  <2>3. QED
    BY <1>8, <2>2, <1>o, <1>shape, IdleAfter DEF RequestAbort
<1>9. CASE ApproveAbort(s)
  <2> DEFINE ne == [Restated(copy, "terminated") EXCEPT !.abort = "terminated", !.due = FALSE]
  <2>1. ne \in ExecRow /\ Traced(ne) /\ Behind(copy, ne)
    BY <1>e, <1>s DEF ExecRow, Traced, Behind, Restated, Aborts
  <2>2. Shape(WithStatus(s, "terminated"), ne, FALSE)
    BY <1>9, <2>1, <1>c, <1>r, <1>s DEF ApproveAbort, Loaded
  <2>3. \E x \in Session : sess' = [sess EXCEPT ![s] = x] /\ x.phase \notin {"loaded", "write_order"}
    BY <1>9, <1>0, <1>s, RollUpSession DEF ApproveAbort
  <2>4. QED
    BY <1>9, <2>2, <2>3, <1>o, <1>shape DEF ApproveAbort
<1>10. CASE RejectAbort(s)
  <2> DEFINE ne == [Restated(copy, "running") EXCEPT !.abort = "rejected", !.due = TRUE]
  <2>1. ne \in ExecRow /\ Traced(ne) /\ Behind(copy, ne)
    BY <1>e, <1>s DEF ExecRow, Traced, Behind, Restated, Aborts
  <2>2. Shape(WithStatus(s, "running"), ne, TRUE)
    BY <1>10, <2>1, <1>c, <1>r, <1>s DEF RejectAbort, Loaded
  <2>3. order' \in OrderStatuses
    BY <1>10, <1>o DEF RejectAbort, StoreOrder, Dirty, OrderStatuses
  <2>4. QED
    BY <1>10, <2>2, <2>3, <1>shape, IdleAfter DEF RejectAbort
<1>11. CASE MachineCompletion(s)
  <2> DEFINE nw == [WithStatus(s, "waiting_confirm") EXCEPT !.progress = FullProgress]
             ne == [Restated(copy, "waiting_confirm") EXCEPT !.verified = FALSE, !.note = "text", !.due = FALSE]
  <2>1. nw \in WipRow
    BY <1>c, <1>s, <1>p DEF WipRow
  <2>2. ne \in ExecRow /\ Traced(ne) /\ Behind(copy, ne)
    BY <1>e, <1>s DEF ExecRow, Traced, Behind, Restated, Notes
  <2>3. Shape(nw, ne, FALSE)
    BY <1>11, <1>r, <2>1, <2>2 DEF MachineCompletion, Loaded
  <2>4. \E x \in Session : sess' = [sess EXCEPT ![s] = x] /\ x.phase \notin {"loaded", "write_order"}
    BY <1>11, <1>0, <1>s, RollUpSession DEF MachineCompletion
  <2>5. QED
    BY <1>11, <2>3, <2>4, <1>o, <1>shape DEF MachineCompletion
<1>12. CASE Tick(s)
  <2> DEFINE sum  == sess[s].wip.progress + ProgressStep
             full == sum >= FullProgress
             nw   == [sess[s].wip EXCEPT !.progress = IF full THEN FullProgress ELSE sum]
             ne   == [copy EXCEPT !.due = ~full]
             x    == IF full THEN Open("selected", "machine_completion", sess[s].w, BlankWip) ELSE Idle
  <2>1. nw \in WipRow
    BY <1>c, <1>p DEF WipRow, Progress
  <2>2. ne \in ExecRow /\ (Traced(copy) => Traced(ne)) /\ Behind(copy, ne)
    BY <1>c DEF ExecRow, Traced, Behind, Restated
  <2>3. Shape(nw, ne, ~full)
    BY <1>12, <2>1, <2>2 DEF Tick, Loaded, copy
  <2>4. x \in Session \cup {Idle} /\ x.phase \notin {"loaded", "write_order"}
    BY <1>c, ProgressAssumption
       DEF Open, Session, Phases, Operations, BlankWip, WipRow, WipStatuses, Progress,
           NoExec, ExecRow, Notes, Aborts, Idle
  <2>5. sess' = [sess EXCEPT ![s] = x]
    BY <1>12 DEF Tick, Become
  <2>6. QED
    BY <1>12, <2>3, <2>4, <2>5, <1>o, <1>shape DEF Tick
<1>13. QED
  BY <1>1, <1>2, <1>3, <1>4, <1>5, <1>6, <1>7, <1>8, <1>9, <1>10, <1>11, <1>12 DEF Commits

-----------------------------------------------------------------------------
(* Type correctness.                                                       *)

(* A session that opens is of the type of sessions.                        *)
LEMMA OpenType ==
  ASSUME NEW phase \in Phases, NEW op \in Operations, NEW w \in Wips, NEW row \in WipRow
  PROVE  Open(phase, op, w, row) \in Session
BY DEF Open, Session, NoExec, ExecRow, Notes, Aborts

(* A WIP as it is split off is of the type of WIP rows.                    *)
LEMMA BlankWipType == BlankWip \in WipRow
BY ProgressAssumption DEF BlankWip, WipRow, WipStatuses, Progress

(* The steps that only move a session, and the one that writes the order.  *)
LEMMA SessionStepType ==
  ASSUME TypeOK, NEW s \in Sessions,
         \/ \E w \in Wips : SelectDue(s, w)
         \/ \E op \in Operations, w \in Wips : ReadWip(s, op, w)
         \/ ReadExec(s) \/ RollUp(s) \/ WriteOrder(s) \/ Abandon(s)
  PROVE  TypeOK'
<1> DEFINE Moves == /\ UNCHANGED <<wip, exec>>
                    /\ order' \in OrderStatuses
                    /\ \E x \in Session \cup {Idle} :
                         /\ sess' = [sess EXCEPT ![s] = x]
                         /\ x.phase = "write_order" => x.order \in OrderStatuses
<1> SUFFICES Moves
  BY DEF TypeOK
<1>i. Idle.phase # "write_order"
  BY DEF Idle
<1>t. order \in OrderStatuses /\ wip \in [Wips -> WipRow] /\ exec \in [Wips -> ExecRow]
  BY DEF TypeOK
<1>1. ASSUME NEW w \in Wips, SelectDue(s, w)
      PROVE  Moves
  <2>1. /\ Open("selected", "tick", w, BlankWip) \in Session
        /\ Open("selected", "tick", w, BlankWip).phase = "selected"
    BY OpenType, BlankWipType DEF Phases, Operations, Open
  <2>2. QED
    BY <1>1, <1>t, <2>1 DEF SelectDue, Become
<1>2. ASSUME NEW op \in Operations, NEW w \in Wips, ReadWip(s, op, w)
      PROVE  Moves
  <2> DEFINE x == Open(IF op = "dispatch" THEN "loaded" ELSE "reading", op, w, wip[w])
  <2>1. x \in Session
    BY <1>t, OpenType DEF Phases
  <2>2. x.phase # "write_order"
    BY DEF Open
  <2>3. QED
    BY <1>2, <1>t, <2>1, <2>2 DEF ReadWip, Become
<1>3. CASE ReadExec(s)
  <2> DEFINE o == IF sess[s].op \in ReadsOrder THEN order ELSE "unread"
             x == [sess[s] EXCEPT !.phase = "loaded", !.exec = exec[sess[s].w], !.order = o]
  <2>1. sess[s] \in Session
    BY <1>3, WorkingSession DEF ReadExec, Phases
  <2>2. exec[sess[s].w] \in ExecRow /\ o \in OrderStatuses \cup {"unread"}
    BY <1>t, <2>1 DEF Session
  <2>3. x \in Session /\ x.phase = "loaded"
    BY <2>1, <2>2 DEF Session, Phases
  <2>4. \E y \in {x, Idle} : sess' = [sess EXCEPT ![s] = y]
    BY <1>3 DEF ReadExec, Become
  <2>5. QED
    BY <1>3, <1>t, <1>i, <2>3, <2>4 DEF ReadExec
<1>4. CASE RollUp(s)
  <2> DEFINE new == IF sess[s].phase = "result_rollup" THEN AfterResult(order, SeenBy(s))
                    ELSE AfterConfirm(order, SeenBy(s))
             x   == [sess[s] EXCEPT !.phase = "write_order", !.order = new]
  <2>1. sess[s] \in Session
    BY <1>4, WorkingSession DEF RollUp, Phases
  <2>2. new \in OrderStatuses
    BY <1>t DEF AfterResult, AfterConfirm, OrderStatuses
  <2>3. x \in Session /\ x.order \in OrderStatuses
    BY <2>1, <2>2 DEF Session, Phases
  <2>4. \E y \in {x, Idle} : sess' = [sess EXCEPT ![s] = y]
    BY <1>4 DEF RollUp, Become
  <2>5. QED
    BY <1>4, <1>t, <1>i, <2>3, <2>4 DEF RollUp
<1>5. CASE WriteOrder(s)
  <2>1. sess[s].order \in OrderStatuses
    BY <1>5 DEF WriteOrder, TypeOK
  <2>2. QED
    BY <1>5, <1>t, <1>i, <2>1 DEF WriteOrder, Become
<1>6. CASE Abandon(s)
  BY <1>6, <1>t, <1>i DEF Abandon, Become
<1>7. QED
  BY <1>1, <1>2, <1>3, <1>4, <1>5, <1>6

(* The steps that commit rows.                                             *)
LEMMA StoreType ==
  ASSUME TypeOK, NEW s \in Sessions, sess[s].phase = "loaded",
         NEW nw \in WipRow, NEW ne \in ExecRow, NEW rearm \in BOOLEAN,
         Store(s, nw, ne, rearm)
  PROVE  wip' \in [Wips -> WipRow] /\ exec' \in [Wips -> ExecRow]
<1> DEFINE w == sess[s].w
<1>1. w \in Wips /\ sess[s].wip \in WipRow /\ sess[s].exec \in ExecRow
  BY CopyTypes
<1>2. wip[w] \in WipRow /\ exec[w] \in ExecRow
  BY <1>1 DEF TypeOK
<1>3. MergeWip(wip[w], sess[s].wip, nw) \in WipRow
  BY <1>1, <1>2, MergeWipType
<1>4. MergeExec(exec[w], sess[s].exec, ne, rearm) \in ExecRow
  BY <1>1, <1>2, MergeExecType
<1>5. QED
  BY <1>1, <1>3, <1>4 DEF Store, TypeOK

(* A commit preserves the types.                                           *)
LEMMA CommitType ==
  ASSUME TypeOK, NEW s \in Sessions, Commits(s)
  PROVE  TypeOK'
<1>1. Committed(s)
  BY CommitStep
<1>2. wip' \in [Wips -> WipRow] /\ exec' \in [Wips -> ExecRow]
  BY <1>1, StoreType DEF Committed
<1>3. QED
  BY <1>1, <1>2 DEF Committed, TypeOK

(* A WIP action of B preserves the types.                                  *)
LEMMA WipActionType ==
  ASSUME TypeOK, NEW w \in Wips, NEW action \in WipActions, WipAction(w, action)
  PROVE  TypeOK'
<1>1. ActionStatus[action] \in WipStatuses
  BY WipActionsAssumption DEF ActionStatus, WipStatuses
<1>2. wip[w] \in WipRow /\ FullProgress \in Progress
  BY ProgressAssumption DEF TypeOK, Progress
<1>3. [wip[w] EXCEPT !.status = ActionStatus[action],
                     !.progress = IF action = "complete" THEN FullProgress ELSE @] \in WipRow
  BY <1>1, <1>2 DEF WipRow
<1>4. wip' \in [Wips -> WipRow]
  BY <1>3 DEF WipAction, TypeOK
<1>5. QED
  BY <1>4 DEF WipAction, TypeOK

(* Every step of the specification, sorted by what it does.                *)
LEMMA StepCases ==
  ASSUME Next
  PROVE  \/ \E s \in Sessions :
              \/ Commits(s)
              \/ \E w \in Wips : SelectDue(s, w)
              \/ \E op \in Operations, w \in Wips : ReadWip(s, op, w)
              \/ ReadExec(s) \/ RollUp(s) \/ WriteOrder(s) \/ Abandon(s)
         \/ \E w \in Wips, action \in WipActions : WipAction(w, action)
BY DEF Next, Read, Handle, Commits

(* Every row and every session always holds values of the right types.     *)
THEOREM TypeCorrect == Spec => []TypeOK
<1>1. Init => TypeOK
  BY BlankWipType DEF Init, TypeOK, NoExec, ExecRow, Notes, Aborts, OrderStatuses, Idle
<1>2. TypeOK /\ [Next]_vars => TypeOK'
  <2> SUFFICES ASSUME TypeOK, [Next]_vars PROVE TypeOK'
    OBVIOUS
  <2>1. CASE Next
    BY <2>1, StepCases, SessionStepType, CommitType, WipActionType
  <2>2. CASE UNCHANGED vars
    BY <2>2 DEF vars, TypeOK
  <2>3. QED
    BY <2>1, <2>2
<1>3. QED
  BY <1>1, <1>2, PTL DEF Spec

-----------------------------------------------------------------------------
(* Traces.  ResultRecorded and TerminatedOnRequest speak of the stored     *)
(* rows only; they are inductive together with what a session that is      *)
(* about to commit still knows of its copy.                                *)

SoundCopy(s) ==
  /\ Traced(sess[s].exec)
  /\ Behind(sess[s].exec, exec[sess[s].w])
  /\ \/ Accepts(sess[s].op, sess[s].exec)
     \/ sess[s].op = "dispatch"

TraceInv ==
  /\ \A w \in Wips : Traced(exec[w])
  /\ \A s \in Sessions : sess[s].phase = "loaded" => SoundCopy(s)

(* No step of the specification makes a stored row lose a trace.           *)
RowsKeepTraces == \A w \in Wips : Traced(exec'[w]) /\ Behind(exec[w], exec'[w])

(* A commit erases no trace in any row.                                    *)
LEMMA CommitTraces ==
  ASSUME TypeOK, TraceInv, NEW s \in Sessions, Commits(s)
  PROVE  RowsKeepTraces
<1> DEFINE w == sess[s].w
           copy == sess[s].exec
<1>1. sess[s].phase = "loaded"
  BY CommitStep DEF Committed
<1>2. PICK nw \in WipRow, ne \in ExecRow, rearm \in BOOLEAN :
        /\ Store(s, nw, ne, rearm)
        /\ Traced(copy) /\ Accepts(sess[s].op, copy) => Traced(ne) /\ Behind(copy, ne)
        /\ sess[s].op = "dispatch" => ne = copy
  BY CommitStep DEF Committed
<1>3. w \in Wips /\ copy \in ExecRow /\ exec \in [Wips -> ExecRow]
  BY <1>1, CopyTypes DEF TypeOK
<1>4. Traced(copy) /\ Behind(copy, exec[w]) /\ Traced(exec[w])
  BY <1>1, <1>3 DEF TraceInv, SoundCopy
<1>5. Traced(ne) /\ Behind(copy, ne)
  BY <1>1, <1>2, <1>4 DEF TraceInv, SoundCopy, Behind
<1>6. /\ Traced(MergeExec(exec[w], copy, ne, rearm))
      /\ Behind(exec[w], MergeExec(exec[w], copy, ne, rearm))
  BY <1>3, <1>4, <1>5, MergeTraces
<1>7. exec' = [exec EXCEPT ![w] = MergeExec(exec[w], copy, ne, rearm)]
  BY <1>2 DEF Store
<1>8. QED
  BY <1>3, <1>6, <1>7 DEF RowsKeepTraces, TraceInv, Behind

(* Only a commit changes the execution rows.                               *)
LEMMA SilentStep ==
  ASSUME [Next]_vars
  PROVE  (\E s \in Sessions : Commits(s)) \/ UNCHANGED exec
BY StepCases DEF vars, SelectDue, ReadWip, ReadExec, RollUp, WriteOrder, Abandon, WipAction

(* No step erases a trace in any row.                                      *)
LEMMA StepTraces ==
  ASSUME TypeOK, TraceInv, [Next]_vars
  PROVE  RowsKeepTraces
<1>1. CASE UNCHANGED exec
  BY <1>1 DEF TraceInv, RowsKeepTraces, Behind
<1>2. QED
  BY <1>1, CommitTraces, SilentStep

(* A loaded copy is the stored row, and the operation's guard accepts it.  *)
FreshCopy(s) ==
  /\ sess[s].exec = exec[sess[s].w]
  /\ Accepts(sess[s].op, sess[s].exec)

(* A session that has just loaded its copy: a dispatch reads no execution  *)
(* row, every other operation holds the row as it is stored.               *)
LEMMA NewlyLoaded ==
  ASSUME TypeOK, [Next]_vars, NEW s \in Sessions,
         sess'[s].phase = "loaded", sess'[s] # sess[s]
  PROVE  \/ sess'[s].op = "dispatch" /\ sess'[s].exec = NoExec
         \/ FreshCopy(s)' /\ sess'[s].w \in Wips /\ exec' = exec
<1> DEFINE Fresh == \/ sess'[s].op = "dispatch" /\ sess'[s].exec = NoExec
                    \/ FreshCopy(s)' /\ sess'[s].w \in Wips /\ exec' = exec
<1>1. Next
  BY DEF vars
<1>2. ASSUME NEW t \in Sessions, Commits(t)
      PROVE  FALSE
  <2>1. \E x \in Session \cup {Idle} : sess' = [sess EXCEPT ![t] = x] /\ x.phase # "loaded"
    BY <1>2, CommitStep DEF Committed
  <2>2. QED
    BY <2>1 DEF TypeOK
<1>3. ASSUME NEW t \in Sessions, NEW w \in Wips, SelectDue(t, w)
      PROVE  FALSE
  BY <1>3 DEF SelectDue, Become, Open, TypeOK
<1>4. ASSUME NEW t \in Sessions, NEW op \in Operations, NEW w \in Wips, ReadWip(t, op, w)
      PROVE  Fresh
  <2>1. sess'[s] = Open(IF op = "dispatch" THEN "loaded" ELSE "reading", op, w, wip[w])
    BY <1>4 DEF ReadWip, Become, TypeOK
  <2>2. QED
    BY <2>1 DEF Open
<1>5. ASSUME NEW t \in Sessions, ReadExec(t)
      PROVE  Fresh
  <2>1. t = s
    BY <1>5 DEF ReadExec, Become, TypeOK
  <2>2. sess[s] \in Session
    BY <1>5, <2>1, WorkingSession DEF ReadExec, Phases
  <2>3. PICK o : sess'[s] = [sess[s] EXCEPT !.phase = "loaded", !.exec = exec[sess[s].w], !.order = o]
                 /\ Accepts(sess[s].op, exec[sess[s].w]) /\ exec' = exec
    BY <1>5, <2>1 DEF ReadExec, Become, TypeOK, Idle
  <2>4. /\ sess'[s].op = sess[s].op /\ sess'[s].w = sess[s].w
        /\ sess'[s].exec = exec[sess[s].w] /\ sess[s].w \in Wips
    BY <2>2, <2>3 DEF Session
  <2>5. QED
    BY <2>3, <2>4 DEF FreshCopy
<1>6. ASSUME NEW t \in Sessions, RollUp(t) \/ WriteOrder(t) \/ Abandon(t)
      PROVE  FALSE
  <2>1. t = s
    BY <1>6 DEF RollUp, WriteOrder, Abandon, Become, TypeOK
  <2>2. CASE RollUp(s)
    <3>1. sess[s] \in Session
      BY <2>2, WorkingSession DEF RollUp, Phases
    <3>2. ASSUME NEW o, sess'[s] = [sess[s] EXCEPT !.phase = "write_order", !.order = o]
          PROVE  FALSE
      BY <3>1, <3>2 DEF Session
    <3>3. sess'[s] = Idle \/ \E o : sess'[s] = [sess[s] EXCEPT !.phase = "write_order", !.order = o]
      BY <2>2 DEF RollUp, Become, TypeOK
    <3>4. sess'[s] # Idle
      BY DEF Idle
    <3>5. PICK o : sess'[s] = [sess[s] EXCEPT !.phase = "write_order", !.order = o]
      BY <3>3, <3>4
    <3>6. QED
      BY <3>2, <3>5
  <2>3. CASE WriteOrder(s) \/ Abandon(s)
    BY <2>3 DEF WriteOrder, Abandon, Become, TypeOK, Idle
  <2>4. QED
    BY <1>6, <2>1, <2>2, <2>3
<1>7. ASSUME NEW w \in Wips, NEW action \in WipActions, WipAction(w, action)
      PROVE  FALSE
  BY <1>7 DEF WipAction
<1>8. QED
  BY <1>1, <1>2, <1>3, <1>4, <1>5, <1>6, <1>7, StepCases

(* What the copies of the sessions become.                                 *)
LEMMA CopiesStaySound ==
  ASSUME TypeOK, TraceInv, [Next]_vars
  PROVE  \A s \in Sessions : sess'[s].phase = "loaded" => SoundCopy(s)'
<1> SUFFICES ASSUME NEW s \in Sessions, sess'[s].phase = "loaded"
             PROVE  SoundCopy(s)'
  OBVIOUS
<1>1. RowsKeepTraces
  BY StepTraces
<1>2. exec \in [Wips -> ExecRow]
  BY DEF TypeOK
<1>3. CASE sess'[s] = sess[s]
  <2>1. sess[s] \in Session
    BY <1>3, WorkingSession DEF Phases
  <2>2. SoundCopy(s) /\ sess[s].w \in Wips
    BY <1>3, <2>1 DEF TraceInv, Session
  <2>3. QED
    BY <1>1, <1>3, <2>2 DEF SoundCopy, RowsKeepTraces, Behind
<1>4. CASE sess'[s] # sess[s]
  <2>1. CASE sess'[s].op = "dispatch" /\ sess'[s].exec = NoExec
    BY <2>1 DEF SoundCopy, Traced, Behind, NoExec
  <2>2. CASE FreshCopy(s)' /\ sess'[s].w \in Wips /\ exec' = exec
    BY <2>2 DEF FreshCopy, SoundCopy, TraceInv, Behind
  <2>3. QED
    BY <1>4, <2>1, <2>2, NewlyLoaded
<1>5. QED
  BY <1>3, <1>4

(* In every reachable state rows are backed by their traces, and copies    *)
(* are sound.                                                              *)
LEMMA TraceInvariant == Spec => []TraceInv
<1>1. Init => TraceInv
  BY DEF Init, TraceInv, Traced, NoExec, Idle
<1>2. TypeOK /\ TraceInv /\ [Next]_vars => TraceInv'
  <2> SUFFICES ASSUME TypeOK, TraceInv, [Next]_vars PROVE TraceInv'
    OBVIOUS
  <2>1. \A w \in Wips : Traced(exec'[w])
    BY StepTraces DEF RowsKeepTraces
  <2>2. QED
    BY <2>1, CopiesStaySound DEF TraceInv, Traced
<1>3. QED
  BY <1>1, <1>2, TypeCorrect, PTL DEF Spec

(* However sessions interleave, a result that waits for confirmation or is *)
(* confirmed has a stored note.                                            *)
THEOREM ResultIsRecorded == Spec => []ResultRecorded
<1>1. TraceInv => ResultRecorded
  BY DEF TraceInv, Traced, ResultRecorded
<1>2. QED
  BY <1>1, TraceInvariant, PTL

(* However sessions interleave, only a requested abort terminates.         *)
THEOREM TerminationWasRequested == Spec => []TerminatedOnRequest
<1>1. TraceInv => TerminatedOnRequest
  BY DEF TraceInv, Traced, TerminatedOnRequest
<1>2. QED
  BY <1>1, TraceInvariant, PTL

(* No commit, however stale its copy, erases a row, a note or an abort     *)
(* request.                                                                *)
THEOREM TracesAreKept == Spec => TracesKept
<1> DEFINE Kept == \A w \in Wips : /\ exec[w].status # "absent" => exec'[w].status # "absent"
                                   /\ exec[w].abort # "none" => exec'[w].abort # "none"
                                   /\ exec[w].note # "null" => exec'[w].note # "null"
<1>1. TypeOK /\ TraceInv /\ [Next]_vars => [Kept]_exec
  BY StepTraces DEF RowsKeepTraces, Behind
<1>2. QED
  BY <1>1, TypeCorrect, TraceInvariant, PTL DEF Spec, TracesKept

-----------------------------------------------------------------------------
(* Refinement.  When a single session does all the work, the copy it is    *)
(* about to commit is still the stored row, so every commit is a step of   *)
(* the WIP's lifecycle.  Requests to other modules may still change        *)
(* `wips` under the session's feet: the lifecycle lives in wip_execution.  *)

FreshInv ==
  \A s \in Sessions : sess[s].phase = "loaded" => sess[s].op = "dispatch" \/ FreshCopy(s)

(* Storing a row whose copy is fresh stores the intended row.              *)
LEMMA FreshMerge ==
  ASSUME NEW a \in ExecRow, NEW c \in ExecRow, NEW rearm \in BOOLEAN
  PROVE  /\ MergeExec(a, a, c, rearm).status = c.status
         /\ MergeExec(a, a, c, rearm).verified = c.verified
         /\ MergeExec(a, a, c, rearm).abort = c.abort
BY DEF MergeExec, Dirty, ExecRow

(* One stored row, seen from the lifecycle.                                *)
LEMMA LifecycleView ==
  ASSUME NEW s \in Sessions, TypeOK, sess[s].phase = "loaded", FreshCopy(s),
         NEW nw, NEW ne \in ExecRow, NEW rearm \in BOOLEAN, Store(s, nw, ne, rearm),
         ne.status # "absent"
  PROVE  /\ Status'   = [Status   EXCEPT ![sess[s].w] = ne.status]
         /\ Verified' = [Verified EXCEPT ![sess[s].w] = ne.verified]
         /\ Abort'    = [Abort    EXCEPT ![sess[s].w] = ne.abort]
<1> DEFINE w == sess[s].w
           m == MergeExec(exec[w], exec[w], ne, rearm)
<1>1. w \in Wips /\ exec \in [Wips -> ExecRow] /\ exec[w] \in ExecRow
  BY CopyTypes DEF TypeOK
<1>2. exec' = [exec EXCEPT ![w] = m]
  BY DEF Store, FreshCopy
<1>3. m.status = ne.status /\ m.verified = ne.verified /\ m.abort = ne.abort
  BY <1>1, FreshMerge
<1>4. \A v \in Wips : exec'[v] = IF v = w THEN m ELSE exec[v]
  BY <1>1, <1>2
<1> HIDE DEF m
<1>e. \A v \in Wips : Ensured(exec'[v]).status = IF v = w THEN ne.status
                                                 ELSE Ensured(exec[v]).status
  BY <1>1, <1>3, <1>4 DEF Ensured
<1>5. Status' = [Status EXCEPT ![w] = ne.status]
  BY <1>1, <1>e DEF Status
<1>6. Verified' = [Verified EXCEPT ![w] = ne.verified]
  BY <1>1, <1>3, <1>4 DEF Verified
<1>7. Abort' = [Abort EXCEPT ![w] = ne.abort]
  BY <1>1, <1>3, <1>4 DEF Abort
<1>8. QED
  BY <1>5, <1>6, <1>7

(* A commit of one of the run's handlers is a step of the lifecycle, or    *)
(* changes nothing the lifecycle sees.                                     *)
LEMMA CommitRefines ==
  ASSUME TypeOK, FreshInv, NEW s \in Sessions, Commits(s),
         NEW w \in Wips, w = sess[s].w
  PROVE  Lifecycle!Next \/ UNCHANGED Lifecycle!vars
<1> DEFINE copy == sess[s].exec
<1>0. sess[s].phase = "loaded"
  BY CommitStep DEF Committed
<1>c. /\ \A st \in ExecStatuses : WithExec(s, st) = Restated(copy, st)
      /\ Ensured(copy) \in ExecRow
      /\ w \in Wips /\ copy \in ExecRow /\ exec \in [Wips -> ExecRow]
  BY <1>0, CopyTypes DEF TypeOK
<1>s. {"running", "unloaded", "waiting_confirm", "completed", "terminated"} \subseteq ExecStatuses
  BY DEF ExecStatuses, ResultReadyExec, EndedExec
<1>f. sess[s].op # "dispatch" =>
        /\ FreshCopy(s)
        /\ copy = exec[w]
        /\ Status[w] = Ensured(copy).status
        /\ Verified[w] = copy.verified
        /\ Abort[w] = copy.abort
  BY <1>0, <1>c DEF FreshInv, FreshCopy, Status, Verified, Abort
<1>d. /\ Status = [v \in Wips |-> Status[v]]
      /\ Verified = [v \in Wips |-> Verified[v]]
      /\ Abort = [v \in Wips |-> Abort[v]]
  BY DEF Status, Verified, Abort
<1>v. UNCHANGED <<Status, Verified, Abort>> => UNCHANGED Lifecycle!vars
  BY DEF Lifecycle!vars
<1>n. Lifecycle!Step(w) => Lifecycle!Next
  BY <1>c DEF Lifecycle!Next
<1>store. ASSUME NEW nw, NEW ne \in ExecRow, NEW rearm \in BOOLEAN, Store(s, nw, ne, rearm),
                 ne.status # "absent", sess[s].op # "dispatch"
          PROVE  /\ Status'   = [Status   EXCEPT ![w] = ne.status]
                 /\ Verified' = [Verified EXCEPT ![w] = ne.verified]
                 /\ Abort'    = [Abort    EXCEPT ![w] = ne.abort]
                 /\ ne.status = Ensured(copy).status => Status' = Status
                 /\ ne.verified = copy.verified => Verified' = Verified
                 /\ ne.abort = copy.abort => Abort' = Abort
  <2>1. /\ Status'   = [Status   EXCEPT ![w] = ne.status]
        /\ Verified' = [Verified EXCEPT ![w] = ne.verified]
        /\ Abort'    = [Abort    EXCEPT ![w] = ne.abort]
    BY <1>0, <1>f, <1>store, LifecycleView
  <2>2. QED
    BY <2>1, <1>store, <1>f, <1>d
<1>e. copy.status # "absent" => Ensured(copy) = copy
  BY DEF Ensured
<1>1. CASE SyncWipStatus(s)
  <2>1. PICK nw : Store(s, nw, copy, FALSE)
    BY <1>1 DEF SyncWipStatus
  <2>2. MergeExec(exec[w], copy, copy, FALSE) = exec[w]
    BY <1>c DEF MergeExec, Dirty, ExecRow
  <2>3. exec' = exec
    BY <2>1, <2>2, <1>c DEF Store
  <2>4. QED
    BY <2>3, <1>v DEF Status, Verified, Abort
<1>2. CASE CheckIn(s)
  <2> DEFINE ne == [Restated(copy, "running") EXCEPT !.due = TRUE]
  <2>1. /\ ne \in ExecRow /\ ne.status = "running"
        /\ ne.verified = copy.verified /\ ne.abort = copy.abort
    BY <1>c, <1>s DEF ExecRow, Restated, Ensured, Notes, Aborts
  <2>2. sess[s].op = "check_in" /\ Ensured(copy).status = "waiting_load"
    BY <1>2, <1>f DEF CheckIn, Loaded, FreshCopy, Accepts
  <2>3. Store(s, WithStatus(s, "running"), ne, TRUE)
    BY <1>2, <1>c, <1>s DEF CheckIn
  <2> HIDE DEF ne
  <2>4. /\ Status' = [Status EXCEPT ![w] = "running"]
        /\ Verified' = Verified /\ Abort' = Abort
    BY <1>store, <2>1, <2>2, <2>3
  <2>5. Lifecycle!CheckIn(w)
    BY <2>2, <2>4, <1>f, <1>e DEF Lifecycle!CheckIn
  <2>6. QED
    BY <2>5, <1>n DEF Lifecycle!Step
<1>3. CASE CheckOut(s)
  <2> DEFINE ne == [Restated(copy, "unloaded") EXCEPT !.due = FALSE]
  <2>1. /\ ne \in ExecRow /\ ne.status = "unloaded"
        /\ ne.verified = copy.verified /\ ne.abort = copy.abort
    BY <1>c, <1>s DEF ExecRow, Restated, Ensured, Notes, Aborts
  <2>2. sess[s].op = "check_out" /\ copy.status = "running"
    BY <1>3, <1>f DEF CheckOut, Loaded, FreshCopy, Accepts
  <2>3. Store(s, WithStatus(s, "unloaded"), ne, FALSE)
    BY <1>3, <1>c, <1>s DEF CheckOut
  <2> HIDE DEF ne
  <2>4. /\ Status' = [Status EXCEPT ![w] = "unloaded"]
        /\ Verified' = Verified /\ Abort' = Abort
    BY <1>store, <2>1, <2>2, <2>3
  <2>5. Lifecycle!CheckOut(w)
    BY <2>2, <2>4, <1>f, <1>e DEF Lifecycle!CheckOut
  <2>6. QED
    BY <2>5, <1>n DEF Lifecycle!Step
<1>4. CASE UpdateProgress(s)
  <2>1. PICK nw : Store(s, nw, copy, FALSE)
    BY <1>4 DEF UpdateProgress
  <2>2. MergeExec(exec[w], copy, copy, FALSE) = exec[w]
    BY <1>c DEF MergeExec, Dirty, ExecRow
  <2>3. exec' = exec
    BY <2>1, <2>2, <1>c DEF Store
  <2>4. QED
    BY <2>3, <1>v DEF Status, Verified, Abort
<1>5. CASE UploadResult(s)
  <2> DEFINE ne(note, ok) == [Restated(copy, "waiting_confirm") EXCEPT !.note = note, !.verified = ok, !.due = FALSE]
             nw == [WithStatus(s, "waiting_confirm") EXCEPT !.progress = FullProgress]
  <2>1. PICK note \in {"empty", "text"}, ok \in BOOLEAN : Store(s, nw, ne(note, ok), FALSE)
    BY <1>5, <1>c, <1>s DEF UploadResult
  <2>2. /\ ne(note, ok) \in ExecRow /\ ne(note, ok).status = "waiting_confirm"
        /\ ne(note, ok).verified = ok /\ ne(note, ok).abort = copy.abort
    BY <1>c, <1>s DEF ExecRow, Restated, Notes
  <2>3. sess[s].op = "upload_result" /\ copy.status \in {"running", "unloaded"}
    BY <1>5, <1>f DEF UploadResult, Loaded, FreshCopy, Accepts
  <2> HIDE DEF ne
  <2>4. /\ Status' = [Status EXCEPT ![w] = "waiting_confirm"]
        /\ Verified' = [Verified EXCEPT ![w] = ok] /\ Abort' = Abort
    BY <1>store, <2>1, <2>2, <2>3
  <2>5. Lifecycle!ReportResult(w)
    BY <2>3, <2>4, <1>f, <1>e DEF Lifecycle!ReportResult
  <2>6. QED
    BY <2>5, <1>n DEF Lifecycle!Step
<1>6. CASE VerifyData(s)
  <2> DEFINE ne == [copy EXCEPT !.verified = TRUE]
  <2>1. /\ ne \in ExecRow /\ ne.status = copy.status
        /\ ne.verified = TRUE /\ ne.abort = copy.abort
    BY <1>c, <1>s DEF ExecRow, Restated, Ensured, Notes, Aborts
  <2>2. sess[s].op = "verify_data" /\ copy.status = "waiting_confirm" /\ ~copy.verified
    BY <1>6, <1>f DEF VerifyData, Loaded, FreshCopy, Accepts
  <2>3. Store(s, sess[s].wip, ne, FALSE)
    BY <1>6, <1>c, <1>s DEF VerifyData
  <2> HIDE DEF ne
  <2>4. /\ Verified' = [Verified EXCEPT ![w] = TRUE]
        /\ Status' = Status /\ Abort' = Abort
    BY <1>store, <1>f, <1>e, <2>1, <2>2, <2>3
  <2>5. Lifecycle!Verify(w)
    BY <2>2, <2>4, <1>f, <1>e DEF Lifecycle!Verify
  <2>6. QED
    BY <2>5, <1>n DEF Lifecycle!Step
<1>7. CASE ConfirmResult(s)
  <2> DEFINE ne == Restated(copy, "completed")
  <2>1. /\ ne \in ExecRow /\ ne.status = "completed"
        /\ ne.verified = copy.verified /\ ne.abort = copy.abort
    BY <1>c, <1>s DEF ExecRow, Restated, Ensured, Notes, Aborts
  <2>2. sess[s].op = "confirm_result" /\ copy.status = "waiting_confirm" /\ copy.verified
    BY <1>7, <1>f DEF ConfirmResult, Loaded, FreshCopy, Accepts
  <2>3. Store(s, WithStatus(s, "completed"), ne, FALSE)
    BY <1>7, <1>c, <1>s DEF ConfirmResult
  <2> HIDE DEF ne
  <2>4. /\ Status' = [Status EXCEPT ![w] = "completed"]
        /\ Verified' = Verified /\ Abort' = Abort
    BY <1>store, <2>1, <2>2, <2>3
  <2>5. Lifecycle!Confirm(w)
    BY <2>2, <2>4, <1>f, <1>e DEF Lifecycle!Confirm
  <2>6. QED
    BY <2>5, <1>n DEF Lifecycle!Step
<1>8. CASE RequestAbort(s)
  <2> DEFINE ne == [Ensured(copy) EXCEPT !.abort = "pending"]
  <2>1. /\ ne \in ExecRow /\ ne.status = Ensured(copy).status /\ ne.status # "absent"
        /\ ne.verified = copy.verified /\ ne.abort = "pending"
    BY <1>c, <1>s DEF ExecRow, Restated, Ensured, Notes, Aborts
  <2>2. sess[s].op = "request_abort" /\ Ensured(copy).status \notin EndedExec /\ copy.abort # "pending"
    BY <1>8, <1>f DEF RequestAbort, Loaded, FreshCopy, Accepts
  <2>3. Store(s, sess[s].wip, ne, FALSE)
    BY <1>8, <1>c, <1>s DEF RequestAbort
  <2> HIDE DEF ne
  <2>4. /\ Abort' = [Abort EXCEPT ![w] = "pending"]
        /\ Status' = Status /\ Verified' = Verified
    BY <1>store, <2>1, <2>2, <2>3
  <2>5. Lifecycle!RequestAbort(w)
    BY <2>2, <2>4, <1>f, <1>e DEF Lifecycle!RequestAbort, EndedExec, Lifecycle!Ended
  <2>6. QED
    BY <2>5, <1>n DEF Lifecycle!Step
<1>9. CASE ApproveAbort(s)
  <2> DEFINE ne == [Restated(copy, "terminated") EXCEPT !.abort = "terminated", !.due = FALSE]
  <2>1. /\ ne \in ExecRow /\ ne.status = "terminated"
        /\ ne.verified = copy.verified /\ ne.abort = "terminated"
    BY <1>c, <1>s DEF ExecRow, Restated, Ensured, Notes, Aborts
  <2>2. sess[s].op = "approve_abort" /\ copy.abort = "pending"
    BY <1>9, <1>f DEF ApproveAbort, Loaded, FreshCopy, Accepts
  <2>3. Store(s, WithStatus(s, "terminated"), ne, FALSE)
    BY <1>9, <1>c, <1>s DEF ApproveAbort
  <2> HIDE DEF ne
  <2>4. /\ Status' = [Status EXCEPT ![w] = "terminated"]
        /\ Abort' = [Abort EXCEPT ![w] = "terminated"] /\ Verified' = Verified
    BY <1>store, <2>1, <2>2, <2>3
  <2>5. Lifecycle!ReviewAbort(w)
    BY <2>2, <2>4, <1>f, <1>e DEF Lifecycle!ReviewAbort
  <2>6. QED
    BY <2>5, <1>n DEF Lifecycle!Step
<1>10. CASE RejectAbort(s)
  <2> DEFINE ne == [Restated(copy, "running") EXCEPT !.abort = "rejected", !.due = TRUE]
  <2>1. /\ ne \in ExecRow /\ ne.status = "running"
        /\ ne.verified = copy.verified /\ ne.abort = "rejected"
    BY <1>c, <1>s DEF ExecRow, Restated, Ensured, Notes, Aborts
  <2>2. sess[s].op = "reject_abort" /\ copy.abort = "pending"
    BY <1>10, <1>f DEF RejectAbort, Loaded, FreshCopy, Accepts
  <2>3. Store(s, WithStatus(s, "running"), ne, TRUE)
    BY <1>10, <1>c, <1>s DEF RejectAbort
  <2> HIDE DEF ne
  <2>4. /\ Status' = [Status EXCEPT ![w] = "running"]
        /\ Abort' = [Abort EXCEPT ![w] = "rejected"] /\ Verified' = Verified
    BY <1>store, <2>1, <2>2, <2>3
  <2>5. Lifecycle!ReviewAbort(w)
    BY <2>2, <2>4, <1>f, <1>e DEF Lifecycle!ReviewAbort
  <2>6. QED
    BY <2>5, <1>n DEF Lifecycle!Step
<1>11. CASE MachineCompletion(s)
  <2> DEFINE ne == [Restated(copy, "waiting_confirm") EXCEPT !.verified = FALSE, !.note = "text", !.due = FALSE]
  <2>1. /\ ne \in ExecRow /\ ne.status = "waiting_confirm"
        /\ ne.verified = FALSE /\ ne.abort = copy.abort
    BY <1>c, <1>s DEF ExecRow, Restated, Ensured, Notes, Aborts
  <2>2. sess[s].op = "machine_completion" /\ copy.status \in {"running", "unloaded"}
    BY <1>11, <1>f DEF MachineCompletion, Loaded, FreshCopy, Accepts
  <2>3. Store(s, [WithStatus(s, "waiting_confirm") EXCEPT !.progress = FullProgress], ne, FALSE)
    BY <1>11, <1>c, <1>s DEF MachineCompletion
  <2> HIDE DEF ne
  <2>4. /\ Status' = [Status EXCEPT ![w] = "waiting_confirm"]
        /\ Verified' = [Verified EXCEPT ![w] = FALSE] /\ Abort' = Abort
    BY <1>store, <2>1, <2>2, <2>3
  <2>5. Lifecycle!ReportResult(w)
    BY <2>2, <2>4, <1>f, <1>e DEF Lifecycle!ReportResult
  <2>6. QED
    BY <2>5, <1>n DEF Lifecycle!Step
<1>12. CASE Tick(s)
  <2> DEFINE sum  == sess[s].wip.progress + ProgressStep
             full == sum >= FullProgress
             nw   == [sess[s].wip EXCEPT !.progress = IF full THEN FullProgress ELSE sum]
             ne   == [copy EXCEPT !.due = ~full]
             m    == MergeExec(exec[w], copy, ne, ~full)
  <2>1. Store(s, nw, ne, ~full)
    BY <1>12 DEF Tick
  <2>2. exec' = [exec EXCEPT ![w] = m]
    BY <2>1 DEF Store
  <2>3. full \in BOOLEAN
    OBVIOUS
  <2> HIDE DEF full
  <2>4. /\ m.status = exec[w].status
        /\ m.verified = exec[w].verified
        /\ m.abort = exec[w].abort
    BY <1>c, <2>3 DEF MergeExec, Dirty, ExecRow
  <2> HIDE DEF m
  <2>5. \A v \in Wips : /\ Ensured(exec'[v]).status = Ensured(exec[v]).status
                        /\ exec'[v].verified = exec[v].verified
                        /\ exec'[v].abort = exec[v].abort
    BY <1>c, <2>2, <2>4 DEF Ensured
  <2>6. QED
    BY <2>5, <1>v DEF Status, Verified, Abort
<1>13. QED
  BY <1>1, <1>2, <1>3, <1>4, <1>5, <1>6, <1>7, <1>8, <1>9, <1>10, <1>11, <1>12 DEF Commits

(* With one session, its copy of the execution is the stored row.          *)
LEMMA FreshInvariant ==
  ASSUME NEW s0, Sessions = {s0}
  PROVE  Spec => []FreshInv
<1>1. Init => FreshInv
  BY DEF Init, FreshInv, Idle
<1>2. TypeOK /\ FreshInv /\ [Next]_vars => FreshInv'
  <2> SUFFICES ASSUME TypeOK, FreshInv, [Next]_vars, NEW s \in Sessions,
                      sess'[s].phase = "loaded", sess'[s].op # "dispatch"
               PROVE  FreshCopy(s)'
    BY DEF FreshInv
  <2>1. CASE sess'[s] # sess[s]
    BY <2>1, NewlyLoaded
  <2>2. CASE sess'[s] = sess[s]
    <3>1. FreshCopy(s)
      BY <2>2 DEF FreshInv
    <3>2. ASSUME NEW t \in Sessions, Commits(t)
          PROVE  FALSE
      <4>1. t = s
        OBVIOUS
      <4>2. \E x \in Session \cup {Idle} : sess' = [sess EXCEPT ![s] = x] /\ x.phase # "loaded"
        BY <3>2, <4>1, CommitStep DEF Committed
      <4>3. QED
        BY <4>2 DEF TypeOK
    <3>3. exec' = exec
      BY <3>2, SilentStep
    <3>4. QED
      BY <2>2, <3>1, <3>3 DEF FreshCopy
  <2>3. QED
    BY <2>1, <2>2
<1>3. QED
  BY <1>1, <1>2, TypeCorrect, PTL DEF Spec

(* With a single session, which serves requests and runs the ticks one     *)
(* after the other, the service implements the lifecycle of a WIP,         *)
(* whatever B writes to `wips` and wherever the session dies.              *)
THEOREM SerialRefinement ==
  ASSUME NEW s0, Sessions = {s0}
  PROVE  Spec => LifecycleSpec
<1>1. Init => Lifecycle!Init
  BY DEF Init, Lifecycle!Init, Status, Verified, Abort, NoExec, Ensured
<1>2. TypeOK /\ FreshInv /\ [Next]_vars => [Lifecycle!Next]_(Lifecycle!vars)
  <2> SUFFICES ASSUME TypeOK, FreshInv, [Next]_vars
               PROVE  Lifecycle!Next \/ UNCHANGED Lifecycle!vars
    OBVIOUS
  <2>1. ASSUME NEW s \in Sessions, Commits(s)
        PROVE  Lifecycle!Next \/ UNCHANGED Lifecycle!vars
    <3>1. sess[s].w \in Wips
      BY <2>1, CommitStep, CopyTypes DEF Committed
    <3>2. QED
      BY <2>1, <3>1, CommitRefines
  <2>2. CASE UNCHANGED exec
    BY <2>2 DEF Lifecycle!vars, Status, Verified, Abort
  <2>3. QED
    BY <2>1, <2>2, SilentStep
<1>3. QED
  BY <1>1, <1>2, TypeCorrect, FreshInvariant, PTL DEF Spec, LifecycleSpec, Lifecycle!Spec

-----------------------------------------------------------------------------
(* What a commit does to the two status columns, to the due time, and to   *)
(* its session, sorted by the way it leaves the execution status.          *)

(* The status stays, or the row is inserted.                               *)
Touches(s, nw, ne, rearm) ==
  /\ sess[s].op \in {"dispatch", "update_progress", "verify_data", "request_abort"}
  /\ IF sess[s].op = "dispatch" THEN nw.status \in Chain /\ ne = sess[s].exec
     ELSE nw.status = sess[s].wip.status
  /\ \/ ne.status = sess[s].exec.status
     \/ sess[s].exec.status = "absent" /\ ne.status = "waiting_load"
  /\ ne.due = sess[s].exec.due /\ ~rearm
  /\ Become(s, Idle)
  /\ order' = order

(* The status stays, and the worker either rearms the row or keeps the WIP.*)
Ticks(s, nw, ne, rearm) ==
  /\ sess[s].op = "tick"
  /\ nw.status = sess[s].wip.status /\ ne.status = sess[s].exec.status
  /\ IF rearm THEN Become(s, Idle)
     ELSE Become(s, Open("selected", "machine_completion", sess[s].w, BlankWip))
  /\ order' = order

(* The run begins, or goes on.                                             *)
Runs(s, nw, ne, rearm) ==
  /\ sess[s].op \in {"check_in", "reject_abort"}
  /\ nw.status = "running" /\ ne.status = "running" /\ rearm
  /\ Become(s, Idle)
  /\ sess[s].op = "check_in" =>
       StoreOrder(s, IF sess[s].order = "scheduled" THEN "in_progress" ELSE sess[s].order)

(* The run leaves `running` for st.                                        *)
Leaves(s, nw, ne, st) ==
  /\ nw.status = ExecToB(st) /\ ne.status = st
  /\ \/ sess[s].op = "check_out" /\ st = "unloaded" /\ Become(s, Idle)
     \/ /\ sess[s].op \in {"upload_result", "machine_completion"} /\ st = "waiting_confirm"
        /\ ThenRollUp(s, "result_rollup", st)
     \/ /\ sess[s].op \in {"confirm_result", "approve_abort"} /\ st \in EndedExec
        /\ ThenRollUp(s, "confirm_rollup", st)
  /\ order' = order

(* One of these.                                                           *)
Effect(s, nw, ne, rearm) ==
  \/ Touches(s, nw, ne, rearm)
  \/ Ticks(s, nw, ne, rearm)
  \/ Runs(s, nw, ne, rearm)
  \/ \E st \in {"unloaded", "waiting_confirm", "completed", "terminated"} : Leaves(s, nw, ne, st)

(* Every commit has one of these effects.                                  *)
LEMMA CommitEffect ==
  ASSUME TypeOK, NEW s \in Sessions, Commits(s)
  PROVE  /\ sess[s].phase = "loaded" /\ sess[s] \in Session
         /\ \E nw \in WipRow, ne \in ExecRow, rearm \in BOOLEAN :
              Store(s, nw, ne, rearm) /\ Effect(s, nw, ne, rearm)
<1> DEFINE copy == sess[s].exec
           row  == sess[s].wip
           Goal == \E nw \in WipRow, ne \in ExecRow, rearm \in BOOLEAN :
                     Store(s, nw, ne, rearm) /\ Effect(s, nw, ne, rearm)
<1>0. sess[s].phase = "loaded" /\ sess[s] \in Session
  BY CommitStep, WorkingSession DEF Committed, Phases
<1>c. /\ \A st \in ExecStatuses : WithStatus(s, st) \in WipRow
      /\ \A st \in ExecStatuses : WithExec(s, st) \in ExecRow
      /\ \A st \in ExecStatuses : WithExec(s, st) = Restated(copy, st)
      /\ Ensured(copy) \in ExecRow /\ row \in WipRow /\ copy \in ExecRow
  BY <1>0, CopyTypes
<1> SUFFICES Goal
  BY <1>0
<1>s. {"running", "unloaded", "waiting_confirm", "completed", "terminated"} \subseteq ExecStatuses
  BY DEF ExecStatuses, ResultReadyExec, EndedExec
<1>w. \A st \in ExecStatuses : WithStatus(s, st).status = ExecToB(st)
  BY <1>c DEF WithStatus, WipRow
<1>p. FullProgress \in Progress /\ FullProgress \in Nat /\ ProgressStep \in Nat
  BY ProgressAssumption DEF Progress
<1>r. ExecToB("running") = "running"
  BY DEF ExecToB
<1>q. /\ WithExec(s, "running") = Restated(copy, "running")
      /\ WithExec(s, "unloaded") = Restated(copy, "unloaded")
      /\ WithExec(s, "waiting_confirm") = Restated(copy, "waiting_confirm")
      /\ WithExec(s, "completed") = Restated(copy, "completed")
      /\ WithExec(s, "terminated") = Restated(copy, "terminated")
  BY <1>c, <1>s
<1>k. copy \in ExecRow
  BY <1>c
<1>goal. ASSUME NEW nw \in WipRow, NEW ne \in ExecRow, NEW rearm \in BOOLEAN,
                Store(s, nw, ne, rearm),
                \/ Touches(s, nw, ne, rearm) \/ Ticks(s, nw, ne, rearm) \/ Runs(s, nw, ne, rearm)
                \/ Leaves(s, nw, ne, "unloaded") \/ Leaves(s, nw, ne, "waiting_confirm")
                \/ Leaves(s, nw, ne, "completed") \/ Leaves(s, nw, ne, "terminated")
         PROVE  Goal
  BY <1>goal DEF Effect
<1> HIDE DEF Goal
<1>1. CASE SyncWipStatus(s)
  <2>1. PICK target \in Chain : Store(s, [row EXCEPT !.status = target], copy, FALSE)
    BY <1>1 DEF SyncWipStatus
  <2>2. [row EXCEPT !.status = target] \in WipRow /\ [row EXCEPT !.status = target].status = target
    BY <1>c DEF WipRow, Chain, Rank, WipStatuses
  <2>3. Touches(s, [row EXCEPT !.status = target], copy, FALSE)
    BY <1>1, <2>2 DEF SyncWipStatus, Loaded, Touches
  <2>4. QED
    BY <1>c, <2>1, <2>2, <2>3, <1>goal
<1>2. CASE CheckIn(s)
  <2> DEFINE nw == WithStatus(s, "running")
             ne == [Restated(copy, "running") EXCEPT !.due = TRUE]
  <2>1. nw \in WipRow /\ ne \in ExecRow /\ nw.status = "running" /\ ne.status = "running"
    BY <1>c, <1>k, <1>s, <1>w, <1>r DEF ExecRow, Restated
  <2>2. Store(s, nw, ne, TRUE) /\ Runs(s, nw, ne, TRUE)
    BY <1>2, <1>q, <2>1 DEF CheckIn, Loaded, Runs
  <2> HIDE DEF nw, ne
  <2>3. QED
    BY <2>1, <2>2, <1>goal
<1>3. CASE CheckOut(s)
  <2> DEFINE nw == WithStatus(s, "unloaded")
             ne == [Restated(copy, "unloaded") EXCEPT !.due = FALSE]
  <2>1. nw \in WipRow /\ ne \in ExecRow /\ nw.status = ExecToB("unloaded") /\ ne.status = "unloaded"
    BY <1>c, <1>k, <1>s, <1>w DEF ExecRow, Restated
  <2>2. Store(s, nw, ne, FALSE) /\ Leaves(s, nw, ne, "unloaded")
    BY <1>3, <1>q, <2>1 DEF CheckOut, Loaded, Leaves
  <2> HIDE DEF nw, ne
  <2>3. QED
    BY <2>1, <2>2, <1>goal
<1>4. CASE UpdateProgress(s)
  <2>1. PICK p \in Progress : Store(s, [row EXCEPT !.progress = p], copy, FALSE)
    BY <1>4 DEF UpdateProgress
  <2>2. [row EXCEPT !.progress = p] \in WipRow /\ [row EXCEPT !.progress = p].status = row.status
    BY <1>c DEF WipRow
  <2>3. Touches(s, [row EXCEPT !.progress = p], copy, FALSE)
    BY <1>4, <2>2 DEF UpdateProgress, Loaded, Touches
  <2>4. QED
    BY <1>c, <2>1, <2>2, <2>3, <1>goal
<1>5. CASE UploadResult(s)
  <2> DEFINE nw == [WithStatus(s, "waiting_confirm") EXCEPT !.progress = FullProgress]
             ne(note, ok) == [Restated(copy, "waiting_confirm") EXCEPT !.note = note, !.verified = ok, !.due = FALSE]
  <2>1. PICK note \in {"empty", "text"}, ok \in BOOLEAN : Store(s, nw, ne(note, ok), FALSE)
    BY <1>5, <1>q DEF UploadResult
  <2>2. nw \in WipRow /\ nw.status = ExecToB("waiting_confirm")
    BY <1>c, <1>s, <1>w, <1>p DEF WipRow
  <2>3. ne(note, ok) \in ExecRow /\ ne(note, ok).status = "waiting_confirm"
    BY <1>k, <1>s DEF ExecRow, Notes, Restated
  <2>4. Leaves(s, nw, ne(note, ok), "waiting_confirm")
    BY <1>5, <1>q, <2>2, <2>3 DEF UploadResult, Loaded, Leaves
  <2> HIDE DEF nw, ne
  <2>5. QED
    BY <2>1, <2>2, <2>3, <2>4, <1>goal
<1>6. CASE VerifyData(s)
  <2> DEFINE ne == [copy EXCEPT !.verified = TRUE]
  <2>1. ne \in ExecRow /\ ne.status = copy.status /\ ne.due = copy.due
    BY <1>c DEF ExecRow
  <2>2. Store(s, row, ne, FALSE) /\ Touches(s, row, ne, FALSE)
    BY <1>6, <2>1 DEF VerifyData, Loaded, Touches
  <2> HIDE DEF ne
  <2>3. QED
    BY <1>c, <2>1, <2>2, <1>goal
<1>7. CASE ConfirmResult(s)
  <2> DEFINE nw == WithStatus(s, "completed")
             ne == Restated(copy, "completed")
  <2>1. nw \in WipRow /\ ne \in ExecRow /\ nw.status = ExecToB("completed") /\ ne.status = "completed"
    BY <1>c, <1>q, <1>s, <1>w DEF Restated
  <2>2. Store(s, nw, ne, FALSE) /\ Leaves(s, nw, ne, "completed")
    BY <1>7, <1>q, <2>1 DEF ConfirmResult, Loaded, Leaves, EndedExec
  <2> HIDE DEF nw, ne
  <2>3. QED
    BY <2>1, <2>2, <1>goal
<1>8. CASE RequestAbort(s)
  <2> DEFINE ne == [Ensured(copy) EXCEPT !.abort = "pending"]
  <2>1. /\ ne \in ExecRow /\ ne.due = copy.due
        /\ \/ ne.status = copy.status
           \/ copy.status = "absent" /\ ne.status = "waiting_load"
    BY <1>c DEF ExecRow, Ensured, Aborts
  <2>2. Store(s, row, ne, FALSE) /\ Touches(s, row, ne, FALSE)
    BY <1>8, <2>1 DEF RequestAbort, Loaded, Touches
  <2> HIDE DEF ne
  <2>3. QED
    BY <1>c, <2>1, <2>2, <1>goal
<1>9. CASE ApproveAbort(s)
  <2> DEFINE nw == WithStatus(s, "terminated")
             ne == [Restated(copy, "terminated") EXCEPT !.abort = "terminated", !.due = FALSE]
  <2>1. nw \in WipRow /\ nw.status = ExecToB("terminated")
    BY <1>c, <1>s, <1>w
  <2>2. ne \in ExecRow /\ ne.status = "terminated"
    BY <1>k, <1>s DEF ExecRow, Aborts, Restated
  <2>3. Store(s, nw, ne, FALSE) /\ Leaves(s, nw, ne, "terminated")
    BY <1>9, <1>q, <2>1, <2>2 DEF ApproveAbort, Loaded, Leaves, EndedExec
  <2> HIDE DEF nw, ne
  <2>4. QED
    BY <2>1, <2>2, <2>3, <1>goal
<1>10. CASE RejectAbort(s)
  <2> DEFINE nw == WithStatus(s, "running")
             ne == [Restated(copy, "running") EXCEPT !.abort = "rejected", !.due = TRUE]
  <2>1. nw \in WipRow /\ nw.status = "running"
    BY <1>c, <1>s, <1>w, <1>r
  <2>2. ne \in ExecRow /\ ne.status = "running"
    BY <1>k, <1>s DEF ExecRow, Aborts, Restated
  <2>3. Store(s, nw, ne, TRUE) /\ Runs(s, nw, ne, TRUE)
    BY <1>10, <1>q, <2>1, <2>2 DEF RejectAbort, Loaded, Runs
  <2> HIDE DEF nw, ne
  <2>4. QED
    BY <2>1, <2>2, <2>3, <1>goal
<1>11. CASE MachineCompletion(s)
  <2> DEFINE nw == [WithStatus(s, "waiting_confirm") EXCEPT !.progress = FullProgress]
             ne == [Restated(copy, "waiting_confirm") EXCEPT !.verified = FALSE, !.note = "text", !.due = FALSE]
  <2>1. nw \in WipRow /\ nw.status = ExecToB("waiting_confirm")
    BY <1>c, <1>s, <1>w, <1>p DEF WipRow
  <2>2. ne \in ExecRow /\ ne.status = "waiting_confirm"
    BY <1>k, <1>s DEF ExecRow, Notes, Restated
  <2>3. Store(s, nw, ne, FALSE) /\ Leaves(s, nw, ne, "waiting_confirm")
    BY <1>11, <1>q, <2>1, <2>2 DEF MachineCompletion, Loaded, Leaves
  <2> HIDE DEF nw, ne
  <2>4. QED
    BY <2>1, <2>2, <2>3, <1>goal
<1>12. CASE Tick(s)
  <2> DEFINE sum  == row.progress + ProgressStep
             full == sum >= FullProgress
             nw   == [row EXCEPT !.progress = IF full THEN FullProgress ELSE sum]
             ne   == [copy EXCEPT !.due = ~full]
  <2>1. nw \in WipRow /\ nw.status = row.status
    BY <1>c, <1>p DEF WipRow, Progress
  <2>2. ne \in ExecRow /\ ne.status = copy.status
    BY <1>c DEF ExecRow
  <2>3. Store(s, nw, ne, ~full) /\ Ticks(s, nw, ne, ~full)
    BY <1>12, <2>1, <2>2 DEF Tick, Loaded, Ticks
  <2> DEFINE rearm == ~full
  <2>4. rearm \in BOOLEAN /\ Store(s, nw, ne, rearm) /\ Ticks(s, nw, ne, rearm)
    BY <2>3
  <2> HIDE DEF full, nw, ne, rearm
  <2>5. QED
    BY <2>1, <2>2, <2>4, <1>goal
<1>13. QED
  BY <1>0, <1>1, <1>2, <1>3, <1>4, <1>5, <1>6, <1>7, <1>8, <1>9, <1>10, <1>11, <1>12 DEF Commits

(* What a commit leaves in the columns the properties below speak of.      *)
Columns(s, w, nw, ne, rearm) ==
  /\ w = sess[s].w
  /\ \A v \in Wips \ {w} : exec'[v] = exec[v] /\ wip'[v] = wip[v]
  /\ wip'[w].status = Dirty(wip[w].status, sess[s].wip.status, nw.status)
  /\ exec'[w].status = Dirty(exec[w].status, sess[s].exec.status, ne.status)
  /\ exec'[w].due = IF rearm THEN TRUE ELSE Dirty(exec[w].due, sess[s].exec.due, ne.due)

(* A commit stores them in the row of its WIP.                             *)
LEMMA StoredColumns ==
  ASSUME TypeOK, NEW s \in Sessions, sess[s].phase = "loaded",
         NEW nw \in WipRow, NEW ne \in ExecRow, NEW rearm \in BOOLEAN,
         Store(s, nw, ne, rearm)
  PROVE  \E w \in Wips : Columns(s, w, nw, ne, rearm)
<1>0. PICK w \in Wips : w = sess[s].w
  BY CopyTypes
<1>1. wip \in [Wips -> WipRow] /\ exec \in [Wips -> ExecRow]
  BY DEF TypeOK
<1>2. /\ wip'  = [wip  EXCEPT ![w] = MergeWip(wip[w], sess[s].wip, nw)]
      /\ exec' = [exec EXCEPT ![w] = MergeExec(exec[w], sess[s].exec, ne, rearm)]
  BY <1>0 DEF Store
<1>3. /\ wip'[w] = MergeWip(wip[w], sess[s].wip, nw)
      /\ exec'[w] = MergeExec(exec[w], sess[s].exec, ne, rearm)
      /\ \A v \in Wips \ {w} : exec'[v] = exec[v] /\ wip'[v] = wip[v]
  BY <1>1, <1>2
<1>4. Columns(s, w, nw, ne, rearm)
  BY <1>0, <1>3 DEF MergeWip, MergeExec, Columns
<1>5. QED
  BY <1>4

(* A session that goes on to roll up: its phase, and the status it carries.*)
LEMMA RollUpCarries ==
  ASSUME TypeOK, NEW s \in Sessions, NEW phase, NEW st, ThenRollUp(s, phase, st)
  PROVE  /\ sess' = [sess EXCEPT ![s] = sess'[s]]
         /\ sess'[s].phase = phase /\ sess'[s].op = sess[s].op /\ sess'[s].w = sess[s].w
         /\ sess'[s].order = "unread" /\ sess'[s].exec.status = st
<1> DEFINE x == [Open(phase, sess[s].op, sess[s].w, BlankWip) EXCEPT !.exec = [NoExec EXCEPT !.status = st]]
<1>1. sess' = [sess EXCEPT ![s] = x] /\ sess'[s] = x
  BY DEF ThenRollUp, Become, TypeOK
<1>2. /\ x.phase = phase /\ x.op = sess[s].op /\ x.w = sess[s].w
      /\ x.order = "unread" /\ x.exec.status = st
  BY DEF Open, NoExec
<1>3. QED
  BY <1>1, <1>2

-----------------------------------------------------------------------------
(* The roll-up of the order.  An order that is in progress again after a   *)
(* rejected abort can be overwritten by a roll-up of results, and a        *)
(* session that dies leaves its roll-up undone: where neither happens, the *)
(* order is rolled up as soon as every run has ended.                      *)

Outcomes == {"completed", "terminated"}

(* What a session may carry towards the order.                             *)
CarriesOrder(x) ==
  x # Idle => /\ x.op # "reject_abort"
              /\ x.order # "scheduled"
              /\ x.phase = "write_order" => x.order \in Outcomes
              /\ x.phase = "confirm_rollup" => x.exec.status \in EndedExec

OrderInv ==
  /\ order \in {"sample_received"} \cup Outcomes
  /\ \A s \in Sessions : CarriesOrder(sess[s])
  /\ RolledUp

(* A commit leaves the order alone, and a run that ends has its roll-up    *)
(* ahead.                                                                  *)
LEMMA CommitOrder ==
  ASSUME TypeOK, OrderInv, NEW s \in Sessions, Commits(s)
  PROVE  OrderInv'
<1>1. sess[s].phase = "loaded" /\ sess[s] \in Session /\ sess[s] # Idle
  BY CommitEffect DEF Idle
<1>2. PICK nw \in WipRow, ne \in ExecRow, rearm \in BOOLEAN :
        Store(s, nw, ne, rearm) /\ Effect(s, nw, ne, rearm)
  BY CommitEffect
<1>3. PICK w \in Wips : Columns(s, w, nw, ne, rearm)
  BY <1>1, <1>2, StoredColumns
<1>c. /\ \A v \in Wips \ {w} : exec'[v] = exec[v]
      /\ exec'[w].status = Dirty(exec[w].status, sess[s].exec.status, ne.status)
  BY <1>3 DEF Columns
<1>4. order' = order
  BY <1>1, <1>2 DEF Effect, Touches, Ticks, Runs, Leaves, OrderInv, CarriesOrder, StoreOrder, Dirty
<1>5. /\ sess' = [sess EXCEPT ![s] = sess'[s]]
      /\ CarriesOrder(sess'[s])
      /\ \/ sess'[s].phase = "confirm_rollup"
         \/ ne.status = sess[s].exec.status
         \/ ne.status \notin EndedExec
  <2>1. CASE Touches(s, nw, ne, rearm) \/ Runs(s, nw, ne, rearm)
    BY <2>1 DEF Touches, Runs, Become, CarriesOrder, EndedExec, TypeOK
  <2>2. CASE Ticks(s, nw, ne, rearm)
    <3>1. /\ Open("selected", "machine_completion", sess[s].w, BlankWip).op # "reject_abort"
          /\ Open("selected", "machine_completion", sess[s].w, BlankWip).order = "unread"
          /\ Open("selected", "machine_completion", sess[s].w, BlankWip).phase = "selected"
      BY DEF Open
    <3>2. QED
      BY <2>2, <3>1 DEF Ticks, Become, CarriesOrder, TypeOK
  <2>3. ASSUME NEW st \in {"unloaded", "waiting_confirm", "completed", "terminated"},
               Leaves(s, nw, ne, st)
        PROVE  <1>5!1 /\ <1>5!2 /\ <1>5!3
    <3>1. CASE Become(s, Idle) /\ st = "unloaded"
      BY <2>3, <3>1 DEF Leaves, Become, CarriesOrder, EndedExec, TypeOK
    <3>2. CASE ThenRollUp(s, "result_rollup", st) /\ st = "waiting_confirm"
      BY <1>1, <2>3, <3>2, RollUpCarries DEF Leaves, CarriesOrder, EndedExec, OrderInv
    <3>3. CASE ThenRollUp(s, "confirm_rollup", st) /\ st \in EndedExec
      BY <1>1, <2>3, <3>3, RollUpCarries DEF CarriesOrder, OrderInv
    <3>4. QED
      BY <2>3, <3>1, <3>2, <3>3 DEF Leaves
  <2>4. QED
    BY <1>2, <2>1, <2>2, <2>3 DEF Effect
<1>6. \A t \in Sessions : t # s => sess'[t] = sess[t]
  BY <1>5 DEF TypeOK
<1>7. \A t \in Sessions : CarriesOrder(sess'[t])
  BY <1>5, <1>6 DEF OrderInv
<1>8. ASSUME AllEnded', ~RollUpAhead'
      PROVE  AllEnded /\ ~RollUpAhead
  <2>1. sess'[s].phase # "confirm_rollup"
    BY <1>8 DEF RollUpAhead
  <2>2. ASSUME NEW v \in Wips
        PROVE  exec[v].status \in EndedExec
    <3>1. exec'[v].status \in EndedExec
      BY <1>8 DEF AllEnded, AllWipsIn
    <3>2. CASE v # w
      BY <1>c, <3>1, <3>2
    <3>3. CASE v = w
      BY <1>5, <1>c, <2>1, <3>1, <3>3 DEF Dirty
    <3>4. QED
      BY <3>2, <3>3
  <2>3. ~RollUpAhead
    BY <1>1, <1>6, <1>8 DEF RollUpAhead
  <2>4. QED
    BY <1>3, <2>2, <2>3 DEF AllEnded, AllWipsIn
<1>9. QED
  BY <1>4, <1>7, <1>8 DEF OrderInv, RolledUp

(* The other steps of a session: what it carries stays true of it, and its *)
(* roll-up is done before it is no longer ahead.                           *)
LEMMA MoveOrder ==
  ASSUME TypeOK, OrderInv, NEW s \in Sessions, Mortal = {}, "reject_abort" \notin Requests,
         \/ \E w \in Wips : SelectDue(s, w)
         \/ \E op \in Operations, w \in Wips : ReadWip(s, op, w)
         \/ ReadExec(s) \/ RollUp(s) \/ WriteOrder(s) \/ Abandon(s)
  PROVE  OrderInv'
<1> DEFINE Moves == /\ exec' = exec
                    /\ order' = order \/ order' \in Outcomes
                    /\ sess' = [sess EXCEPT ![s] = sess'[s]]
                    /\ CarriesOrder(sess'[s])
                    /\ \/ sess[s].phase \notin {"confirm_rollup", "write_order"}
                       \/ sess'[s].phase \in {"confirm_rollup", "write_order"}
                       \/ AllEnded => order' \in Outcomes
<1>1. Moves => OrderInv'
  <2> SUFFICES ASSUME Moves PROVE OrderInv'
    OBVIOUS
  <2>1. \A t \in Sessions : t # s => sess'[t] = sess[t]
    BY DEF TypeOK
  <2>2. \A t \in Sessions : CarriesOrder(sess'[t])
    BY <2>1 DEF OrderInv
  <2>3. AllEnded' = AllEnded
    BY DEF AllEnded
  <2>4. ~RollUpAhead' => ~RollUpAhead \/ (AllEnded => order' \in Outcomes)
    BY <2>1 DEF RollUpAhead
  <2>5. order' \in {"sample_received"} \cup Outcomes
    BY DEF OrderInv
  <2>6. RolledUp'
    BY <2>3, <2>4 DEF RolledUp, OrderInv, Outcomes
  <2>7. QED
    BY <2>2, <2>5, <2>6 DEF OrderInv
<1> SUFFICES Moves
  BY <1>1
<1>c. CarriesOrder(sess[s]) /\ CarriesOrder(Idle)
  BY DEF OrderInv, CarriesOrder
<1>d. \A x : (x = Idle => x.phase = "idle")
  BY DEF Idle
<1>2. ASSUME NEW w \in Wips, SelectDue(s, w)
      PROVE  Moves
  <2>1. sess' = [sess EXCEPT ![s] = Open("selected", "tick", w, BlankWip)]
    BY <1>2 DEF SelectDue, Become
  <2>2. CarriesOrder(Open("selected", "tick", w, BlankWip))
    BY DEF CarriesOrder, Open
  <2>3. QED
    BY <1>2, <1>d, <2>1, <2>2 DEF SelectDue, TypeOK
<1>3. ASSUME NEW op \in Operations, NEW w \in Wips, ReadWip(s, op, w)
      PROVE  Moves
  <2> DEFINE phase == IF op = "dispatch" THEN "loaded" ELSE "reading"
  <2>1. sess' = [sess EXCEPT ![s] = Open(phase, op, w, wip[w])]
    BY <1>3 DEF ReadWip, Become
  <2>2. op # "reject_abort" /\ sess[s].phase \in {"idle", "selected"}
    BY <1>3, <1>c DEF ReadWip, CarriesOrder, Open, Idle
  <2>3. CarriesOrder(Open(phase, op, w, wip[w]))
    BY <2>2 DEF CarriesOrder, Open
  <2>4. QED
    BY <1>3, <2>1, <2>2, <2>3 DEF ReadWip, TypeOK
<1>4. CASE ReadExec(s)
  <2>1. sess[s] \in Session /\ sess[s].phase = "reading" /\ sess[s] # Idle
    BY <1>4, WorkingSession DEF ReadExec, Phases, Idle
  <2> DEFINE x(o) == [sess[s] EXCEPT !.phase = "loaded", !.exec = exec[sess[s].w], !.order = o]
  <2>2. \E o \in {order, "unread"} : sess' = [sess EXCEPT ![s] = x(o)]
                                  \/ sess' = [sess EXCEPT ![s] = Idle]
    BY <1>4 DEF ReadExec, Become
  <2>3. ASSUME NEW o \in {order, "unread"}
        PROVE  CarriesOrder(x(o))
    <3>1. x(o).op = sess[s].op /\ x(o).order = o /\ x(o).phase = "loaded"
      BY <2>1 DEF Session
    <3>2. o # "scheduled"
      BY DEF OrderInv, Outcomes
    <3>3. QED
      BY <2>1, <3>1, <3>2, <1>c DEF CarriesOrder
  <2> HIDE DEF x
  <2>4. QED
    BY <1>4, <1>c, <2>1, <2>2, <2>3 DEF ReadExec, TypeOK
<1>5. CASE RollUp(s)
  <2>1. sess[s] \in Session /\ sess[s].phase \in {"result_rollup", "confirm_rollup"} /\ sess[s] # Idle
    BY <1>5, WorkingSession DEF RollUp, Phases, Idle
  <2> DEFINE new == IF sess[s].phase = "result_rollup" THEN AfterResult(order, SeenBy(s))
                    ELSE AfterConfirm(order, SeenBy(s))
             x   == [sess[s] EXCEPT !.phase = "write_order", !.order = new]
  <2>2. new # order => new \in Outcomes
    BY DEF AfterResult, AfterConfirm, Outcomes, OrderInv
  <2>3. sess[s].phase = "confirm_rollup" /\ AllEnded => new \in Outcomes
    <3>1. ASSUME sess[s].phase = "confirm_rollup", AllEnded
          PROVE  AllWipsIn(SeenBy(s), EndedExec)
      <4>1. sess[s].exec.status \in EndedExec
        BY <1>c, <2>1, <3>1 DEF CarriesOrder
      <4>2. QED
        BY <3>1, <4>1 DEF AllEnded, AllWipsIn, SeenBy
    <3>2. QED
      BY <3>1 DEF AfterConfirm, Outcomes
  <2>4. x.op = sess[s].op /\ x.order = new /\ x.phase = "write_order"
    BY <2>1 DEF Session
  <2>5. new # order => CarriesOrder(x)
    BY <1>c, <2>1, <2>2, <2>4 DEF CarriesOrder, Outcomes
  <2>6. sess' = [sess EXCEPT ![s] = IF new # order THEN x ELSE Idle]
    BY <1>5 DEF RollUp, Become
  <2>7. exec' = exec /\ order' = order
    BY <1>5 DEF RollUp
  <2> HIDE DEF new, x
  <2>8. QED
    BY <1>c, <2>1, <2>3, <2>4, <2>5, <2>6, <2>7 DEF TypeOK
<1>6. CASE WriteOrder(s)
  <2>1. sess[s].order \in Outcomes
    BY <1>6, <1>c, <1>d DEF WriteOrder, CarriesOrder
  <2>2. QED
    BY <1>6, <1>c, <2>1 DEF WriteOrder, Become, TypeOK
<1>7. CASE Abandon(s)
  BY <1>7, <1>c DEF Abandon, InsertConflict, Become, TypeOK
<1>8. QED
  BY <1>2, <1>3, <1>4, <1>5, <1>6, <1>7

(* Where no session dies and nobody rejects an abort, once every WIP has   *)
(* ended and no session has its roll-up ahead, the order has rolled up.    *)
THEOREM OrderRollsUp ==
  ASSUME Mortal = {}, "reject_abort" \notin Requests
  PROVE  Spec => []RolledUp
<1>1. Init => OrderInv
  BY DEF Init, OrderInv, CarriesOrder, RolledUp, AllEnded, AllWipsIn, NoExec, EndedExec
<1>2. TypeOK /\ OrderInv /\ [Next]_vars => OrderInv'
  <2> SUFFICES ASSUME TypeOK, OrderInv, [Next]_vars PROVE OrderInv'
    OBVIOUS
  <2>1. ASSUME NEW w \in Wips, NEW action \in WipActions, WipAction(w, action)
        PROVE  OrderInv'
    BY <2>1 DEF WipAction, OrderInv, RolledUp, AllEnded, RollUpAhead
  <2>2. CASE UNCHANGED vars
    BY <2>2 DEF vars, OrderInv, RolledUp, AllEnded, RollUpAhead
  <2>3. QED
    BY <2>1, <2>2, StepCases, CommitOrder, MoveOrder
<1>3. OrderInv => RolledUp
  BY DEF OrderInv
<1>4. QED
  BY <1>1, <1>2, <1>3, TypeCorrect, PTL DEF Spec

-----------------------------------------------------------------------------
(* A running WIP is not forgotten.  The requests are served one at a time  *)
(* (one requester), the workers are the beat's own and do not die; the     *)
(* requests and any number of workers interleave.                          *)

InHand(s, w) == sess[s].phase \in {"selected", "reading", "loaded"} /\ sess[s].w = w

(* Only a worker ticks, and it does nothing else than tick and complete.   *)
WorkersWork ==
  \A s \in Sessions :
    sess[s] # Idle => IF s \in Workers THEN sess[s].op \in {"tick", "machine_completion"}
                                       ELSE sess[s].op # "tick"

(* What a request knows: nobody else sets a WIP running under its feet.    *)
KnowsRunning(s) ==
  sess[s].phase = "loaded" /\ sess[s].op # "dispatch" /\ exec[sess[s].w].status = "running" =>
    sess[s].exec.status = "running"

StallInv ==
  /\ WorkersWork
  /\ \A s \in Requesters : KnowsRunning(s)
  /\ \A w \in Wips : exec[w].status = "running" =>
                       exec[w].due \/ \E s \in Workers : InHand(s, w)

(* The workers' own commits never set a WIP running, and a request that    *)
(* takes a WIP off its machine writes that status.                         *)
LEMMA CommitStall ==
  ASSUME TypeOK, TraceInv, StallInv, NEW s \in Sessions, Commits(s),
         \A t, u \in Requesters : t = u, Requesters \cap Workers = {}
  PROVE  StallInv'
<1>1. sess[s].phase = "loaded" /\ sess[s] \in Session /\ sess[s] # Idle
  BY CommitEffect DEF Idle
<1>2. PICK nw \in WipRow, ne \in ExecRow, rearm \in BOOLEAN :
        Store(s, nw, ne, rearm) /\ Effect(s, nw, ne, rearm)
  BY CommitEffect
<1>3. PICK w \in Wips : Columns(s, w, nw, ne, rearm)
  BY <1>1, <1>2, StoredColumns
<1>c. /\ w = sess[s].w
      /\ \A v \in Wips \ {w} : exec'[v] = exec[v]
      /\ exec'[w].status = Dirty(exec[w].status, sess[s].exec.status, ne.status)
      /\ exec'[w].due = IF rearm THEN TRUE ELSE Dirty(exec[w].due, sess[s].exec.due, ne.due)
  BY <1>3 DEF Columns
<1>a. sess[s].op # "dispatch" => Accepts(sess[s].op, sess[s].exec)
  BY <1>1 DEF TraceInv, SoundCopy
<1>k. s \in Requesters /\ sess[s].op # "dispatch" /\ exec[w].status = "running" =>
        sess[s].exec.status = "running"
  BY <1>1, <1>c DEF StallInv, KnowsRunning
<1>o. IF s \in Workers THEN sess[s].op \in {"tick", "machine_completion"} ELSE sess[s].op # "tick"
  BY <1>1 DEF StallInv, WorkersWork
<1>n. /\ sess' = [sess EXCEPT ![s] = sess'[s]]
      /\ sess'[s] # Idle => \/ sess'[s].op = sess[s].op
                            \/ sess[s].op = "tick" /\ sess'[s].op = "machine_completion"
      /\ sess'[s].phase # "loaded"
      /\ sess'[s].phase \in {"selected", "reading"} => sess[s].op = "tick"
  <2>1. CASE Become(s, Idle)
    BY <2>1 DEF Become, Idle, TypeOK
  <2>2. CASE Ticks(s, nw, ne, rearm)
    <3>1. /\ Open("selected", "machine_completion", sess[s].w, BlankWip).op = "machine_completion"
          /\ Open("selected", "machine_completion", sess[s].w, BlankWip).phase = "selected"
      BY DEF Open
    <3>2. QED
      BY <2>1, <2>2, <3>1 DEF Ticks, Become, TypeOK
  <2>3. ASSUME NEW phase \in {"result_rollup", "confirm_rollup"}, NEW st, ThenRollUp(s, phase, st)
        PROVE  <1>n!1 /\ <1>n!2 /\ <1>n!3 /\ <1>n!4
    BY <2>3, RollUpCarries
  <2>4. QED
    BY <1>2, <2>1, <2>2, <2>3 DEF Effect, Touches, Runs, Leaves
<1>t. \A t \in Sessions : t # s => sess'[t] = sess[t]
  BY <1>n DEF TypeOK
(* The columns: whoever leaves the WIP running and not due holds it.       *)
<1>e. /\ exec'[w].status = "running" => exec[w].status = "running" \/ exec'[w].due
      /\ exec'[w].status = "running" => exec'[w].due \/ exec'[w].due = exec[w].due \/ InHand(s, w)'
      /\ exec'[w].status = "running" /\ s \in Workers =>
           exec[w].status = "running" /\ (exec'[w].due \/ InHand(s, w)')
  <2>1. CASE Touches(s, nw, ne, rearm)
    BY <2>1, <1>c, <1>o DEF Touches, Dirty
  <2>2. CASE Ticks(s, nw, ne, rearm)
    <3>1. exec'[w].status = exec[w].status
      BY <2>2, <1>c DEF Ticks, Dirty
    <3>2. ~rearm => sess'[s] = Open("selected", "machine_completion", w, BlankWip)
      BY <2>2, <1>c DEF Ticks, Become, TypeOK
    <3>3. ~rearm => InHand(s, w)'
      BY <3>2 DEF InHand, Open
    <3>4. QED
      BY <3>1, <3>3, <1>c
  <2>3. CASE Runs(s, nw, ne, rearm)
    BY <2>3, <1>c, <1>o DEF Runs
  <2>4. ASSUME NEW st \in {"unloaded", "waiting_confirm", "completed", "terminated"},
               Leaves(s, nw, ne, st)
        PROVE  exec'[w].status # "running"
    <3>1. s \in Workers => sess[s].exec.status \in {"running", "unloaded"} /\ st = "waiting_confirm"
      BY <2>4, <1>a, <1>o DEF Leaves, Accepts
    <3>2. sess[s].op # "dispatch" /\ ne.status = st
      BY <2>4 DEF Leaves
    <3>3. s \in Requesters \/ s \in Workers
      BY DEF Sessions
    <3>4. QED
      BY <3>1, <3>2, <3>3, <1>c, <1>k DEF Dirty
  <2>5. QED
    BY <1>2, <2>1, <2>2, <2>3, <2>4 DEF Effect
<1>4. WorkersWork'
  BY <1>n, <1>o, <1>t DEF WorkersWork, StallInv
<1>5. ASSUME NEW t \in Requesters
      PROVE  KnowsRunning(t)'
  <2>1. CASE t = s
    BY <2>1, <1>n DEF KnowsRunning
  <2>2. CASE t # s
    <3>1. s \in Workers /\ sess'[t] = sess[t]
      BY <2>2, <1>t DEF Sessions
    <3>2. KnowsRunning(t)
      BY DEF StallInv
    <3>3. sess[t].phase = "loaded" => sess[t].w \in Wips
      BY CopyTypes DEF Sessions
    <3>4. QED
      BY <3>1, <3>2, <3>3, <1>c, <1>e DEF KnowsRunning
  <2>3. QED
    BY <2>1, <2>2
<1>6. ASSUME NEW v \in Wips, exec'[v].status = "running", ~exec'[v].due
      PROVE  \E t \in Workers : InHand(t, v)'
  <2>1. CASE v = w /\ InHand(s, w)'
    <3>1. s \in Workers
      BY <1>n, <1>o, <2>1 DEF InHand
    <3>2. QED
      BY <2>1, <3>1
  <2>2. CASE ~(v = w /\ InHand(s, w)')
    <3>1. exec[v].status = "running" /\ ~exec[v].due
      BY <1>6, <2>2, <1>c, <1>e
    <3>2. PICK t \in Workers : InHand(t, v)
      BY <3>1 DEF StallInv
    <3>3. t # s
      BY <1>6, <2>2, <3>2, <1>c, <1>e DEF InHand
    <3>4. sess'[t] = sess[t]
      BY <3>3, <1>t DEF Sessions
    <3>5. InHand(t, v)'
      BY <3>2, <3>4 DEF InHand
    <3>6. QED
      BY <3>5
  <2>3. QED
    BY <2>1, <2>2
<1>7. QED
  BY <1>4, <1>5, <1>6 DEF StallInv

(* The other steps: a worker lets go of a WIP only if it does not run.     *)
LEMMA MoveStall ==
  ASSUME TypeOK, StallInv, NEW s \in Sessions,
         Requesters \cap Workers = {}, Mortal \cap Workers = {},
         \/ \E w \in Wips : SelectDue(s, w)
         \/ \E op \in Operations, w \in Wips : ReadWip(s, op, w)
         \/ ReadExec(s) \/ RollUp(s) \/ WriteOrder(s) \/ Abandon(s)
  PROVE  StallInv'
<1> DEFINE Duty(x) == x # Idle => IF s \in Workers THEN x.op \in {"tick", "machine_completion"}
                                                  ELSE x.op # "tick"
           Moves == /\ exec' = exec
                    /\ sess' = [sess EXCEPT ![s] = sess'[s]]
                    /\ Duty(sess'[s])
                    /\ KnowsRunning(s)'
                    /\ \A w \in Wips : s \in Workers /\ InHand(s, w) /\ exec[w].status = "running"
                                         => InHand(s, w)'
<1>1. Moves => StallInv'
  <2> SUFFICES ASSUME Moves PROVE StallInv'
    OBVIOUS
  <2>1. \A t \in Sessions : t # s => sess'[t] = sess[t]
    BY DEF TypeOK
  <2>2. WorkersWork'
    BY <2>1 DEF StallInv, WorkersWork
  <2>3. ASSUME NEW t \in Requesters
        PROVE  KnowsRunning(t)'
    BY <2>1 DEF StallInv, KnowsRunning, Sessions
  <2>4. ASSUME NEW w \in Wips, exec'[w].status = "running", ~exec'[w].due
        PROVE  \E t \in Workers : InHand(t, w)'
    <3>1. PICK t \in Workers : InHand(t, w)
      BY <2>4 DEF StallInv
    <3>2. t # s => InHand(t, w)'
      BY <2>1, <3>1 DEF InHand, Sessions
    <3>3. InHand(t, w)'
      BY <2>4, <3>1, <3>2
    <3>4. QED
      BY <3>3
  <2>5. QED
    BY <2>2, <2>3, <2>4 DEF StallInv
<1> SUFFICES Moves
  BY <1>1
<1>o. Duty(sess[s]) /\ Duty(Idle)
  BY DEF StallInv, WorkersWork
<1>i. Idle.phase = "idle"
  BY DEF Idle
<1>2. ASSUME NEW w \in Wips, SelectDue(s, w)
      PROVE  Moves
  <2>1. sess' = [sess EXCEPT ![s] = Open("selected", "tick", w, BlankWip)]
        /\ sess[s] = Idle /\ s \in Workers /\ exec' = exec
    BY <1>2 DEF SelectDue, Become
  <2>2. sess'[s].op = "tick" /\ sess'[s].phase = "selected"
    BY <2>1 DEF Open, TypeOK
  <2>3. QED
    BY <1>i, <2>1, <2>2 DEF KnowsRunning, InHand, TypeOK
<1>3. ASSUME NEW op \in Operations, NEW w \in Wips, ReadWip(s, op, w)
      PROVE  Moves
  <2> DEFINE x == Open(IF op = "dispatch" THEN "loaded" ELSE "reading", op, w, wip[w])
  <2>1. sess' = [sess EXCEPT ![s] = x] /\ sess'[s] = x /\ exec' = exec
    BY <1>3 DEF ReadWip, Become, TypeOK
  <2>2. x.op = op /\ x.w = w /\ x.phase \in {"loaded", "reading"} /\ (x.phase = "loaded" => op = "dispatch")
    BY DEF Open
  <2>3. CASE sess[s] = Idle /\ s \in Requesters /\ op \in Requests
    <3>1. op # "tick" /\ s \notin Workers
      BY <2>3, RequestsAssumption
    <3>2. Duty(x)
      BY <2>2, <3>1
    <3>3. KnowsRunning(s)'
      BY <2>1, <2>2 DEF KnowsRunning
    <3>4. QED
      BY <2>1, <3>1, <3>2, <3>3
  <2>4. CASE sess[s] = Open("selected", op, w, BlankWip)
    <3>1. sess[s].op = op /\ sess[s].w = w /\ sess[s] # Idle
      BY <2>4, <1>i DEF Open
    <3>2. Duty(x)
      BY <1>o, <2>2, <3>1
    <3>3. KnowsRunning(s)'
      BY <2>1, <2>2 DEF KnowsRunning
    <3>4. \A v \in Wips : InHand(s, v) => InHand(s, v)'
      BY <2>1, <2>2, <3>1 DEF InHand
    <3>5. QED
      BY <2>1, <3>2, <3>3, <3>4
  <2>5. QED
    BY <1>3, <2>3, <2>4 DEF ReadWip
<1>4. CASE ReadExec(s)
  <2>1. sess[s] \in Session /\ sess[s].phase = "reading" /\ sess[s] # Idle
    BY <1>4, WorkingSession DEF ReadExec, Phases, Idle
  <2> DEFINE x(o) == [sess[s] EXCEPT !.phase = "loaded", !.exec = exec[sess[s].w], !.order = o]
  <2>2. PICK o : sess' = [sess EXCEPT ![s] = IF Accepts(sess[s].op, exec[sess[s].w]) THEN x(o) ELSE Idle]
    BY <1>4 DEF ReadExec, Become
  <2>3. /\ x(o).op = sess[s].op /\ x(o).w = sess[s].w
        /\ x(o).phase = "loaded" /\ x(o).exec = exec[sess[s].w]
    BY <2>1 DEF Session
  <2>4. exec' = exec
    BY <1>4 DEF ReadExec
  <2> HIDE DEF x
  <2>5. CASE Accepts(sess[s].op, exec[sess[s].w])
    <3>1. sess' = [sess EXCEPT ![s] = x(o)] /\ sess'[s] = x(o)
      BY <2>2, <2>5 DEF TypeOK
    <3>2. Duty(x(o))
      BY <1>o, <2>1, <2>3
    <3>3. QED
      BY <2>3, <2>4, <3>1, <3>2 DEF KnowsRunning, InHand
  <2>6. CASE ~Accepts(sess[s].op, exec[sess[s].w])
    <3>1. sess' = [sess EXCEPT ![s] = Idle] /\ sess'[s] = Idle
      BY <2>2, <2>6 DEF TypeOK
    <3>2. s \in Workers => exec[sess[s].w].status # "running"
      BY <2>1, <2>6, <1>o DEF Accepts
    <3>3. QED
      BY <1>i, <1>o, <2>4, <3>1, <3>2 DEF KnowsRunning, InHand
  <2>7. QED
    BY <2>5, <2>6
<1>5. CASE RollUp(s)
  <2>1. sess[s] \in Session /\ sess[s].phase \in {"result_rollup", "confirm_rollup"} /\ sess[s] # Idle
    BY <1>5, WorkingSession DEF RollUp, Phases, Idle
  <2>2. PICK new : \/ sess' = [sess EXCEPT ![s] = [sess[s] EXCEPT !.phase = "write_order", !.order = new]]
                   \/ sess' = [sess EXCEPT ![s] = Idle]
    BY <1>5 DEF RollUp, Become
  <2> DEFINE x == [sess[s] EXCEPT !.phase = "write_order", !.order = new]
  <2>3. x.op = sess[s].op /\ x.phase = "write_order"
    BY <2>1 DEF Session
  <2>4. exec' = exec
    BY <1>5 DEF RollUp
  <2> HIDE DEF x
  <2>5. sess'[s] \in {x, Idle} /\ sess' = [sess EXCEPT ![s] = sess'[s]]
    BY <2>2 DEF TypeOK, x
  <2>6. QED
    BY <1>i, <1>o, <2>1, <2>3, <2>4, <2>5 DEF KnowsRunning, InHand
<1>6. CASE WriteOrder(s)
  BY <1>6, <1>i, <1>o DEF WriteOrder, Become, KnowsRunning, InHand, TypeOK
<1>7. CASE Abandon(s)
  <2>1. s \notin Workers
    BY <1>7, <1>o DEF Abandon, InsertConflict, Inserts
  <2>2. QED
    BY <1>7, <1>i, <1>o, <2>1 DEF Abandon, Become, KnowsRunning, TypeOK
<1>8. QED
  BY <1>2, <1>3, <1>4, <1>5, <1>6, <1>7

(* With requests served one at a time and a beat whose workers do not die, *)
(* a running WIP is due for its next tick or a worker has it in hand,      *)
(* however the requests and the workers interleave.                        *)
THEOREM RunningIsNotForgotten ==
  ASSUME \A t, u \in Requesters : t = u, Requesters \cap Workers = {}, Mortal \cap Workers = {}
  PROVE  Spec => []NeverStalled
<1>1. Init => StallInv
  BY DEF Init, StallInv, WorkersWork, KnowsRunning, NoExec, Idle, Sessions
<1>2. TypeOK /\ TraceInv /\ StallInv /\ [Next]_vars => StallInv'
  <2> SUFFICES ASSUME TypeOK, TraceInv, StallInv, [Next]_vars PROVE StallInv'
    OBVIOUS
  <2>1. ASSUME exec' = exec, sess' = sess
        PROVE  StallInv'
    BY <2>1 DEF StallInv, WorkersWork, KnowsRunning, InHand
  <2>2. ASSUME NEW w \in Wips, NEW action \in WipActions, WipAction(w, action)
        PROVE  StallInv'
    BY <2>1, <2>2 DEF WipAction
  <2>3. CASE UNCHANGED vars
    BY <2>1, <2>3 DEF vars
  <2>4. QED
    BY <2>2, <2>3, StepCases, CommitStall, MoveStall
<1>3. StallInv => NeverStalled
  <2> SUFFICES ASSUME StallInv, NEW w \in Wips, exec[w].status = "running", ~exec[w].due
               PROVE  \E s \in Workers : sess[s] # Idle /\ sess[s].w = w
    BY DEF NeverStalled
  <2>1. PICK s \in Workers : InHand(s, w)
    BY DEF StallInv
  <2>2. sess[s] # Idle /\ sess[s].w = w
    BY <2>1 DEF InHand, Idle
  <2>3. QED
    BY <2>2
<1>4. QED
  BY <1>1, <1>2, <1>3, TypeCorrect, TraceInvariant, PTL DEF Spec

-----------------------------------------------------------------------------
(* The two status columns.  One session whose copies are still the stored  *)
(* rows writes both columns in one commit, and B's own actions are the     *)
(* only other writers of wips.status.                                      *)

(* The session's copy of the WIP row is the stored row, and a dispatch has *)
(* found it on the chain.                                                  *)
FreshWip(s) ==
  /\ sess[s].phase \in {"reading", "loaded"} => sess[s].wip = wip[sess[s].w]
  /\ sess[s].phase = "loaded" /\ sess[s].op = "dispatch" => sess[s].wip.status \in Chain

BridgeInv ==
  /\ StatusBridge
  /\ \A s \in Sessions : FreshWip(s)

(* What a commit of fresh copies stores keeps the columns together.        *)
LEMMA CommitBridge ==
  ASSUME TypeOK, FreshInv, BridgeInv, NEW s \in Sessions, Commits(s)
  PROVE  StatusBridge'
<1>1. sess[s].phase = "loaded" /\ sess[s] \in Session
  BY CommitEffect
<1>2. PICK nw \in WipRow, ne \in ExecRow, rearm \in BOOLEAN :
        Store(s, nw, ne, rearm) /\ Effect(s, nw, ne, rearm)
  BY CommitEffect
<1>3. PICK w \in Wips : Columns(s, w, nw, ne, rearm)
  BY <1>1, <1>2, StoredColumns
<1>c. /\ w = sess[s].w
      /\ \A v \in Wips \ {w} : exec'[v] = exec[v] /\ wip'[v] = wip[v]
      /\ wip'[w].status = Dirty(wip[w].status, sess[s].wip.status, nw.status)
      /\ exec'[w].status = Dirty(exec[w].status, sess[s].exec.status, ne.status)
  BY <1>3 DEF Columns
<1>w. wip'[w].status = nw.status
  BY <1>1, <1>c DEF BridgeInv, FreshWip, Dirty
<1>e. IF sess[s].op = "dispatch" THEN ne = sess[s].exec => exec'[w].status = exec[w].status
      ELSE sess[s].exec = exec[w] /\ exec'[w].status = ne.status
  BY <1>1, <1>c DEF FreshInv, FreshCopy, Dirty
<1>b. IF exec[w].status \in {"absent", "waiting_load"} THEN wip[w].status \in Chain
      ELSE wip[w].status = ExecToB(exec[w].status)
  BY DEF BridgeInv, StatusBridge
<1>x. wip[w].status \in Chain => exec[w].status \in {"absent", "waiting_load"}
  <2>1. exec[w].status \in ExecStatuses \cup {"absent"}
    BY DEF TypeOK, ExecRow
  <2>2. ASSUME NEW st \in ExecStatuses \ {"waiting_load"}
        PROVE  ExecToB(st) \notin Chain
    BY DEF ExecStatuses, ResultReadyExec, EndedExec, ExecToB, Chain, Rank
  <2>3. QED
    BY <2>1, <2>2, <1>b
<1>f. sess[s].wip = wip[w] /\ (sess[s].op = "dispatch" => sess[s].wip.status \in Chain)
  BY <1>1, <1>c DEF BridgeInv, FreshWip
<1>4. IF exec'[w].status \in {"absent", "waiting_load"} THEN wip'[w].status \in Chain
      ELSE wip'[w].status = ExecToB(exec'[w].status)
  <2>1. CASE Touches(s, nw, ne, rearm)
    <3>1. CASE sess[s].op = "dispatch"
      BY <2>1, <3>1, <1>w, <1>e, <1>f, <1>x DEF Touches
    <3>2. CASE sess[s].op # "dispatch"
      <4>1. nw.status = wip[w].status /\ exec'[w].status = ne.status /\ sess[s].exec = exec[w]
        BY <2>1, <3>2, <1>e, <1>f DEF Touches
      <4>2. \/ ne.status = exec[w].status
            \/ exec[w].status = "absent" /\ ne.status = "waiting_load"
        BY <2>1, <4>1 DEF Touches
      <4>3. QED
        BY <4>1, <4>2, <1>w, <1>b
    <3>3. QED
      BY <3>1, <3>2
  <2>2. CASE Ticks(s, nw, ne, rearm)
    BY <2>2, <1>w, <1>e, <1>f, <1>b DEF Ticks
  <2>3. CASE Runs(s, nw, ne, rearm)
    BY <2>3, <1>w, <1>e DEF Runs, ExecToB
  <2>4. ASSUME NEW st \in {"unloaded", "waiting_confirm", "completed", "terminated"},
               Leaves(s, nw, ne, st)
        PROVE  <1>4
    BY <2>4, <1>w, <1>e DEF Leaves
  <2>5. QED
    BY <1>2, <2>1, <2>2, <2>3, <2>4 DEF Effect
<1>5. QED
  BY <1>c, <1>4 DEF StatusBridge, BridgeInv

(* With one session and no actions of B, its copy of the WIP row is fresh. *)
LEMMA WipStaysFresh ==
  ASSUME TypeOK, BridgeInv, [Next]_vars, NEW s \in Sessions, Sessions = {s}, WipActions = {}
  PROVE  FreshWip(s)'
<1>i. Idle.phase = "idle"
  BY DEF Idle
<1>1. CASE Commits(s)
  <2>1. \E x \in Session \cup {Idle} : sess' = [sess EXCEPT ![s] = x] /\ x.phase \notin {"loaded", "write_order"}
    BY <1>1, CommitStep DEF Committed
  <2>2. sess'[s].phase # "reading"
    <3>1. PICK nw \in WipRow, ne \in ExecRow, rearm \in BOOLEAN : Effect(s, nw, ne, rearm)
      BY <1>1, CommitEffect
    <3>2. CASE Become(s, Idle)
      BY <3>2, <1>i DEF Become, TypeOK
    <3>3. CASE Ticks(s, nw, ne, rearm)
      BY <3>2, <3>3 DEF Ticks, Become, Open, TypeOK
    <3>4. ASSUME NEW phase \in {"result_rollup", "confirm_rollup"}, NEW st, ThenRollUp(s, phase, st)
          PROVE  sess'[s].phase # "reading"
      BY <3>4, RollUpCarries
    <3>5. QED
      BY <3>1, <3>2, <3>3, <3>4 DEF Effect, Touches, Runs, Leaves
  <2>3. sess'[s].phase # "loaded"
    BY <2>1 DEF TypeOK
  <2>4. QED
    BY <2>2, <2>3 DEF FreshWip
<1>2. ASSUME NEW w \in Wips, SelectDue(s, w)
      PROVE  FreshWip(s)'
  BY <1>2 DEF SelectDue, Become, Open, FreshWip, TypeOK
<1>3. ASSUME NEW op \in Operations, NEW w \in Wips, ReadWip(s, op, w)
      PROVE  FreshWip(s)'
  <2> DEFINE x == Open(IF op = "dispatch" THEN "loaded" ELSE "reading", op, w, wip[w])
  <2>1. sess'[s] = x /\ wip' = wip /\ (op = "dispatch" => wip[w].status \in Chain)
    BY <1>3 DEF ReadWip, Become, TypeOK
  <2>2. x.wip = wip[w] /\ x.w = w /\ x.op = op
    BY DEF Open
  <2>3. QED
    BY <2>1, <2>2 DEF FreshWip
<1>4. CASE ReadExec(s)
  <2>1. sess[s] \in Session /\ sess[s].phase = "reading"
    BY <1>4, WorkingSession DEF ReadExec, Phases
  <2> DEFINE x(o) == [sess[s] EXCEPT !.phase = "loaded", !.exec = exec[sess[s].w], !.order = o]
  <2>2. PICK o : sess' = [sess EXCEPT ![s] = IF Accepts(sess[s].op, exec[sess[s].w]) THEN x(o) ELSE Idle]
    BY <1>4 DEF ReadExec, Become
  <2>3. x(o).op = sess[s].op /\ x(o).w = sess[s].w /\ x(o).wip = sess[s].wip
    BY <2>1 DEF Session
  <2>4. wip' = wip /\ sess[s].wip = wip[sess[s].w]
    BY <1>4, <2>1 DEF ReadExec, BridgeInv, FreshWip
  <2> HIDE DEF x
  <2>5. sess'[s] \in {x(o), Idle} /\ (sess'[s] = x(o) => sess'[s] = Idle \/ Accepts(sess[s].op, exec[sess[s].w]))
    BY <2>2 DEF TypeOK
  <2>6. Accepts(sess[s].op, exec[sess[s].w]) => sess[s].op # "dispatch"
    BY DEF Accepts
  <2>7. QED
    BY <1>i, <2>3, <2>4, <2>5, <2>6 DEF FreshWip
<1>5. CASE RollUp(s) \/ WriteOrder(s) \/ Abandon(s)
  <2>1. sess'[s] = Idle \/ sess'[s].phase = "write_order"
    <3>1. CASE RollUp(s)
      <4>1. sess[s] \in Session
        BY <3>1, WorkingSession DEF RollUp, Phases
      <4>2. ASSUME NEW o
            PROVE  [sess[s] EXCEPT !.phase = "write_order", !.order = o].phase = "write_order"
        BY <4>1 DEF Session
      <4>3. QED
        BY <3>1, <4>2 DEF RollUp, Become, TypeOK
    <3>2. CASE WriteOrder(s) \/ Abandon(s)
      BY <3>2 DEF WriteOrder, Abandon, Become, TypeOK
    <3>3. QED
      BY <1>5, <3>1, <3>2
  <2>2. QED
    BY <1>i, <2>1 DEF FreshWip
<1>6. CASE UNCHANGED vars
  BY <1>6 DEF vars, FreshWip, BridgeInv
<1>7. QED
  BY <1>1, <1>2, <1>3, <1>4, <1>5, <1>6, StepCases

(* With one session, which serves requests and ticks one after the other,  *)
(* and no action of B, the two status columns agree.                       *)
THEOREM StatusesAgree ==
  ASSUME NEW s0, Sessions = {s0}, WipActions = {}
  PROVE  Spec => []StatusBridge
<1>1. Init => BridgeInv
  BY DEF Init, BridgeInv, StatusBridge, FreshWip, BlankWip, NoExec, Idle, Chain, Rank
<1>2. TypeOK /\ FreshInv /\ BridgeInv /\ [Next]_vars => BridgeInv'
  <2> SUFFICES ASSUME TypeOK, FreshInv, BridgeInv, [Next]_vars PROVE BridgeInv'
    OBVIOUS
  <2>1. \A s \in Sessions : FreshWip(s)'
    BY WipStaysFresh
  <2>2. (\E s \in Sessions : Commits(s)) \/ UNCHANGED <<wip, exec>>
    BY StepCases DEF vars, SelectDue, ReadWip, ReadExec, RollUp, WriteOrder, Abandon
  <2>3. CASE UNCHANGED <<wip, exec>>
    BY <2>1, <2>3 DEF BridgeInv, StatusBridge
  <2>4. QED
    BY <2>1, <2>2, <2>3, CommitBridge DEF BridgeInv
<1>3. BridgeInv => StatusBridge
  BY DEF BridgeInv
<1>4. QED
  BY <1>1, <1>2, <1>3, TypeCorrect, FreshInvariant, PTL DEF Spec

=============================================================================
