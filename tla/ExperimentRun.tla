---------------------------- MODULE ExperimentRun ----------------------------
(***************************************************************************)
(* The experiment-run service (backend/app/modules/experiment_runs) and    *)
(* its Celery worker (backend/app/workers/experiment_tasks.py), run by     *)
(* database sessions that interleave.                                      *)
(*                                                                         *)
(* A handler reads the WIP's row in `wips`, then its row in                *)
(* `wip_execution`, checks its guard on these copies and commits.  No      *)
(* statement takes a row lock, the isolation level is READ COMMITTED, and  *)
(* a commit updates only the columns whose value differs from the copy     *)
(* (core/database.py: expire_on_commit=False, autoflush=False).  Hence the *)
(* three steps ReadWip, ReadExec and the handler's own action, between     *)
(* which any other session may commit.                                     *)
(***************************************************************************)
EXTENDS Naturals, OrderRollup

CONSTANTS
  Wips,          \* the WIPs of one order
  Requesters,    \* sessions that serve HTTP requests
  Workers,       \* sessions of the Celery worker
  Mortal,        \* sessions that may end before they commit
  Requests,      \* the operations the requesters invoke
  WipActions,    \* the actions invoked on B's POST /wips/{id}/actions
  FullProgress,  \* progress of a finished run (100 in the code)
  ProgressStep   \* progress added by one tick (10 in the code)

Sessions == Requesters \cup Workers

Operations == {"dispatch", "check_in", "check_out", "update_progress", "upload_result",
               "verify_data", "confirm_result", "request_abort", "approve_abort",
               "reject_abort", "machine_completion", "tick"}

(* A tick is no request: only the worker's beat schedule starts one.       *)
ASSUME RequestsAssumption == Requests \subseteq Operations \ {"tick"}

(* B's WIP actions and the wips.status each one writes.                    *)
ActionStatus == [send_to_schedule |-> "waiting_schedule", mark_scheduled |-> "scheduled",
                 mark_dispatched |-> "dispatched", start |-> "running", pause |-> "paused",
                 resume |-> "running", complete |-> "completed", terminate |-> "terminated"]

ASSUME WipActionsAssumption == WipActions \subseteq DOMAIN ActionStatus

ASSUME ProgressAssumption == /\ FullProgress \in Nat
                             /\ ProgressStep \in Nat \ {0}

VARIABLES
  wip,    \* rows of `wips`: status and progress of each WIP
  exec,   \* rows of `wip_execution`, "absent" before the first ensure_exec
  order,  \* status of the order the WIPs belong to
  sess    \* the sessions: what each has read and what it does next

vars == <<wip, exec, order, sess>>

-----------------------------------------------------------------------------
(* Rows.                                                                   *)

(* The dispatch chain of wips.status, in order.                            *)
Rank == [created |-> 1, waiting_schedule |-> 2, scheduled |-> 3, dispatched |-> 4]
Chain == DOMAIN Rank

WipStatuses == {"created", "waiting_schedule", "scheduled", "dispatched",
                "running", "paused", "completed", "terminated"}

OrderStatuses == {"sample_received", "scheduled", "in_progress", "waiting_result_confirm",
                  "completed", "terminated"}

Progress == 0..FullProgress
Notes    == {"null", "empty", "text"}
Aborts   == {"none", "pending", "terminated", "rejected"}

WipRow  == [status : WipStatuses, progress : Progress]
ExecRow == [status : ExecStatuses \cup {"absent"}, verified : BOOLEAN, note : Notes,
            abort : Aborts, due : BOOLEAN]

NoExec == [status |-> "absent", verified |-> FALSE, note |-> "null", abort |-> "none",
           due |-> FALSE]

(* A WIP as _split_sample leaves it: created and sent to the schedule.     *)
BlankWip == [status |-> "waiting_schedule", progress |-> 0]

(* WIP_EXEC_TO_B: the coarse wips.status of an execution status.           *)
ExecToB(st) ==
  IF st = "waiting_load" THEN "dispatched"
  ELSE IF st \in {"running", "unloaded", "waiting_confirm"} THEN "running"
  ELSE st

(* ensure_exec: the row a handler works on when none is stored.            *)
Ensured(e) == IF e.status = "absent" THEN [e EXCEPT !.status = "waiting_load"] ELSE e

(* What a commit stores in a column: the session's value if the session    *)
(* changed it, the stored value otherwise.                                 *)
Dirty(stored, copy, new) == IF new # copy THEN new ELSE stored

MergeWip(stored, copy, new) ==
  [status   |-> Dirty(stored.status, copy.status, new.status),
   progress |-> Dirty(stored.progress, copy.progress, new.progress)]

(* `due` abstracts next_progress_at to "not NULL".  Rearming it stores a   *)
(* new timestamp, which always differs from the copy.                      *)
MergeExec(stored, copy, new, rearm) ==
  [status   |-> Dirty(stored.status, copy.status, new.status),
   verified |-> Dirty(stored.verified, copy.verified, new.verified),
   note     |-> Dirty(stored.note, copy.note, new.note),
   abort    |-> Dirty(stored.abort, copy.abort, new.abort),
   due      |-> IF rearm THEN TRUE ELSE Dirty(stored.due, copy.due, new.due)]

-----------------------------------------------------------------------------
(* Sessions.                                                               *)

Phases == {"selected", "reading", "loaded", "result_rollup", "confirm_rollup", "write_order"}

Session == [phase : Phases, op : Operations, w : Wips, wip : WipRow, exec : ExecRow,
            order : OrderStatuses \cup {"unread"}]
Idle    == [phase |-> "idle"]

Open(phase, op, w, wrow) ==
  [phase |-> phase, op |-> op, w |-> w, wip |-> wrow, exec |-> NoExec, order |-> "unread"]

Become(s, r) == sess' = [sess EXCEPT ![s] = r]

Loaded(s, op) == sess[s].phase = "loaded" /\ sess[s].op = op

(* Mutant of Accepts: confirm_result forgets to look at data_verified.     *)
AcceptsUnverified(op, e) ==
  \/ op = "tick"
  \/ op = "check_in" /\ Ensured(e).status = "waiting_load"
  \/ op \in {"check_out", "update_progress"} /\ e.status = "running"
  \/ op \in {"upload_result", "machine_completion"} /\ e.status \in {"running", "unloaded"}
  \/ op \in {"verify_data", "confirm_result"} /\ e.status = "waiting_confirm"
  \/ op = "request_abort" /\ Ensured(e).status \notin EndedExec /\ e.abort # "pending"
  \/ op \in {"approve_abort", "reject_abort"} /\ e.abort = "pending"

(* The guard of an operation on its copy of the execution row.             *)
Accepts(op, e) ==
  \/ op = "tick"
  \/ op = "check_in" /\ Ensured(e).status = "waiting_load"
  \/ op \in {"check_out", "update_progress"} /\ e.status = "running"
  \/ op \in {"upload_result", "machine_completion"} /\ e.status \in {"running", "unloaded"}
  \/ op = "verify_data" /\ e.status = "waiting_confirm" /\ ~e.verified
  \/ op = "confirm_result" /\ e.status = "waiting_confirm" /\ e.verified
  \/ op = "request_abort" /\ Ensured(e).status \notin EndedExec /\ e.abort # "pending"
  \/ op \in {"approve_abort", "reject_abort"} /\ e.abort = "pending"

(* The operations that also read the order before they commit.             *)
ReadsOrder == {"check_in", "reject_abort"}

(* tick_progress selects a running WIP whose next progress is due.         *)
SelectDue(s, w) ==
  /\ s \in Workers
  /\ sess[s] = Idle
  /\ exec[w].status = "running"
  /\ exec[w].due
  /\ Become(s, Open("selected", "tick", w, BlankWip))
  /\ UNCHANGED <<wip, exec, order>>

(* A session reads the WIP row: a request it just received, or the worker  *)
(* for the WIP it selected.  Check-in and dispatch refuse on this row.     *)
ReadWip(s, op, w) ==
  /\ \/ sess[s] = Idle /\ s \in Requesters /\ op \in Requests
     \/ sess[s] = Open("selected", op, w, BlankWip)
  /\ op = "check_in" => wip[w].status = "dispatched"
  /\ op = "dispatch" => wip[w].status \in Chain \ {"dispatched"}
  /\ Become(s, Open(IF op = "dispatch" THEN "loaded" ELSE "reading", op, w, wip[w]))
  /\ UNCHANGED <<wip, exec, order>>

(* The session reads the execution row; the request ends if its guard      *)
(* refuses this row.                                                       *)
ReadExec(s) ==
  /\ sess[s].phase = "reading"
  /\ LET e == exec[sess[s].w]
         o == IF sess[s].op \in ReadsOrder THEN order ELSE "unread"
     IN Become(s, IF Accepts(sess[s].op, e)
                  THEN [sess[s] EXCEPT !.phase = "loaded", !.exec = e, !.order = o]
                  ELSE Idle)
  /\ UNCHANGED <<wip, exec, order>>

(* The session would insert an execution row that another session inserted *)
(* meanwhile: the primary key refuses it.                                  *)
Inserts == {"check_in", "request_abort"}
InsertConflict(s) ==
  /\ sess[s].phase = "loaded"
  /\ sess[s].op \in Inserts
  /\ sess[s].exec.status = "absent"
  /\ exec[sess[s].w].status # "absent"

(* Commit new rows.                                                        *)
Store(s, newWip, newExec, rearm) ==
  LET w    == sess[s].w
      copy == sess[s].exec
  IN /\ ~InsertConflict(s)
     /\ wip'  = [wip  EXCEPT ![w] = MergeWip(@, sess[s].wip, newWip)]
     /\ exec' = [exec EXCEPT ![w] = MergeExec(@, copy, newExec, rearm)]

StoreOrder(s, newOrder) == order' = Dirty(order, sess[s].order, newOrder)

(* What is left of a session that goes on to roll up the order: the        *)
(* status of its own WIP, which later queries do not refresh.              *)
ThenRollUp(s, phase, st) ==
  Become(s, [Open(phase, sess[s].op, sess[s].w, BlankWip) EXCEPT !.exec = [NoExec EXCEPT !.status = st]])

(* _set_status on the copies.                                              *)
WithStatus(s, st)  == [sess[s].wip EXCEPT !.status = ExecToB(st)]
WithExec(s, st)    == [Ensured(sess[s].exec) EXCEPT !.status = st]

-----------------------------------------------------------------------------
(* Module C: a dispatch moves its WIP forward along the chain.             *)
SyncWipStatus(s) ==
  /\ Loaded(s, "dispatch")
  /\ \E target \in Chain :
       /\ Rank[sess[s].wip.status] < Rank[target]
       /\ Store(s, [sess[s].wip EXCEPT !.status = target], sess[s].exec, FALSE)
  /\ Become(s, Idle)
  /\ UNCHANGED order

(* Module B: an action on a WIP is one UPDATE of wips, without any guard   *)
(* on the current status.                                                  *)
WipAction(w, action) ==
  /\ wip' = [wip EXCEPT ![w].status   = ActionStatus[action],
                        ![w].progress = IF action = "complete" THEN FullProgress ELSE @]
  /\ UNCHANGED <<exec, order, sess>>

CheckIn(s) ==
  /\ Loaded(s, "check_in")
  /\ Store(s, WithStatus(s, "running"), [WithExec(s, "running") EXCEPT !.due = TRUE], TRUE)
  /\ StoreOrder(s, IF sess[s].order = "scheduled" THEN "in_progress" ELSE sess[s].order)
  /\ Become(s, Idle)

CheckOut(s) ==
  /\ Loaded(s, "check_out")
  /\ Store(s, WithStatus(s, "unloaded"), [WithExec(s, "unloaded") EXCEPT !.due = FALSE], FALSE)
  /\ Become(s, Idle)
  /\ UNCHANGED order

UpdateProgress(s) ==
  /\ Loaded(s, "update_progress")
  /\ \E p \in Progress : Store(s, [sess[s].wip EXCEPT !.progress = p], sess[s].exec, FALSE)
  /\ Become(s, Idle)
  /\ UNCHANGED order

(* The note may be the empty string, and the caller says whether the data  *)
(* is already verified.                                                    *)
UploadResult(s) ==
  /\ Loaded(s, "upload_result")
  /\ \E note \in {"empty", "text"}, ok \in BOOLEAN :
       Store(s, [WithStatus(s, "waiting_confirm") EXCEPT !.progress = FullProgress],
                [WithExec(s, "waiting_confirm") EXCEPT !.note = note, !.verified = ok, !.due = FALSE],
                FALSE)
  /\ ThenRollUp(s, "result_rollup", "waiting_confirm")
  /\ UNCHANGED order

VerifyData(s) ==
  /\ Loaded(s, "verify_data")
  /\ Store(s, sess[s].wip, [sess[s].exec EXCEPT !.verified = TRUE], FALSE)
  /\ Become(s, Idle)
  /\ UNCHANGED order

ConfirmResult(s) ==
  /\ Loaded(s, "confirm_result")
  /\ Store(s, WithStatus(s, "completed"), WithExec(s, "completed"), FALSE)
  /\ ThenRollUp(s, "confirm_rollup", "completed")
  /\ UNCHANGED order

RequestAbort(s) ==
  /\ Loaded(s, "request_abort")
  /\ Store(s, sess[s].wip, [Ensured(sess[s].exec) EXCEPT !.abort = "pending"], FALSE)
  /\ Become(s, Idle)
  /\ UNCHANGED order

(* Mutant of ApproveAbort: the decision clears the request.                *)
ApproveClearsRequest(s) ==
  /\ Loaded(s, "approve_abort")
  /\ Store(s, WithStatus(s, "terminated"),
              [WithExec(s, "terminated") EXCEPT !.abort = "none", !.due = FALSE], FALSE)
  /\ ThenRollUp(s, "confirm_rollup", "terminated")
  /\ UNCHANGED order

(* review_abort with approve: terminated, whatever the WIP's status.       *)
ApproveAbort(s) ==
  /\ Loaded(s, "approve_abort")
  /\ Store(s, WithStatus(s, "terminated"),
              [WithExec(s, "terminated") EXCEPT !.abort = "terminated", !.due = FALSE], FALSE)
  /\ ThenRollUp(s, "confirm_rollup", "terminated")
  /\ UNCHANGED order

(* Mutants of RejectAbort: it writes the execution status only, it clears  *)
(* the request, or it does not rearm the progress.                         *)
RejectOneColumn(s) ==
  /\ Loaded(s, "reject_abort")
  /\ Store(s, sess[s].wip,
              [WithExec(s, "running") EXCEPT !.abort = "rejected", !.due = TRUE], TRUE)
  /\ StoreOrder(s, "in_progress")
  /\ Become(s, Idle)

RejectClearsRequest(s) ==
  /\ Loaded(s, "reject_abort")
  /\ Store(s, WithStatus(s, "running"),
              [WithExec(s, "running") EXCEPT !.abort = "none", !.due = TRUE], TRUE)
  /\ StoreOrder(s, "in_progress")
  /\ Become(s, Idle)

RejectWithoutRearm(s) ==
  /\ Loaded(s, "reject_abort")
  /\ Store(s, WithStatus(s, "running"),
              [WithExec(s, "running") EXCEPT !.abort = "rejected"], FALSE)
  /\ StoreOrder(s, "in_progress")
  /\ Become(s, Idle)

(* review_abort without approve: running again, whatever the WIP's status, *)
(* and the order is in progress again in the same transaction.             *)
RejectAbort(s) ==
  /\ Loaded(s, "reject_abort")
  /\ Store(s, WithStatus(s, "running"),
              [WithExec(s, "running") EXCEPT !.abort = "rejected", !.due = TRUE], TRUE)
  /\ StoreOrder(s, "in_progress")
  /\ Become(s, Idle)

(* Mutant of MachineCompletion: a missing note is not filled.              *)
CompletionWithoutNote(s) ==
  /\ Loaded(s, "machine_completion")
  /\ Store(s, [WithStatus(s, "waiting_confirm") EXCEPT !.progress = FullProgress],
              [WithExec(s, "waiting_confirm") EXCEPT !.verified = FALSE, !.due = FALSE], FALSE)
  /\ ThenRollUp(s, "result_rollup", "waiting_confirm")
  /\ UNCHANGED order

(* apply_machine_completion: never verified, and an empty note is filled.  *)
MachineCompletion(s) ==
  /\ Loaded(s, "machine_completion")
  /\ Store(s, [WithStatus(s, "waiting_confirm") EXCEPT !.progress = FullProgress],
              [WithExec(s, "waiting_confirm") EXCEPT !.verified = FALSE, !.note = "text", !.due = FALSE],
              FALSE)
  /\ ThenRollUp(s, "result_rollup", "waiting_confirm")
  /\ UNCHANGED order

(* Mutants of Tick: the progress is not capped, or not increased.          *)
TickUncapped(s) ==
  /\ Loaded(s, "tick")
  /\ LET sum  == sess[s].wip.progress + ProgressStep
         full == sum >= FullProgress
     IN /\ Store(s, [sess[s].wip EXCEPT !.progress = sum],
                    [sess[s].exec EXCEPT !.due = ~full], ~full)
        /\ Become(s, IF full THEN Open("selected", "machine_completion", sess[s].w, BlankWip)
                     ELSE Idle)
  /\ UNCHANGED order

TickWithoutStep(s) ==
  /\ Loaded(s, "tick")
  /\ LET full == sess[s].wip.progress >= FullProgress
     IN /\ Store(s, sess[s].wip, [sess[s].exec EXCEPT !.due = ~full], ~full)
        /\ Become(s, IF full THEN Open("selected", "machine_completion", sess[s].w, BlankWip)
                     ELSE Idle)
  /\ UNCHANGED order

(* tick_progress: one step of progress; at full progress the WIP is no     *)
(* longer due and the worker goes on to complete it in a new session.      *)
Tick(s) ==
  /\ Loaded(s, "tick")
  /\ LET sum  == sess[s].wip.progress + ProgressStep
         full == sum >= FullProgress
     IN /\ Store(s, [sess[s].wip EXCEPT !.progress = IF full THEN FullProgress ELSE sum],
                    [sess[s].exec EXCEPT !.due = ~full], ~full)
        /\ Become(s, IF full THEN Open("selected", "machine_completion", sess[s].w, BlankWip)
                     ELSE Idle)
  /\ UNCHANGED order

-----------------------------------------------------------------------------
(* The roll-up of the order is a second transaction of the handler.        *)

SeenBy(s) == [w \in Wips |-> IF w = sess[s].w THEN sess[s].exec.status ELSE exec[w].status]

RollUp(s) ==
  /\ sess[s].phase \in {"result_rollup", "confirm_rollup"}
  /\ LET new == IF sess[s].phase = "result_rollup" THEN AfterResult(order, SeenBy(s))
                ELSE AfterConfirm(order, SeenBy(s))
     IN Become(s, IF new # order THEN [sess[s] EXCEPT !.phase = "write_order", !.order = new]
                  ELSE Idle)
  /\ UNCHANGED <<wip, exec, order>>

WriteOrder(s) ==
  /\ sess[s].phase = "write_order"
  /\ order' = sess[s].order
  /\ Become(s, Idle)
  /\ UNCHANGED <<wip, exec>>

(* A session ends where it stands: the database refuses its insert, or, if *)
(* it is mortal, the client is gone or the worker process dies.  What it   *)
(* committed stays, the rest of its handler never runs, and nothing        *)
(* retries it.                                                             *)
Abandon(s) ==
  /\ s \in Mortal \/ InsertConflict(s)
  /\ sess[s] # Idle
  /\ Become(s, Idle)
  /\ UNCHANGED <<wip, exec, order>>

-----------------------------------------------------------------------------
Init ==
  /\ wip   = [w \in Wips |-> BlankWip]
  /\ exec  = [w \in Wips |-> NoExec]
  /\ order = "sample_received"
  /\ sess  = [s \in Sessions |-> Idle]

Read(s) ==
  \/ \E w \in Wips : SelectDue(s, w)
  \/ \E op \in Operations, w \in Wips : ReadWip(s, op, w)
  \/ ReadExec(s)

Handle(s) ==
  \/ SyncWipStatus(s)
  \/ CheckIn(s)
  \/ CheckOut(s)
  \/ UpdateProgress(s)
  \/ UploadResult(s)
  \/ VerifyData(s)
  \/ ConfirmResult(s)
  \/ RequestAbort(s)
  \/ ApproveAbort(s)
  \/ RejectAbort(s)
  \/ MachineCompletion(s)
  \/ Tick(s)
  \/ RollUp(s)
  \/ WriteOrder(s)

Next ==
  \/ \E s \in Sessions : Read(s) \/ Handle(s) \/ Abandon(s)
  \/ \E w \in Wips, action \in WipActions : WipAction(w, action)

Spec == Init /\ [][Next]_vars

(* Celery's beat fires tick_progress every two seconds and a worker runs   *)
(* the task it took; nobody makes a person act.                            *)
WorkerFairness == \A s \in Workers : WF_vars(Read(s) \/ Handle(s))

FairSpec == Spec /\ WorkerFairness

-----------------------------------------------------------------------------
(* Properties.                                                             *)

(* Every row and every session holds values of its columns' types.         *)
TypeOK ==
  /\ wip \in [Wips -> WipRow]
  /\ exec \in [Wips -> ExecRow]
  /\ order \in OrderStatuses
  /\ sess \in [Sessions -> Session \cup {Idle}]
  /\ \A s \in Sessions : sess[s].phase = "write_order" => sess[s].order \in OrderStatuses

(* However sessions interleave, a result that waits for confirmation or is *)
(* confirmed has a stored note: no commit of another handler erases it.    *)
ResultRecorded ==
  \A w \in Wips : exec[w].status \in {"waiting_confirm", "completed"} => exec[w].note # "null"

(* However sessions interleave, an execution is terminated only after      *)
(* somebody filed an abort request (review_abort is the only way there).   *)
TerminatedOnRequest ==
  \A w \in Wips : exec[w].status = "terminated" => exec[w].abort # "none"

(* No commit, however stale its copy, takes an execution row away or       *)
(* erases the trace of an abort request or of a result note.               *)
TracesKept ==
  [][\A w \in Wips : /\ exec[w].status # "absent" => exec'[w].status # "absent"
                     /\ exec[w].abort # "none" => exec'[w].abort # "none"
                     /\ exec[w].note # "null" => exec'[w].note # "null"]_exec

(* Handlers that do not overlap implement the lifecycle of a WIP.          *)
Status   == [w \in Wips |-> Ensured(exec[w]).status]
Verified == [w \in Wips |-> exec[w].verified]
Abort    == [w \in Wips |-> exec[w].abort]

Lifecycle == INSTANCE WipLifecycle WITH status <- Status, verified <- Verified, abort <- Abort

LifecycleSpec == Lifecycle!Spec

(* The two status columns agree through WIP_EXEC_TO_B once the execution   *)
(* has begun; before, B's column is on the dispatch chain.                 *)
StatusBridge ==
  \A w \in Wips : IF exec[w].status \in {"absent", "waiting_load"}
                  THEN wip[w].status \in Chain
                  ELSE wip[w].status = ExecToB(exec[w].status)

(* The machine is what reports an automatic completion: a WIP that is      *)
(* running and due leaves `running`, as tick_progress promises.            *)
MachineCompletes == \A w \in Wips : exec[w].status = "running" ~> exec[w].status # "running"

(* Without a crash, a running WIP is due for its next tick or the worker   *)
(* has it in hand: "at 100% the machine's completion is called".           *)
NeverStalled ==
  \A w \in Wips :
    exec[w].status = "running" =>
      \/ exec[w].due
      \/ \E s \in Workers : sess[s] # Idle /\ sess[s].w = w

(* _refresh_order_after_confirm: once every WIP has ended and no session   *)
(* still has its roll-up ahead, the order has rolled up.                   *)
AllEnded == AllWipsIn([w \in Wips |-> exec[w].status], EndedExec)

RollUpAhead == \E s \in Sessions : sess[s].phase \in {"confirm_rollup", "write_order"}

RolledUp == AllEnded /\ ~RollUpAhead => order \in {"completed", "terminated"}

=============================================================================
