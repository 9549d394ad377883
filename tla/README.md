# Formal models of the laboratory order system

The repository is a laboratory information system: applicants order
experiments, samples travel between laboratories, every experiment of an order
becomes a WIP ("work in process") that is dispatched, run on a machine,
confirmed, reported and signed off, and the order is closed when the applicant
has picked the sample up. The backend is FastAPI over PostgreSQL through
SQLAlchemy's async ORM, with Celery workers beside it.

Two facts about that stack decide what is modelled (`src/backend/app/core/database.py`):

* no statement takes a row lock in the modules modelled here, and the isolation
  level is PostgreSQL's default, READ COMMITTED;
* sessions are opened with `expire_on_commit=False, autoflush=False`, so a
  handler works on the copies it read, and its commit updates only the columns
  whose value differs from the copy.

Every handler is therefore a read, a guard on the copy, and a merge into rows
that may have changed meanwhile. Unit tests run one handler after the other and
never see this.

## 1. Inventory

| Part | State | Operations | Talks to | What is hard | What makes it correct |
|---|---|---|---|---|---|
| Experiment runs (`modules/experiment_runs`, `workers/experiment_tasks.py`) | `wip_execution` (status, verification, note, abort, next progress time), `wips.status` and `progress` | check-in, check-out, progress, result, verify, confirm, request and review of an abort, machine completion, periodic tick | orders (roll-up), dispatches and WIPs (`wips.status`), samples | two status columns, stale copies, two transactions per handler, a worker that may die between them | the columns agree; results and aborts leave traces; a running WIP leaves the machine; the order follows its WIPs |
| Order roll-up (`_refresh_order_*`) | `orders.status` | after a result, after a confirmation or an approved abort | called by experiment runs, after the WIP's commit | runs on a later snapshot | the last WIP to end moves the order |
| Closures (`modules/closures`) | `wips.lab_closed`, `orders.status` | closing conditions, `to_pickup`, `close_order` | WIPs, reports, samples, claims | check, second read, flush, count and commit are separate statements | a closed order has all its work done and signed off |
| Reports (`modules/reports`) | `reports.status` | create, submit, review, publish, edit | orders (`waiting_report_return`) | several drafts of one WIP | a formal report is unique, and exists when a WIP is signed off |
| Samples and transfers (`services/sample_service.py`, `transfer_service.py`) | `samples`, `sample_histories`, `transfers` | receive, inbound, split, outbound, pickup; create, send, receive, cancel | WIPs (split creates one, places follow), claims | raw SQL without locks; nothing in the rows ties a transfer to its sample; handlers check, then write; two requests create two transfers | a sample is where its transfer says, is sent where work is, is announced for pickup only when nothing is left to do, and never gets stuck |
| WIPs (`services/wip_service.py`, `routes/others.py`) | `wips`, `order_items.dependency_check` | generic actions, claim of the next experiment, creation, completion with the sample's flow | samples, machines (utilization), dispatches | the route is a text cut at 100 characters; actions without a guard on the status; claims that outlive a cancelled transfer | each experiment has one WIP, in dependency order |
| Dispatches, machines, recipes (`modules/dispatches`, `machines`, `recipes`) | `dispatches`, `machines`, `recipes`, `wips.status` | create, suggest, replan, assign; create and update a machine, its status, a recipe | WIPs | copies merged at commit; machine and recipe are checked, then used without a lock; every query is confined to a laboratory | a WIP keeps pace with its dispatches; what is checked in was assigned a machine of its laboratory; an assignment fits when it is committed |
| Orders, approval, quota (`repos/order_repo.py`, `services/order_service.py`) | `orders`, `order_items`, `quota_usage` | create, edit, delete, submit, approve, return or reject items, cancel, deliver | samples (created on delivery) | items of one order decided on concurrently, an aggregate computed from a copy, a quota counted at submission and charged at approval | the order's status is the aggregate of its items; an approved order is charged once and in full; no quota is exceeded without a special approval |
| Issues and escalation (`services/issues.py`, `workers/escalation.py`) | `issues` (status, level, next escalation time, handled) | create, update of the texts, scheduled task, 60 s sweep; acknowledgement by reading or answering | notifications, senders | the sweep races people, the task and itself; `notify` owns the commit; lost and redelivered tasks | a level is told when it is reached, none is skipped, an issue nobody acknowledges reaches the top |
| Notifications and senders (`services/notifications.py`, `workers/*_sender.py`, MQTT listener) | `notifications`; callout tasks; messages of the telephone service | notify, list, read, answer; call out, retry; connect, receive results | issues, broker, mail, telephone service (TAS) | an accepted callout that is retried, messages at QoS 0, a listener that is down, results without a tag | an issue is handled only because a person answered, and that is visible |
| Dashboard | none of its own | aggregates, push events | all | best effort | reads only |
| Master data, users, roles | one table each | CRUD | scope of every query | none | - |
| Web frontend (`src/frontend`) | answers it keeps (next destination) | offers operations | backend API | hides what it takes for somebody else's work; stale answers | offers a next step for every sample |
| Deployment, scripts | none | - | - | - | - |

`PROJECT.json` lists these parts with what is modelled of each, and under
`hazards` the places in the code where something can go wrong that a test would
hardly reach.

## 2. Modules

```
OrderRollup          the two roll-up rules, as pure operators
  ^            ^
ExperimentRun  OrderClosure
  |  implements (INSTANCE Lifecycle)
WipLifecycle         what a WIP's life promises

IssueEscalation      issues, their tasks, the sweep and the acknowledgements
  ^ composed with, and implemented by (INSTANCE Escalation)
PhoneAlerts          notifications, callouts, the telephone service, the listener

OrderApproval        an order from its draft to its delivery, and its quotas

SampleRoute          the route of a sample, its slots, the next experiment (operators)
  ^
SampleFlow           samples, WIPs and transfers, and what the pages offer

Dispatching          dispatches, machines and recipes beside the WIPs

MC<module>           small instances for TLC
<module>Proofs       TLAPS proofs, for ExperimentRun, OrderClosure, IssueEscalation,
                     PhoneAlerts, OrderApproval, SampleRoute, SampleFlow, Dispatching
```

**`OrderRollup`** has `AfterResult` and `AfterConfirm`, the functions from the
order's status and the execution statuses of its WIPs to the order's next
status, as `_refresh_order_after_result` and `_refresh_order_after_confirm`
compute them.

**`WipLifecycle`** is the abstract specification: status, verification and abort
of each WIP as atomic transitions, with no sessions and no stale copies.

**`ExperimentRun`** is the service and its worker, statement by statement.

| Model | Code |
|---|---|
| `wip[w]`, `exec[w]`, `order` | rows of `wips`, `wip_execution`, `orders`; `exec[w].due` is "`next_progress_at` is not NULL" |
| `sess[s]` | an `AsyncSession`: its copies of the rows and the statement it is at |
| `ReadWip`, `ReadExec` | `_require_wip`, `get_exec`/`ensure_exec`, with the guards that follow |
| `Store`, `MergeWip`, `MergeExec` | the commit: dirty columns only |
| `InsertConflict`, `Abandon` | the primary key refuses the second insert of `ensure_exec`; a client or process that dies |
| one action per operation | `CheckIn` ... `RejectAbort`, `MachineCompletion`, `Tick` |
| `RollUp`, `WriteOrder` | the second transaction of a result, a confirmation or an approved abort |
| `SyncWipStatus`, `WipAction` | what dispatches (C) and the WIP API (B) write into `wips` |

`tick_progress` advances every due WIP in one transaction; the model's worker
takes one WIP per session, which allows every order of WIPs the task could meet
and is why a tick and its completion are tied to one WIP. The selection and the
re-read of the row, which the code does inside the task, are the steps
`SelectDue`, `ReadWip` and `ReadExec`. The sample flow and the notifications of
a confirmation are not in this module.

**`OrderClosure`** is the rest of an order's life at the level of whole
handlers, except the two closure operations, which are sessions: `CheckClosure`
(conditions and order status), `FlushAndCount` (second listing, flush, counts)
and `CommitPickup`; `CheckClose` and `CommitClose`. The three COUNT statements of
`all_wips_lab_closed` are one step. The row locks a flush takes are the guard of
`FlushAndCount`. An order has one sample and one dependency group, whose items
are done in the order of `Route`; `claimed[i]` is
`order_items.dependency_check`, `wip[i].signed` is `wips.lab_closed`.
`CancelTransfer` leaves `claimed` alone, because the code's release compares
`order_items.sample_id` (a sample number) with `samples.id` and finds no row.
`sample.to` is the destination of the transfer under way; it means nothing, and
is reset, when there is none.

**`IssueEscalation`** is the climb of an issue from the engineers of a lab
(level 0) to its supervisors (1) and the general supervisors (2).

| Model | Code |
|---|---|
| `issue[i]` | row of `issues`; `next` is `next_escalation_time` seen as NULL, in the future or passed, `handled` is "`handled_at` is not NULL" |
| `told[i]` | the levels whose people have rows in `notifications` |
| `tasks[i]` | `escalate_specific_issue` messages in the broker |
| `job[k]` | the session of a worker: copies it has still to look at (`todo`) and copies it changed that no commit has saved yet (`unsaved`); or the scheduling of the next task (`rearm`) |
| `Create`, `Schedule`, `TellEngineers`, `RequestFails` | the three parts of `create_issue`, between which a request may fail |
| `TakeTask`, `Sweep` | the queries of the task and of the sweep; a task that comes early or late finds nothing and is dropped |
| `Hop`, `Escalate`, `EscalateUnheard` | `_escalate_one_issue`: with people at the new level `notify` inserts their notifications and commits everything the session changed, without people it returns before the commit |
| `Acknowledge` | the UPDATE of `mark_read`, of one issue, and of `mark_notification_answered`, of all issues a telephone rang for |
| `Fail`, `Die`, `Lose` | rollback, death of a worker with redelivery (`task_acks_late`), loss of a message |

A task may be taken as soon as it is in the broker, before its deadline: that
covers the early firing the code's two-second tolerance is about, and late
firing. The status `assigned`, which the queries allow, is written by nobody;
neither is `closed`, so the guard of the acknowledgement is always true.

**`OrderApproval`** is `OrderRepository` up to the delivery of an order, with its
items and the monthly quotas of its applicant and department.

| Model | Code |
|---|---|
| `order[o]`, `items[o]` | rows of `orders` (`status`, `total_items`, `is_deleted`) and `order_items` by id (laboratory, status, `quota_exceeded`, `quota_override`) |
| `used[o]` | `used_count` of the order's rows in `quota_usages`; the user's and the department's row always hold the same count |
| `sess[s]` | a handler's copy of an order and its items, the quota counts it has read, and whether it found the order uncharged |
| `Load` | `_get_order_model`, with the guards on the status; all guards of a handler are on this copy |
| `Replace`, `Patch` | `update_order` with new items, or of one returned item |
| `CountUsed`, `CountReserved` | the two reads of `_quota_check` for one scope: what was charged, then the orders waiting for approval |
| `Submit`, `Exceeding` | the items beyond the remaining quota are marked |
| `Approvable`, `Targets` | the items a request may mean: one item, or all those of the supervisor's laboratories |
| `Approve`, `Return`, `Reject`, `Aggregate` | the decisions, and the status of the order they lead to |
| `CheckUsage`, `Charge` | the query and the insertion of `record_quota_usage` |
| `Advance` | delivery, receipt, pickup and closing: one status after the other |
| `SaveItems`, `SaveRow`, `Abandon` | the commit of dirty columns; a handler that fails anywhere |

Every item a handler touches gets a new `updated_at`, so its UPDATE is issued, and
fails if another handler has replaced the item: that is the guard of
`SaveItems`. The model counts the scopes of an order in any order, which includes
the code's (user, then department). A client may patch several items in one
request; in the model these are several requests. The month does not change.

**`SampleRoute`** holds the pure part of the sample flow: how the items of an
order become the text of `samples.experiment_item` (`DeliveryOrder`, `Distinct`,
`Truncated` for a column of `Room` steps), how it is read back into steps and
matched with WIPs (`Slots`, `Segment`, `GroupedRoute`), what may be created
(`CreateInOrder`) and completed (`CompleteInOrder`), and which item
`dependency/next` chooses (`NextCandidates`, `Utilization`, `Chosen`).

**`SampleFlow`** has the handlers of samples, WIPs and transfers on these rows.

| Model | Code |
|---|---|
| `samples[s]` | row of `samples` (status, place, route) and the status the last row of `sample_histories` names |
| `wips`, `transfers` | rows in the order of creation; a transfer's position is its number |
| `claimed`, `done` | items with `dependency_check`; WIPs by `completed_at` |
| `told[l][s]` | the destination a page holds from `dependency/next` (`NoLab`: the applicant's order page) |
| `sess[p]` | a request between its reads and its writes, with what the handler keeps of its reads |
| `Ask...` | routing, access rules, guards on the rows read |
| `Deliver`, `Receive`, `Inbound`, `Outbound`, `ConfirmPickup`, `Split` | `create_samples_for_confirmed_delivery`, `handle_sample_action` |
| `NextItem`, `Chosen` | `claim_next_dependency_experiment` |
| `SetWip`, `StartWip`, `CompleteWip`, `OthersComplete`, `GenerateMissing` | `handle_wip_action`, `complete_wip_sample_flow`, `routes/others.py` |
| `ConfirmResult`/`AdvanceSample`, `TerminateRun`/`WithdrawSample`, `LoseFollowUp` | the end of a run and its best-effort follow-up in a second transaction |
| `CreateTransfer`, `SendTransfer`, `CancelTransfer`, `CreateWipTransfer`, `TransferNoTaken` | `transfer_service.py`; the last is the INSERT that meets a number taken meanwhile |
| `SamplesOf`, `WipsOf`, `FlowWipsOf`, `TransfersOf` | the lists, under the visibility filters |
| `PageForms`, `PageSplits`, `PageShows`, `PageTransfers`, `PageNotifies` | what the WIP page and the transfer page offer (`wipForm.ts`, `transfer/page.tsx`) |

The statements a handler writes are one step: they run at its end, and the first
UPDATE takes the row. What a handler looks at again after that (`ToCreate`) is
read in that step, what it read before is in `sess`. `Guided = TRUE` lets only
the pages ask, `FALSE` any caller of the API; `Patient` is the assumption that a
laboratory which announced a transfer does not split the sample any more.

**`Dispatching`** has the planners of the laboratories. `Prepare` is a handler's
reads and checks, `Commit` the UPDATE of the columns it changed (`Changed`,
`Merged`), or the INSERT that fails. What the rest of the system does to the WIPs
is there too, each handler in one step: the runs (`CheckIn`, `Unload`,
`ConfirmResult`), the requests to abort and their reviews (`RequestAbort`,
`ApproveAbort`, `RejectAbort`), which ask the execution row (`execs`) and not
`wips.status`, so that they meet WIPs nobody has planned, and the generic actions
(`WipAction`), which ask nothing; `WipActions` names those that are called.
`ExperimentRun` has the same handlers statement by statement. A dispatch refers to a
machine by the suggestion (`suggested`) and by the assignment (`machine`,
`recipe`); the strategies by which the list of an answer is ordered change no
state.

**`PhoneAlerts`** instantiates `IssueEscalation` and adds what an escalation
sends. `sent` and `read` are the rows of `notifications`, `callouts` the tasks of
`phone_sender`, `calls` and `wire` the telephone service and its messages
(external, modelled from how the code uses it), `listener` the MQTT process. `sent`
is a set: when the task and the sweep both tell a level, a person's two rows are one,
and reading the second after the first, which acknowledges the issue once more, is
not distinguished. No property counts rows.
`Notify` conjoins the rows of a level and its callout with the escalation's own
step; what happens to telephones and messages, losses included, is a stutter of
the escalation, and an answer or a reading is one acknowledgement of it. So the
module implements the escalation (`ImplementsEscalation`). `answered` is a
history variable: the issues a person did answer for.

## 3. Runs and what they show

| Run | Instance | Shows |
|---|---|---|
| `ExperimentRunSerial` | one session that may die anywhere, all requests, one WIP, progress 0..2 | without overlap the service and its worker implement `WipLifecycle`, and `wips.status` always is the image of the execution status |
| `ExperimentRunWorker` | one request session and one fair worker, both alive, one WIP, progress 0..2 | under every interleaving of statements a result waiting or confirmed has a note, a terminated execution has an abort request, no commit erases a trace; a running WIP always has its next step ahead (`NeverStalled`) and leaves `running` (`MachineCompletes`), whatever the requester does |
| `ExperimentRunRollUp` | two WIPs, two sessions that live, dispatch to confirmation | the order has rolled up once all WIPs ended and no roll-up is pending, although each roll-up sees only what was committed |
| `OrderClosureSerial` | two labs in a chain, one closer, closure operations do not overlap with other handlers | a closed order has every experiment ended and signed off and stays closed; the last missing sign-off moves the order |
| `OrderClosureOverlap` | one lab, two closers that overlap with everything, two reports per WIP, the older order actions | a signed-off WIP keeps meeting its closing conditions |
| `IssueEscalation` | an issue of a fully staffed lab and one of a lab without supervisors, one worker, two faults of any kind | a level is told when it is reached, none is skipped, only an issue that can climb has a deadline; and an issue nobody acknowledges is told to the general supervisors, if its levels are staffed, also next to one that cannot climb |
| `OrderApprovalSerial` | two orders of one department, one of them of a user with a quota of 1 beside the department's 2, orders of one item or of one in each of two laboratories, supervisors of either laboratory and of both, one handler at a time that may fail anywhere | through every round of submission, partial approval, return, editing and resubmission the status is what the items say; an approved order is charged with its items once; no quota is exceeded without an override |
| `SampleFlowPages` | one sample with four items in two dependency groups and three laboratories, an engineer in each, any equipment of machines, one request at a time, at most four transfers | while on its way the sample is where its transfer says and has one transfer (`Custody`); it is sent only where work can begin (`SentWhereNeeded`); no laboratory works before those it depends on (`InDependencyOrder`); it starts where its applicant was told; its history follows; and some page always offers the next step (`NeverStuck`) |
| `SampleFlowOverlap` | a chain of two laboratories, two requests of the pages overlapping, runs that complete or are terminated | an experiment has one WIP, and a sample is announced for pickup only when its items are done, under every overlap |
| `SampleFlowAny` | the same chain, any caller, one request at a time, including the operations no page offers | an announced pickup is justified, an ended transfer stays ended |
| `Dispatching` | two laboratories with a planner each, one WIP in one of them, two dispatches, two kinds of experiment, two machines, one recipe; runs, requests and reviews of aborts, the WIP actions start, resume, pause, complete and terminate | although the WIP may be taken off the chain at any time, and back onto it by a plan made before, it is never behind its dispatches (`WipKeepsPace`); what has been checked in, or may be, was assigned a machine of its laboratory (`CheckInAssigned`); an assignment fits when it is committed (`AssignedFits`) |
| `PhoneAlerts` | one issue, its engineer and a supervisor with telephones, one worker, one fault of the escalation, any number of the telephone's | an issue is handled exactly when the application names somebody who confirmed it, and only if a person did answer or read; rows, callouts and calls implement the escalation of `IssueEscalation` |

All runs pass. Divergences between code and documents, or between the code and
what one would expect of it, that the models exhibit without a run of their own:

* `docs/role_cd_functional_reference.md:31` says of `check_in` that what was not
  dispatched cannot go on a machine, so that the steps between cannot be skipped.
  The review of aborts goes around it: `request_abort` creates the execution row of
  a WIP that nobody has planned, and rejecting the request sets the WIP running
  (`experiment_runs/service.py:507`; in `Dispatching` the steps `RequestAbort`,
  `RejectAbort` from `Init`), after which it progresses and ends; approving it
  terminates a WIP that never ran. `mark_dispatched`, `start` and `resume` pass the
  gate too (`wip_service.py:1194`). So "what runs has been assigned" is false, and
  only `CheckInAssigned` is left of the gate; `WipLifecycle!ReviewAbort` allows the
  review;
* a claim for a later laboratory is made before its WIP exists, and
  `all_wips_lab_closed` counts existing WIPs and claims
  (`closures/repository.py:87`): the first laboratory can put the order to pickup
  while the second experiment has not begun, the case the docstring
  (`closures/repository.py:73`) says it prevents;
* in a lab without supervisors the hop to their level is never committed:
  `notify` with no recipients returns before the commit the hop relies on
  (`escalation.py:117`, `notifications.py:69`), every sweep repeats it, and the
  general supervisors are never told, although the comment says that "escalation
  still happens";
* the supervisors of two laboratories approve at the same time, each from a copy
  in which the other's item is pending: both items are approved, the order
  waits for approval for ever, and no supervisor finds an item to decide on
  (`order_repo.py:370`; `docs/order_management.md:33` lets different supervisors
  sign);
* samples and transfers are written without locks, so with two overlapping
  requests of the pages `Custody`, `SentWhereNeeded`, `NeverStuck` and
  `DeliveredWhereTold` fail: two requests create two transfers of one sample
  (unless one meets the number of the other), a transfer is sent and cancelled
  at once, two calls of `dependency/next` claim two items; with two callers of
  the API `OutboundJustified` and `EndedStays` fail too;
* when the work of a sample ends in a laboratory that is not the last one its
  route names, `returnCandidates` hides the sample from the only laboratory that
  holds it (`transfer/page.tsx:783`), so it is never announced for pickup from
  the pages, although the service would accept it; the instance of
  `SampleFlowPages` ends where its route ends;
* a laboratory that splits another group while its transfer of the sample is
  pending, and completes that WIP after sending, pulls the sample back
  (`wip_service.py:895`): with `Patient = FALSE` `Custody` fails. So does a start
  at the old laboratory during the transfer;
* a route longer than its column loses its last experiments
  (`order_repo.py:1082`); what is lost is never created and does not hold up the
  pickup (`PickedUpWhenDone` fails with a smaller `Room`);
* `inbound` and `split` do not look at the sample's status; completing a WIP
  again after pickup sets the sample to `split`; both only outside the pages;
* a completed WIP brings a sample from `pending_transfer` back to `split` without
  a row of history (`HistoryFollows` allows exactly that); the row
  `transfer_created` names the status read before;
* a terminated WIP is incomplete for the pickup, so its sample cannot leave
  (`sample_repo.py:441`) unless all of them are terminated;
* the comment on the route format calls items of different groups independent
  (`wip_service.py:308`), but a WIP can be completed only in the flat order of
  the route (`wip_service.py:834`);
* a telephone that is answered marks the telephone rows of all colleagues as
  read (`notifications.py:197`), so `list_acknowledgements` names people who never
  answered;
* a call answered while the listener is down, or while its acknowledgement
  fails, is lost: the escalation goes on;
* `suggest` of an administrator matches machines of all laboratories; `assign`
  looks neither at the machine's status nor at other assignments of it; two
  dispatches of one WIP may both be assigned; recipes that an administrator
  shares between laboratories break `AssignedFits`; so does a second planner of one
  laboratory, or an administrator beside one, who changes the machine under an
  assignment, and they break `WipKeepsPace` ("Forward-only: never regresses",
  `dispatches/service.py:309`), because the chain is compared with a copy;
* a plan made while a WIP was on the chain and committed after it was run or ended
  (by a review that rejects or approves, or by a WIP action) sets `wips.status` back
  to the chain: a terminated WIP is waiting or dispatched again
  (`dispatches/service.py:331`);
* `tick_progress` commits progress 100 with `next_progress_at = NULL` and only
  then completes the WIP in a session of its own (`experiment_tasks.py:112`): a
  worker that dies in between leaves the WIP running for ever, although the
  task's docstring says that it completes it at 100 % (`NeverStalled` fails when
  the worker of `ExperimentRunWorker` is mortal);
* a hop computed before an acknowledgement gives the acknowledged issue a new
  deadline, and the escalation goes on (`escalation.py:97`), although
  `mark_read` "so the Beat worker stops escalating" clears it
  (`notifications.py:168`);
* with two overlapping handlers on one order, `StatusIsAggregate` and
  `ChargedInFull` fail in several ways: a cancellation that overlaps with the
  last approval leaves a cancelled order charged, or an approved order the
  applicant was told is cancelled (`order_repo.py:300` says a cancelled order
  "cannot be changed"); two approvals both find no usage row and both charge;
  a return that overlaps with an approval leaves a charged order that is
  returned, and can never be approved again, because its next approval meets
  two usage rows where `scalar_one_or_none` takes one (`order_repo.py:610`); two
  updates both keep their new items; an update under a submission leaves draft
  items in a waiting order;
* two submissions that overlap count neither the other's items
  (`order_repo.py:406`), so both stay within the quota that they exceed together
  (`WithinQuota` fails with two sessions);
* the limits for urgent and critical orders count what was charged, not what
  waits for approval (`order_repo.py:917`), unlike the monthly limit, so they
  can be exceeded without any overlap;
* the decisions on an abort overlap with the roll-up of another session: a
  rejection that read its WIP before the last confirmation puts the ended order
  back in progress, or nobody rolls it up (`experiment_runs/service.py:512`;
  `RolledUp` fails when `ExperimentRunRollUp` also allows the abort requests);
* a machine completion or an upload that read the row early writes
  `data_verified = false` back under a confirmation, so a completed WIP may be
  unverified (`experiment_runs/service.py:547`, against the docstring of
  `verify_data`); with one session the lifecycle excludes it;
* two labs sign off at once, neither counts the other, and the order stays
  behind (`closures/service.py:180`; `LastLabAdvances` fails with two closers
  on `Chain`);
* with two experiments in one lab the second needs no transfer, hence no claim,
  and once completed it cannot be claimed any more (`wip_service.py:421`), so
  the order never reaches pickup;
* a rollback in the middle of a sweep expires the other issues' copies, and the
  next attribute read raises outside the `try` (`escalation.py:151`): one bad
  issue does end the batch, and an issue whose notification can never be stored
  would hold up the ones behind it in every sweep. `ReachesTheTop` therefore
  holds for finitely many faults only;
* the task and the sweep can both tell the people of one level, and a copy that
  is a level behind sets the issue back by one: levels are never skipped, but
  they are not monotonic;
* a dispatch that read a WIP before its check-in takes `wips.status` back to the
  chain (`StatusBridge` fails with two sessions and `dispatch` requests);
* the WIP actions `terminate` and `complete` write `wips.status` at once,
  without a review (`wip_service.py:1194`, `docs/experiment_execute.md:87`);
* a WIP terminated before its result can have no report, and without a returned
  report its lab cannot sign it off (`reports/service.py:113`);
* cancelling a transfer is to release the claim of its destination, but the
  release compares `order_items.sample_id` (a number) with `samples.id`
  (`transfer_service.py:528`, `wip_repo.py:120`): it finds no row, the claim stays;
* two drafts of one WIP can both become formal (`reports/service.py:121`);
* with overlap, `ClosedIsFinal` fails: a second `to_pickup` that read the order
  before `close_order` committed writes `waiting_pickup` over `closed`; and
  `SignedOff` fails when one lab has two items, because a WIP split between the
  check and the second listing of `to_pickup` is signed off unbegun;
* `OrderRepository.apply_action` closes an order from `ready_for_pickup`
  with no look at WIPs (`order_constants.py:48`), so `ClosedMeansDone` is checked
  without those actions.

## 4. Bounds, and why they suffice

* `FullProgress = 2`, `ProgressStep = 1`: a tick that does not finish and one
  that does, and a manual value below, at and between. With `FullProgress = 1`
  or `0` the progress is irrelevant to the properties of that run.
* One WIP where the property is about one row: WIPs share no state but the
  order, which those properties do not mention. Two WIPs for the roll-up, the
  smallest number for which "the last one" means something.
* Two sessions: each hazard is a race of one stale copy with one commit. The
  safety properties of `ExperimentRunWorker` are proved for any number, mortal or
  not, and for all requests (section 6).
* Two items and at most two labs: the first and a later item of a chain, with a
  transfer between; `OneStop` is the smallest order for the overlap of two
  closers. `MaxReports = 2` where drafts compete, 1 where the report's existence
  alone matters. Types, sign-offs and closings are proved for any route.
* Two issues, because a sweep saves or drops the changes of one issue with the
  commit or the rollback of another. One worker: the liveness needs no second,
  and the safety properties, which a race of two copies could break, are proved
  for any number of workers. `MaxTasks = 1` message per issue: a second one finds
  nothing new. `MaxFaults = 2`, so that the task of a deadline can be lost and the
  sweep that replaces it fail too.
* One sample, because handlers of different samples share only the numbers of
  transfers. Four items in two groups, two of them in the last laboratory: the
  smallest order in which a page has to choose between groups, the equipment
  decides, and a laboratory works twice. `MaxTransfers = 4` is never reached by the
  pages with that order; 2 and 1 in the other runs allow a transfer, one that
  overlaps with it, and a return. A machine is there or not: of its utilization
  only the order matters, and a missing machine counts as the highest.
* Two planners in two laboratories are what the scope has to keep apart. One WIP in
  `Dispatching`: what is checked is about one WIP and the dispatches it has, and the
  planner of the other laboratory, who shares machines, recipe and dispatches with
  its own, is there to find out whether anything of it is in reach (without the
  filter of `Listed` it is). Two dispatches, so that one `suggest` changes several rows
  and one WIP may have two, of different experiments. `Leaving` has no
  `send_to_schedule`, `mark_scheduled` and `mark_dispatched`: they write the planners'
  own statuses without their checks, back or forward, so one call of them can break
  `WipKeepsPace` or `CheckInAssigned`. What the run checks is proved for any number
  of WIPs, laboratories and rows.
* One issue in `PhoneAlerts`: calls and messages of different issues meet nowhere
  but in a person's list. Two people, so that several telephones ring for one
  issue at different levels; `MaxTasks = 1` and `MaxFaults = 1` bound the
  escalation's own messages and faults, not those of the telephone, and keep the
  product small. Types, acknowledgements and the refinement are proved for any values.
* Two orders that share a quota, one of them with a second, tighter one: the
  smallest instance in which two limits differ and one order's submission meets
  another's reservation. Two items, one in each laboratory, give every mixture of
  statuses the aggregate distinguishes except those of three. `MaxItemId = 2`:
  item ids that nobody holds a copy of are used again. One session means one
  handler at a time; its statements, and its failures, are still steps of their
  own. Everything the run checks is proved for any values, too.
* `Overlap = FALSE` runs other handlers only when no closer is in the middle of
  its operation; `OrderClosureOverlap` lifts this.
* `ExperimentRunWorker` leaves out the manual progress and the verification: a
  person who sets the progress back for ever can prevent the machine from ever
  finishing.
* Symmetry is used for sessions of the same role, for WIPs, and in `Dispatching`
  for dispatches, machines and experiments, in runs without liveness properties only.

`CHECK_DEADLOCK FALSE` is set where the system really may stop: an order that is
closed, cancelled, deleted or rejected, or whose sample ended with its last WIP
(`OrderClosure`, `OrderApproval`), has nothing left to do; neither has an
acknowledged issue without calls (`PhoneAlerts`); a sample with a terminated WIP,
or one taken along by a caller who ignores the flow, cannot leave
(`SampleFlowOverlap`, `SampleFlowAny`). `SampleFlowPages` and `Dispatching` check for
deadlocks.

## 5. Fairness

`WorkerFairness` is weak fairness of each worker's own steps: the beat schedule
(`core/celery_app.py`) sends `tick_progress` every two seconds and a worker
that took a task runs it to its end. Nothing is assumed of people: no request
is ever forced, and a requester may hold its session open for ever. No crash is
assumed away silently: `ExperimentRunWorker` has no mortal session, and section 3
says what a mortal one does.

In `IssueEscalation` time passes (`Elapse`), a worker finishes what it took
(`Work`), and the sweep is strongly fair: the beat puts its message into the
queue every minute and it stays there until a worker is free, so it cannot be
overtaken for ever by the tasks a busy worker takes. Nothing makes the broker
deliver a task (`TakeTask` has no fairness): the sweep alone must suffice, as the
comment on the beat schedule claims. Nobody is forced to acknowledge.

## 6. Proofs

Every theorem holds for all values of the module's constants that its named
assumptions allow (any sets of WIPs, sessions, orders, laboratories, staff, any
bounds), and under the hypotheses the table names, if any. A hypothesis is there
because the property is false without it; section 3 says what then happens.

| Module | Theorem | Statement | Hypotheses |
|---|---|---|---|
| `ExperimentRunProofs` | `TypeCorrect` | `[]TypeOK` | |
| | `ResultIsRecorded` | `[]ResultRecorded` | |
| | `TerminationWasRequested` | `[]TerminatedOnRequest` | |
| | `TracesAreKept` | `TracesKept` | |
| | `SerialRefinement` | `LifecycleSpec` | one session |
| | `StatusesAgree` | `[]StatusBridge` | one session, no WIP action of B |
| | `OrderRollsUp` | `[]RolledUp` | no session dies, no abort is rejected |
| | `RunningIsNotForgotten` | `[]NeverStalled` | requests one at a time, workers that live |
| `OrderClosureProofs` | `ClosureTypeCorrect` | `[]TypeOK` | |
| | `SignOffsHold` | `[]SignedOff` | `Undisturbed`: no overlap with other handlers, or closers of one laboratory that has one item |
| | `ClosedOrdersAreDone` | `[]ClosedMeansDone` | `Orderly`: no overlap with other handlers, order actions that do not close on their own |
| | `ClosedOrdersStayClosed` | `ClosedIsFinal` | `OneAtATime`: `Orderly`, one closer |
| | `LastSignOffAdvances` | `LastLabAdvances` | `OneAtATime` |
| `OrderApprovalProofs` | `ApprovalTypeCorrect` | `[]TypeOK` | |
| | `ApprovalIsCharged` | `[]ApprovedIsCharged` | |
| | `SerialAggregate` | `[]StatusIsAggregate` | one session |
| | `SerialCharge` | `[]ChargedInFull` | one session |
| | `SerialQuota` | `[]WithinQuota` | one session |
| `IssueEscalationProofs` | `EscalationTypeCorrect` | `[]TypeOK` | |
| | `EscalationIsTold` | `[]EscalatedIsTold` | |
| | `DeadlinesHaveRules` | `[]DeadlineHasRule` | |
| | `LevelsAreNotSkipped` | `OneLevelAtATime` | |
| `PhoneAlertsProofs` | `PhoneTypeCorrect` | `[]TypeOK` | |
| | `PeopleAcknowledge` | `[]AcknowledgedByPeople` | |
| | `PhoneImplementsEscalation` | `ImplementsEscalation` | |
| | `EscalationInherited` | the three properties of the escalation | |
| `DispatchingProofs` | `DispatchTypeCorrect` | `[]TypeOK` | |
| | `WipsKeepPace` | `[]WipKeepsPace` | `OnePlannerPerLab`, `ActionsLeaveChain` |
| | `CheckedInWasAssigned` | `[]CheckInAssigned` | `OnePlannerPerLab`, `ActionsLeaveChain` |
| | `AssignmentsFit` | `AssignedFits` | `OnePlannerPerLab`, `ActionsLeaveChain` |
| `SampleFlowProofs` | `SampleTypeCorrect` | `[]TypeOK` | |
| | `EveryExperimentOnce` | `[]OneWipPerExperiment` | `Alone` (one session), or no `generate` |
| | `PickedUpMeansDone` | `[]PickedUpWhenDone` | `RoutesFit`, `NoReset` |
| | `OutboundIsJustified` | `OutboundJustified` | `Alone`, `RoutesFit` |
| | `EndedTransfersStay` | `EndedStays` | `Alone` |
| | `GroupsInOrder` | `[]InDependencyOrder` | `RoutesFit`, `ExperimentsDiffer`, `NoReset` |
| | `StartsWhereTold` | `[]DeliveredWhereTold` | `Guided`, `Alone`, `Room # 0` |
| | `CustodyKept` | `[]Custody` | `PagesAlone` |
| | `HistoryKept` | `[]HistoryFollows` | `PagesAlone` |
| | `SentOnwards` | `[]SentWhereNeeded` | `PagesAlone`, `RoutesFit`, `ExperimentsDiffer`, `TargetsDiffer` |
| | `NoSampleLeftBehind` | `[]NeverStuck` | `PagesAlone`, `Staffed`, `RoutesFit`, `ExperimentsDiffer`, `WrittenInOrder`, `EndsTogether`, no aborted runs |

`SampleRouteProofs` has the lemmas about routes that `SampleFlowProofs` rests on.

*Traces.* `ResultRecorded` and `TerminatedOnRequest` are not inductive: a commit
merges a copy read long ago into a row that others changed. The invariant
`TraceInv` says of every stored row that its status is backed by its traces
(`Traced`), and of every session that its copy is sound (`SoundCopy`): it
satisfies the same condition and lies behind the stored row, a trace once
present in the copy being present in the row (`Behind`). `MergeTraces` is the
heart of the argument: merging a row built from a sound copy keeps the result
traced and behind nothing that was stored. Each action then has to show only
that the row it builds from its copy is traced and ahead of it.

*Refinement of the lifecycle.* With one session nothing can commit between a
read and its commit, except B's WIP actions, which do not touch the execution
row. `FreshInv` says that the copy in the session equals the stored row
(`FreshCopy`), so a merge yields just the handler's row, and the step of every
handler maps to one transition of `WipLifecycle`, every other step to a stutter.
`BridgeInv` adds the copy of the WIP's row, and that a dispatch found it on the
chain: then what a commit stores keeps the two status columns together.

*Roll-up and ticks.* Both speak of sessions that overlap. `OrderInv` says what a
session still has ahead: one that has committed the end of a run and not yet
rolled up will write one of the outcomes, and the order is nowhere else. A
rejected abort, or a session that dies between its two transactions, is just what
`CarriesOrder` excludes. `StallInv` says that a running WIP is due or in the hand
of a worker (`InHand`), and that a request which takes it off the machine knows
that it runs (`KnowsRunning`); two requests at once would not.

*Closures.* What `to_pickup` checks is checked before another listing and a flush.
`SignInv` keeps the check true until the signature (`Checked`, `Flushed`): either
nobody else acts, or nothing can come into the closer's scope, its one item being
there (`ScopeStays`), and what can be closed stays so (`ClosableStays`).
`ClosedInv` follows the count: an order waits for pickup only when every
laboratory signed off that had to (`PickupSigned`), and a closer that counted all
signatures, or found the order ready to be closed, is still right (`Counted`).
With one closer the count is exact as well (`Exact`).

*Escalation.* A copy may be older than any number of commits, so nothing relates
it to the row but an order: `Overtaken` says that the copy was overdue when it
was read and that the row has not fallen below it since. It survives every
commit because a commit only stores levels 1 and 2 and a copy's level is 0 or 1.
With it, the merge of a hop yields the copy's level plus one (`MergeRow`), which
is at most one above the row; a changed copy that waits for somebody else's
commit leads to a level without people, so saving it tells nobody too few.
`Climbed` excludes the one case in which a hop from level 0 could keep a
foreign status.

*Telephone.* `PhoneAlerts` is shown to implement `IssueEscalation` step by step, so
the theorems of the escalation are inherited. Its own invariant says that a row
belongs to a level that was told (`Written`) and that a message which would
acknowledge an issue is about one that somebody answered for, with rows of the
telephone's channel (`Justified`); however often it is repeated or delayed, the
UPDATE then meets a row to mark.

*Approval.* With overlap little survives, but an order is never approved for
free. `ApprovedIsCharged` is not inductive, because a stale copy of an approved
order may be written over a row; `ChargeInv` adds that an order which some copy
shows as approved is charged too (`CopiesCharged`). Usage rows are never deleted,
so that stays true however old the copy becomes, and the commit that makes an
order approved inserts them. `Commits` is what all committing handlers share;
one lemma per handler shows it, and `CommitKeeps` needs nothing else. For one
session `Settled` adds that a copy equals what is stored (`FreshCopies`), that
`total_items` is the number of items and that the charge is that total if the
order was approved (`OrdersCharged`); a merge then yields what the handler
computed, and each handler keeps status, items and charge in agreement.

*Quotas.* `WithinQuota` sums over the charged orders of a scope. The provers cannot
use the library's induction over finite sets, whose theorem takes an operator, so
the sums have a theory of their own at the beginning of the module: strict
inclusion of the subsets of a finite set is well-founded, so every non-empty set
of subsets has a minimal one (`MinimalSubset`), and a set of subsets that each
subset enters once its own strict subsets have is all of them
(`SubsetInduction`); from that follow that a sum does not depend on the order of
its terms (`SumRemove`), is monotone, congruent and splits over disjoint sets.
The invariant `QuotaInv` is about the orders in use, charged or waiting: what
they hold without override or exceeded mark never exceeds the limit
(`LimitsKept`), an item over quota is approved with an override only
(`OverridesGiven`), and the counts of a handler are the sums of now
(`CountsRight`). A submission marks what is beyond the limit less charged and
reserved items; every other step of an order in use keeps or reduces what it
holds, and a charged order's ordinary items are among those it holds.

*Dispatches.* A plan is made from rows read earlier. With one planner in each
laboratory, and no administrator beside them, only rows of other laboratories
change in between, except that a run, a review or an action may have taken a WIP of
one's own off the chain (`Undisturbed`; `ActionsLeaveChain` says that the WIP
actions that are called do only that). The commit may then take it back onto the
chain, so it is not enough that the plan moves WIPs forward: no dispatch of such a
WIP asks for more than the plan's target (`MayMove`), because those it has are of
the planner's laboratory and nobody else changes them. `DispatchInv` says that a
plan is sound in this sense (`PlanSound`): its rows fit, its moves may be made, and
a move to `dispatched` comes with the assignment it stands for. Everything else is a
comparison of positions on the chain.

*Samples.* `RowsInv` types what the handlers rely on, among them that a request
names rows that exist; it is inductive alone, and the rest of `TypeOK` follows it in
small invariants of their own: routes (`RoutesTyped`), requests (`OpsOk`, `Waiting`),
claims and answers (`AnswersOk`, which needs that `dependency/next` picks among the
items of its sample), completed WIPs (`DoneOk`). The step that is not bookkeeping is
the number of a new WIP. The code searches for it, in a generation once for each
row while the rows before it take numbers away. Of the numbers in an interval at
most as many are taken as there are pairs in the set the search excludes
(`FreeAreMany`), so a search that starts at `a` succeeds by `a` plus the size of that
set (`FreeNumberFacts`), and one bound does for all rows of a generation
(`GeneratedNumbersFacts`). Statuses are checked when a request is read, not when it
is written; `Fresh` says that the request's conditions (`AskRight`) still hold,
which only a single session guarantees, so `EndedStays` and `OutboundJustified`
have the hypothesis `Alone`. `EveryExperimentOnce`, `PickedUpMeansDone` and
`GroupsInOrder` allow any overlap, of any callers. A sample
keeps the route that its delivery wrote (`Written`), a route that fits its column
(`RoutesFit`) names every item, and a completed WIP stays completed unless one of
the generic WIP actions takes it back (`NoReset`, cf. `wip_service.py:1194`): so a
pickup that was announced stays justified. `split` looks for existing WIPs again
when it has taken the sample's row, `generate` before: hence the hypothesis of
`EveryExperimentOnce`. `GroupsInOrder` says of every WIP, and of every request that
will create one, that the items it depends on are done (`Led`, `RequestLed`): what
`CreateInOrder` and `CreatableByGroup` find is led (`CreatableLed`, from what
grouping does to a route, `GroupingFacts`), and what is done stays done. A WIP
names only laboratory and experiment; if two items of a sample share both, no WIP
tells which of them it stands for (`ExperimentsDiffer`).

`StartsWhereTold` rests on `Promised`: before its delivery the only item of a sample
that is claimed is the one its applicant was told, afterwards the route begins
with it. The delivery order starts with the claimed item (`DeliveryFacts`), the
choice of `dependency/next` is one of its candidates whatever the machines say
(`ChosenFacts`, from the well-foundedness of its three keys), and no handler takes
a claim back (`ClaimStep`; a cancelled transfer looks for it under the wrong id).
A route with no room at all begins with nothing, hence `Room # 0`.

*Where samples are.* Under `PagesAlone` (the pages, one request at a time, staff of
laboratories, none of whom splits a sample it has announced) the invariant
`AllSteady` ties samples, WIPs and transfers together. Open WIPs are in the
laboratory where the sample is, which keeps them there: no transfer is under way
and the status is `split` or `pending_transfer` (`WipsHere`). A sample has at most
one transfer under way and is where that says, with a status that lets it be
received (`TransfersHere`); and its history ends with its status (`HistoryHere`).
A run that has just ended still finds the sample where it ran (`RunJustEnded`).
One lemma per handler shows that it keeps this (`ReceiveSteady` to
`WithdrawSteady`). Both restrictions of `PagesAlone` are needed: an administrator
may announce a transfer from a laboratory where the sample is not, and a split
after the announcement opens WIPs that the sample leaves behind.

*Where samples are sent.* Two parts of the code decide what comes next: the
destination comes from the items, by target and number within the group, the
choice among groups from the machines; what may be created there comes from the
route, which delivery sorted, cut and grouped. `Ahead` says that every item a page
was told is ready, all that is due before it being done, and that a transfer under
way leads to an item that is ready and still open; that stays so because nothing
can be completed for a sample under way (`OpenStays`). `NextIsCreatable` then shows
that such an item is the step its group offers next: the route names the items
and each once (`Names`), grouping keeps the order of targets, and with distinct
experiments a step has the slot of its own WIP. `TargetsDiffer` excludes two items of
a group with the same target, which the two sides order differently (by number
and by laboratory); the order page numbers the items of a flow, so it never sends
such an order (`orders/lib/dependencyFlows.ts`, `normalizeTargetsInFlow`), but the
API accepts one.

*No sample is left behind.* `NeverStuck` puts the guards of all pages side by side,
and the proof finds, for every state in which no request is under way, a page
whose offer the services accept. `Attended` says what there is to do for a sample:
while it is neither announced nor picked up (`Tended`), either an item of the
laboratory that has it is ready and open (`WorkHere`), or that laboratory has WIPs of
it; the laboratory is shown every WIP of the sample, having made it or having
been sent the sample; and once everything is done the sample is where some
group ends. `Onward` is what all handlers have in common: a sample stays where it
is and its status goes on, or it is delivered to where its first item is, or sent
to where a ready item is. From there, case by case: a sample to be received is
received; an open WIP can be ended; if everything the laboratory has is completed,
either an item of its own is next, and then the split page's form is offered and
accepted (`FormOffered`, `SplitOffered`, from `NextMayBeCreated`: what is due next by
item is creatable by route, alone), or every answer of `dependency/next` names
another laboratory (`TransferOffered`, `MoveOffered`), or nothing is left
(`PickupOffered`, from `RouteEnds`: a route ends with an item that closes its group).

The hypotheses are those of the code's users. Somebody works in every laboratory
(`Staffed`). Items are written flow by flow, in the order of their targets
(`WrittenInOrder`), as the order page does (`flattenDependencyFlowsToItems`); the
delivery writes the items after the claimed one by id, so in any other order a
route may name an item last that its group does not end with. The groups of a
sample end in one laboratory (`EndsTogether`). Without either, `returnCandidates`
hides a sample from the laboratory that holds it, the divergence of section 3. A
terminated run is never completed, so its sample cannot leave: runs are not
aborted here.

Only model-checked:

* liveness (`MachineCompletes`, `ReachesTheTop`), because fairness and `ENABLED`
  are out of the prover's reach.

## 7. Not modelled

* The limits for urgent and critical orders, changes of a quota setting, and the
  turn of a month under a waiting order.
* The delivery of mail, which nothing waits for, and the PATCH of an issue, a
  sample or a WIP, which changes texts, severity, assignee or places by hand.
* Texts: templates, measured data, report numbers, storage places. Histories, but
  for the status that the last row of a sample names.
* Sign-in, tokens and permissions; the CRUD of users, roles and master data;
  dashboard queries and events, which are best effort and change no state;
  the frontend but for what its order, sample, WIP and transfer pages offer;
  deployment and the scripts that fill a demonstration database.
* `confirm-delivery` of `routes/others.py`, whose own checks refuse every request,
  and the transfer numbers a caller may choose.
* The storage table of the closure module: no flow fills it.
* `OrderClosure` keeps its own, coarser sample of one group with handlers in one
  step; `SampleFlow` has the full sample, without closures and reports.

## 8. Plan

1. Several samples of one order, whose claims and machines they share.
2. An abstract specification of an order (status only) that `OrderApproval` and
   `OrderClosure` implement, each for its part of the order's life.
