--------------------------- MODULE IssueEscalation ---------------------------
(***************************************************************************)
(* The escalation of laboratory issues (backend/app/workers/escalation.py, *)
(* services/issues.py, services/notifications.py).  An issue nobody        *)
(* acknowledges climbs from its engineers (level 0) to the supervisors of  *)
(* the lab (1) and to the general supervisors (2).                         *)
(*                                                                         *)
(* Each hop is driven by a Celery task scheduled for its deadline, and a   *)
(* sweep every minute looks for deadlines whose task was lost.  Both read  *)
(* issues, change the copies in memory and leave the commit to notify(),   *)
(* which a person's acknowledgement or the other task may precede.         *)
(***************************************************************************)
EXTENDS Naturals

CONSTANTS
  Issues,
  Workers,    \* worker processes, one task at a time each
  Staffed,    \* Staffed[i]: the levels somebody can be told at
  MaxTasks,   \* bound: scheduled tasks of one issue in the broker
  MaxFaults   \* bound: failures, crashes and lost messages in a behaviour

Rules  == {0, 1}    \* the levels that have a next one
Levels == 0..2

ASSUME StaffedAssumption == Staffed \in [Issues -> SUBSET Levels]

ASSUME BoundsAssumption == MaxTasks \in Nat /\ MaxFaults \in Nat

VARIABLES
  issue,    \* rows of `issues`
  request,  \* POST /api/issues of each issue: what it has done so far
  told,     \* the levels whose people have a notification of the issue
  tasks,    \* scheduled tasks of each issue that wait in the broker
  job,      \* what each worker holds in memory
  faults    \* how many faults have happened

vars == <<issue, request, told, tasks, job, faults>>

-----------------------------------------------------------------------------
(* `next` abstracts next_escalation_time: NULL, in the future, or passed.  *)
(* `handled` is "handled_at is not NULL".                                  *)
Row == [status  : {"absent", "open", "escalated", "acknowledged"},
        level   : Levels,
        next    : {"null", "later", "due"},
        handled : BOOLEAN]

NoIssue == [status |-> "absent", level |-> 0, next |-> "null", handled |-> FALSE]

(* Some issues of a session with the copies it read of them.               *)
Copies == UNION {[S -> Row] : S \in SUBSET Issues}
None   == [i \in {} |-> NoIssue]

Without(copies, i) == [j \in DOMAIN copies \ {i} |-> copies[j]]
With(copies, i, c) == [j \in DOMAIN copies \cup {i} |-> IF j = i THEN c ELSE copies[j]]

Job  == [kind : {"task", "sweep"}, todo : Copies, unsaved : Copies]
          \cup [kind : {"rearm"}, of : Issues]
Idle == [kind |-> "idle"]

Become(k, j) == job' = [job EXCEPT ![k] = j]

(* Mutant of Hop: the last level has a deadline too.                       *)
HopRearmed(c) ==
  IF c.level \notin Rules THEN c
  ELSE [c EXCEPT !.level = @ + 1, !.status = "escalated", !.next = "later"]

(* _escalate_one_issue on its copy: the next level, with a new deadline if *)
(* that level has a next one.                                              *)
Hop(c) ==
  IF c.level \notin Rules THEN c
  ELSE [status  |-> "escalated",
        level   |-> c.level + 1,
        next    |-> IF c.level + 1 \in Rules THEN "later" ELSE "null",
        handled |-> c.handled]

(* The hop is announced: there is a rule, and somebody at the new level.   *)
Tells(i, c) == c.level \in Rules /\ Hop(c).level \in Staffed[i]

Dirty(stored, copy, new) == IF new # copy THEN new ELSE stored

(* The commit of a hop: the columns that differ from the copy.  A deadline *)
(* that passed always does.                                                *)
Merge(row, c) ==
  [status  |-> Dirty(row.status, c.status, Hop(c).status),
   level   |-> Dirty(row.level, c.level, Hop(c).level),
   next    |-> Dirty(row.next, c.next, Hop(c).next),
   handled |-> row.handled]

Commit(copies) ==
  issue' = [i \in Issues |-> IF i \in DOMAIN copies THEN Merge(issue[i], copies[i])
                             ELSE issue[i]]

Enqueue(i) == tasks' = [tasks EXCEPT ![i] = IF @ < MaxTasks THEN @ + 1 ELSE @]

Faulty == faults < MaxFaults /\ faults' = faults + 1

-----------------------------------------------------------------------------
(* People.                                                                 *)

(* create_issue commits the issue, schedules its task, then tells the      *)
(* engineers; the broker or the notification may fail.                     *)
Create(i) ==
  /\ request[i] = "none"
  /\ issue' = [issue EXCEPT ![i] = [status |-> "open", level |-> 0, next |-> "later",
                                    handled |-> FALSE]]
  /\ request' = [request EXCEPT ![i] = "committed"]
  /\ UNCHANGED <<told, tasks, job, faults>>

Schedule(i) ==
  /\ request[i] = "committed"
  /\ Enqueue(i)
  /\ request' = [request EXCEPT ![i] = "scheduled"]
  /\ UNCHANGED <<issue, told, job, faults>>

TellEngineers(i) ==
  /\ request[i] = "scheduled"
  /\ told' = [told EXCEPT ![i] = @ \cup ({0} \cap Staffed[i])]
  /\ request' = [request EXCEPT ![i] = "done"]
  /\ UNCHANGED <<issue, tasks, job, faults>>

RequestFails(i) ==
  /\ request[i] \in {"committed", "scheduled"}
  /\ Faulty
  /\ request' = [request EXCEPT ![i] = "done"]
  /\ UNCHANGED <<issue, told, tasks, job>>

(* _ack_source_issues: the rows of the issues acknowledged.  Its filter on *)
(* 'closed' is left out: no code closes an issue.                          *)
Acked(is) ==
  [i \in Issues |-> IF i \in is
                    THEN [issue[i] EXCEPT !.status = "acknowledged", !.next = "null",
                                          !.handled = TRUE]
                    ELSE issue[i]]

(* Mutants of Acknowledge: the level starts again, or the status is one    *)
(* the enumeration does not have.                                          *)
AcknowledgeResets(is) ==
  /\ \A i \in is : told[i] # {}
  /\ issue' = [i \in Issues |-> IF i \in is THEN [Acked(is)[i] EXCEPT !.level = 0] ELSE issue[i]]
  /\ UNCHANGED <<request, told, tasks, job, faults>>

AcknowledgeAsRead(is) ==
  /\ \A i \in is : told[i] # {}
  /\ issue' = [i \in Issues |-> IF i \in is THEN [Acked(is)[i] EXCEPT !.status = "read"]
                                ELSE issue[i]]
  /\ UNCHANGED <<request, told, tasks, job, faults>>

(* mark_read and mark_notification_answered: somebody who was told reads   *)
(* notifications, of one issue or of several at once, or answers the       *)
(* telephone.  One UPDATE on the stored rows.                              *)
Acknowledge(is) ==
  /\ \A i \in is : told[i] # {}
  /\ issue' = Acked(is)
  /\ UNCHANGED <<request, told, tasks, job, faults>>

(* Time passes the deadline.                                               *)
Elapse(i) ==
  /\ issue[i].next = "later"
  /\ issue' = [issue EXCEPT ![i].next = "due"]
  /\ UNCHANGED <<request, told, tasks, job, faults>>

-----------------------------------------------------------------------------
(* Workers.                                                                *)

(* Mutant of Overdue: issues that escalated before are not looked at.      *)
OverdueOpen == {i \in Issues : issue[i].status = "open" /\ issue[i].next = "due"}

Overdue == {i \in Issues : issue[i].status \in {"open", "escalated"} /\ issue[i].next = "due"}

(* escalate_specific_issue starts; it has nothing to do if the issue is    *)
(* not due, or not due any more.                                           *)
TakeTask(k, i) ==
  /\ job[k] = Idle
  /\ tasks[i] > 0
  /\ tasks' = [tasks EXCEPT ![i] = @ - 1]
  /\ Become(k, IF i \in Overdue
               THEN [kind |-> "task", todo |-> [j \in {i} |-> issue[j]], unsaved |-> None]
               ELSE Idle)
  /\ UNCHANGED <<issue, request, told, faults>>

(* scan_and_escalate reads every overdue issue at once.                    *)
Sweep(k) ==
  /\ job[k] = Idle
  /\ Overdue # {}
  /\ Become(k, [kind |-> "sweep", todo |-> [i \in Overdue |-> issue[i]], unsaved |-> None])
  /\ UNCHANGED <<issue, request, told, tasks, faults>>

(* After the copy of i: the rest of a sweep, or the next deadline's task.  *)
Proceed(k, i, unsaved) ==
  LET rest == Without(job[k].todo, i)
  IN Become(k, IF job[k].kind = "task" /\ Hop(job[k].todo[i]).next = "later"
               THEN [kind |-> "rearm", of |-> i]
               ELSE IF DOMAIN rest = {} THEN Idle
               ELSE [kind |-> job[k].kind, todo |-> rest, unsaved |-> unsaved])

(* The people of the new level are told, and notify's commit saves every   *)
(* change the session made so far.                                         *)
Escalate(k, i) ==
  /\ job[k].kind \in {"task", "sweep"}
  /\ i \in DOMAIN job[k].todo
  /\ LET copy == job[k].todo[i]
     IN /\ Tells(i, copy)
        /\ Commit(With(job[k].unsaved, i, copy))
        /\ told' = [told EXCEPT ![i] = @ \cup {Hop(copy).level}]
  /\ Proceed(k, i, None)
  /\ UNCHANGED <<request, tasks, faults>>

(* Nobody to tell: notify returns before its commit, and the change stays  *)
(* in memory.                                                              *)
EscalateUnheard(k, i) ==
  /\ job[k].kind \in {"task", "sweep"}
  /\ i \in DOMAIN job[k].todo
  /\ ~Tells(i, job[k].todo[i])
  /\ Proceed(k, i, With(job[k].unsaved, i, job[k].todo[i]))
  /\ UNCHANGED <<issue, request, told, tasks, faults>>

(* A task schedules the task of the deadline it has set.                   *)
Rearm(k) ==
  /\ job[k].kind = "rearm"
  /\ Enqueue(job[k].of)
  /\ Become(k, Idle)
  /\ UNCHANGED <<issue, request, told, faults>>

(* Mutant of Fail: the changes made before the failure are saved.          *)
FailUnrolled(k) ==
  /\ job[k].kind \in {"task", "sweep"}
  /\ Faulty
  /\ Commit(job[k].todo)
  /\ Become(k, Idle)
  /\ UNCHANGED <<request, told, tasks>>

(* notify raises and the session rolls back.  The rollback expires every   *)
(* copy of the session, so a sweep ends with its next issue: loading an    *)
(* expired column outside an await raises, before the handler's `try`.     *)
Fail(k) ==
  /\ job[k].kind \in {"task", "sweep"}
  /\ Faulty
  /\ Become(k, Idle)
  /\ UNCHANGED <<issue, request, told, tasks>>

(* The worker process dies: a task that was not acknowledged is delivered  *)
(* again (task_acks_late), a sweep waits for the next beat.                *)
Die(k) ==
  /\ job[k] # Idle
  /\ Faulty
  /\ CASE job[k].kind = "task"  -> \E i \in DOMAIN job[k].todo : Enqueue(i)
       [] job[k].kind = "rearm" -> Enqueue(job[k].of)
       [] OTHER                 -> UNCHANGED tasks
  /\ Become(k, Idle)
  /\ UNCHANGED <<issue, request, told>>

(* The broker loses a scheduled task.                                      *)
Lose(i) ==
  /\ tasks[i] > 0
  /\ Faulty
  /\ tasks' = [tasks EXCEPT ![i] = @ - 1]
  /\ UNCHANGED <<issue, request, told, job>>

-----------------------------------------------------------------------------
Init ==
  /\ issue   = [i \in Issues |-> NoIssue]
  /\ request = [i \in Issues |-> "none"]
  /\ told    = [i \in Issues |-> {}]
  /\ tasks   = [i \in Issues |-> 0]
  /\ job     = [k \in Workers |-> Idle]
  /\ faults  = 0

People(i) == Create(i) \/ Schedule(i) \/ TellEngineers(i) \/ RequestFails(i)

Work(k) == (\E i \in Issues : Escalate(k, i) \/ EscalateUnheard(k, i)) \/ Rearm(k)

Next ==
  \/ \E i \in Issues : People(i) \/ Elapse(i) \/ Lose(i)
  \/ \E is \in (SUBSET Issues) \ {{}} : Acknowledge(is)
  \/ \E k \in Workers : Sweep(k) \/ Work(k) \/ Fail(k) \/ Die(k)
  \/ \E k \in Workers, i \in Issues : TakeTask(k, i)

Spec == Init /\ [][Next]_vars

(* Deadlines pass; a worker goes on with what it took; and the message of  *)
(* the beat's sweep waits in the queue until a worker is free, however     *)
(* many tasks come between.                                                *)
Fairness ==
  /\ \A i \in Issues : WF_vars(Elapse(i))
  /\ \A k \in Workers : WF_vars(Work(k)) /\ SF_vars(Sweep(k))

FairSpec == Spec /\ Fairness

-----------------------------------------------------------------------------
(* Properties.                                                             *)

(* Rows, messages and jobs hold values of their types.                     *)
TypeOK ==
  /\ issue \in [Issues -> Row]
  /\ request \in [Issues -> {"none", "committed", "scheduled", "done"}]
  /\ told \in [Issues -> SUBSET Levels]
  /\ tasks \in [Issues -> 0..MaxTasks]
  /\ job \in [Workers -> Job \cup {Idle}]
  /\ faults \in 0..MaxFaults

(* A level an issue has reached, or passed, was told to its people if it   *)
(* has any: the hop and its notifications are one transaction, whatever    *)
(* fails or overlaps.                                                      *)
EscalatedIsTold ==
  \A i \in Issues : (1..issue[i].level) \cap Staffed[i] \subseteq told[i]

(* An issue that waits for a deadline can still climb and was not last     *)
(* written by an acknowledgement: the sweep never meets an issue that has  *)
(* no rule, which it would find again every minute.                        *)
DeadlineHasRule ==
  \A i \in Issues :
    issue[i].next # "null" => issue[i].level \in Rules /\ issue[i].status # "acknowledged"

(* No write of a stale copy makes an issue skip a level.                   *)
OneLevelAtATime == [][\A i \in Issues : issue'[i].level <= issue[i].level + 1]_issue

Unanswered(i) == issue[i].status # "absent" /\ ~issue[i].handled

(* The purpose of the module: if faults are finitely many, an issue nobody *)
(* acknowledges is told to the general supervisors in the end, provided    *)
(* the levels on the way are staffed.                                      *)
ReachesTheTop ==
  \A i \in Issues : {1, 2} \subseteq Staffed[i] =>
    (Unanswered(i) ~> (2 \in told[i] \/ issue[i].handled))

=============================================================================
