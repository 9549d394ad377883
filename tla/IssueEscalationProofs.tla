------------------------ MODULE IssueEscalationProofs ------------------------
(***************************************************************************)
(* Theorems about IssueEscalation, for any issues, workers, staffing of    *)
(* the levels, and number of tasks and faults.                             *)
(***************************************************************************)
EXTENDS IssueEscalation, TLAPS

USE DEF Rules, Levels

(* An escalated row has left level 0, and an issue nobody has created yet  *)
(* is in no table.                                                         *)
Climbed ==
  \A i \in Issues :
    /\ issue[i].status = "escalated" => issue[i].level >= 1
    /\ request[i] = "none" => issue[i] = NoIssue /\ told[i] = {}

(* A copy was overdue when it was read.  The stored row may have changed   *)
(* since, but it has not fallen below the copy.                            *)
Overtaken(c, row) ==
  /\ c.status \in {"open", "escalated"} /\ c.next = "due" /\ c.level \in Rules
  /\ c.status = "escalated" => c.level >= 1
  /\ c.level <= row.level
  /\ row.status # "absent"

(* Every copy is of that kind, and a change that waits for a commit leads  *)
(* to a level without people.                                              *)
Held(j) ==
  j.kind \in {"task", "sweep"} =>
    /\ \A i \in DOMAIN j.todo : Overtaken(j.todo[i], issue[i])
    /\ \A i \in DOMAIN j.unsaved : /\ Overtaken(j.unsaved[i], issue[i])
                                   /\ j.unsaved[i].level + 1 \notin Staffed[i]

(* The inductive invariant.                                                *)
Inv ==
  /\ TypeOK
  /\ Climbed
  /\ EscalatedIsTold
  /\ DeadlineHasRule
  /\ \A k \in Workers : Held(job[k])

-----------------------------------------------------------------------------
(* Sets of copies.                                                         *)

(* How a set of copies is shown to be one.                                 *)
LEMMA CopiesAre ==
  ASSUME NEW f, NEW S \in SUBSET Issues, f \in [S -> Row]
  PROVE  f \in Copies
BY DEF Copies

(* What a set of copies holds.                                             *)
LEMMA CopiesHold ==
  ASSUME NEW f \in Copies
  PROVE  DOMAIN f \subseteq Issues /\ f \in [DOMAIN f -> Row]
BY DEF Copies

(* Adding a copy, or replacing one.                                        *)
LEMMA WithIsCopies ==
  ASSUME NEW f \in Copies, NEW i \in Issues, NEW c \in Row
  PROVE  /\ With(f, i, c) \in Copies
         /\ DOMAIN With(f, i, c) = DOMAIN f \cup {i}
         /\ \A j \in DOMAIN f \cup {i} : With(f, i, c)[j] = IF j = i THEN c ELSE f[j]
<1>1. With(f, i, c) \in [DOMAIN f \cup {i} -> Row]
  BY CopiesHold DEF With
<1>2. DOMAIN f \cup {i} \in SUBSET Issues
  BY CopiesHold
<1>3. QED
  BY <1>1, <1>2, CopiesAre DEF With

(* Dropping a copy.                                                        *)
LEMMA WithoutIsCopies ==
  ASSUME NEW f \in Copies, NEW i
  PROVE  /\ Without(f, i) \in Copies
         /\ DOMAIN Without(f, i) = DOMAIN f \ {i}
         /\ \A j \in DOMAIN f \ {i} : Without(f, i)[j] = f[j]
<1>1. Without(f, i) \in [DOMAIN f \ {i} -> Row]
  BY CopiesHold DEF Without
<1>2. DOMAIN f \ {i} \in SUBSET Issues
  BY CopiesHold
<1>3. QED
  BY <1>1, <1>2, CopiesAre DEF Without

(* No copies at all.                                                       *)
LEMMA NoneIsCopies == None \in Copies /\ DOMAIN None = {}
<1>1. None \in [{} -> Row]
  BY DEF None
<1>2. QED
  BY <1>1, CopiesAre DEF None

(* A worker that is in the middle of hops holds copies.                    *)
LEMMA WorkingJob ==
  ASSUME TypeOK, NEW k \in Workers, job[k].kind \in {"task", "sweep"}
  PROVE  /\ job[k].todo \in Copies /\ job[k].unsaved \in Copies
         /\ job[k] = [kind |-> job[k].kind, todo |-> job[k].todo, unsaved |-> job[k].unsaved]
BY DEF TypeOK, Job, Idle

(* A worker that schedules a task does it for an issue.                    *)
LEMMA RearmingJob ==
  ASSUME TypeOK, NEW k \in Workers, job[k].kind = "rearm"
  PROVE  job[k].of \in Issues
BY DEF TypeOK, Job, Idle

-----------------------------------------------------------------------------
(* Hops.                                                                   *)

(* A hop from a level with a rule goes one level up.                       *)
LEMMA HopOfOverdue ==
  ASSUME NEW c \in Row, c.level \in Rules
  PROVE  /\ Hop(c) \in Row
         /\ Hop(c).level = c.level + 1
         /\ Hop(c).status = "escalated"
         /\ Hop(c).next = IF c.level = 0 THEN "later" ELSE "null"
BY DEF Hop, Row

(* The row a commit leaves, whatever the row and the copy were.            *)
LEMMA MergeType ==
  ASSUME NEW r \in Row, NEW c \in Row
  PROVE  Merge(r, c) \in Row
<1>1. c.level \in 0..2
  BY DEF Row
<1>2. Hop(c) \in Row
  BY <1>1 DEF Hop, Row
<1>3. QED
  BY <1>2 DEF Merge, Dirty, Row

(* Committing the hop of a copy that is overtaken: the level after the     *)
(* copy's, with its deadline.                                              *)
LEMMA MergeRow ==
  ASSUME NEW r \in Row, NEW c \in Row, Overtaken(c, r)
  PROVE  /\ Merge(r, c).level = c.level + 1
         /\ Merge(r, c).next = IF c.level = 0 THEN "later" ELSE "null"
         /\ Merge(r, c).status \in {"escalated", r.status}
         /\ c.level = 0 => Merge(r, c).status = "escalated"
<1>1. Hop(c) \in Row /\ Hop(c).level = c.level + 1 /\ Hop(c).status = "escalated"
      /\ Hop(c).next = IF c.level = 0 THEN "later" ELSE "null"
  BY HopOfOverdue DEF Overtaken
<1>2. c.level \in Nat
  BY DEF Row
<1>3. QED
  BY <1>1, <1>2 DEF Merge, Dirty, Row, Overtaken

-----------------------------------------------------------------------------
(* Types.                                                                  *)

(* Writing one row preserves the type of the rows.                         *)
LEMMA RowUpdate ==
  ASSUME TypeOK, NEW i \in Issues, NEW r \in Row, issue' = [issue EXCEPT ![i] = r]
  PROVE  issue' \in [Issues -> Row]
BY DEF TypeOK

(* A worker that changes its job preserves the type of the jobs.           *)
LEMMA JobUpdate ==
  ASSUME TypeOK, NEW k \in Workers, NEW j \in Job \cup {Idle}, Become(k, j)
  PROVE  job' \in [Workers -> Job \cup {Idle}]
BY DEF TypeOK, Become

(* Sending a task keeps the queue in its bounds.                           *)
LEMMA EnqueueType ==
  ASSUME TypeOK, NEW i \in Issues, Enqueue(i)
  PROVE  tasks' \in [Issues -> 0..MaxTasks]
BY BoundsAssumption DEF TypeOK, Enqueue

(* A fault keeps the count of faults in its bounds.                        *)
LEMMA FaultyType ==
  ASSUME TypeOK, Faulty
  PROVE  faults' \in 0..MaxFaults
BY BoundsAssumption DEF TypeOK, Faulty

(* The row of an issue that is acknowledged with others.                   *)
LEMMA AckedRow ==
  ASSUME TypeOK, NEW is \in SUBSET Issues, NEW i \in is
  PROVE  /\ Acked(is)[i] \in Row
         /\ Acked(is)[i].status = "acknowledged" /\ Acked(is)[i].next = "null"
         /\ Acked(is)[i].level = issue[i].level /\ Acked(is)[i].handled
<1>1. issue[i] \in Row
  BY DEF TypeOK
<1>2. Acked(is)[i] = [issue[i] EXCEPT !.status = "acknowledged", !.next = "null",
                                      !.handled = TRUE]
  BY DEF Acked
<1>3. QED
  BY <1>1, <1>2 DEF Row

(* Committing any copies preserves the type of the rows.                   *)
LEMMA CommitType ==
  ASSUME TypeOK, NEW f \in Copies, Commit(f)
  PROVE  issue' \in [Issues -> Row]
<1>1. ASSUME NEW i \in Issues
      PROVE  (IF i \in DOMAIN f THEN Merge(issue[i], f[i]) ELSE issue[i]) \in Row
  BY MergeType, CopiesHold DEF TypeOK
<1>2. QED
  BY <1>1 DEF Commit

(* What a worker holds after the hop of i.                                 *)
LEMMA ProceedJob ==
  ASSUME TypeOK, NEW k \in Workers, NEW i \in Issues, NEW f \in Copies,
         job[k].kind \in {"task", "sweep"}, Proceed(k, i, f)
  PROVE  \E j \in Job \cup {Idle} :
           /\ Become(k, j)
           /\ j.kind \in {"task", "sweep"} =>
                j.todo = Without(job[k].todo, i) /\ j.unsaved = f
<1> DEFINE rest == Without(job[k].todo, i)
           next == [kind |-> job[k].kind, todo |-> rest, unsaved |-> f]
<1>1. rest \in Copies
  BY WorkingJob, WithoutIsCopies
<1>2. next \in Job
  BY <1>1 DEF Job
<1>3. CASE job[k].kind = "task" /\ Hop(job[k].todo[i]).next = "later"
  <2>1. [kind |-> "rearm", of |-> i] \in Job
    BY DEF Job
  <2>2. Become(k, [kind |-> "rearm", of |-> i])
    BY <1>3 DEF Proceed
  <2>3. QED
    BY <2>1, <2>2
<1>4. CASE ~(job[k].kind = "task" /\ Hop(job[k].todo[i]).next = "later") /\ DOMAIN rest = {}
  <2>1. Become(k, Idle) /\ Idle.kind = "idle"
    BY <1>4 DEF Proceed, Idle
  <2>2. QED
    BY <2>1
<1>5. CASE ~(job[k].kind = "task" /\ Hop(job[k].todo[i]).next = "later") /\ DOMAIN rest # {}
  <2>1. Become(k, next)
    BY <1>5 DEF Proceed
  <2>2. QED
    BY <1>2, <2>1
<1>6. QED
  BY <1>3, <1>4, <1>5

(* Every step keeps the types.                                             *)
LEMMA TypeStep ==
  ASSUME TypeOK, [Next]_vars
  PROVE  TypeOK'
<1> USE DEF People, Work
<1>1. CASE UNCHANGED vars
  BY <1>1 DEF TypeOK, vars
<1>2. ASSUME NEW i \in Issues, Create(i)
      PROVE  TypeOK'
  BY <1>2 DEF Create, TypeOK, Row
<1>3. ASSUME NEW i \in Issues, Schedule(i)
      PROVE  TypeOK'
  BY <1>3, EnqueueType DEF Schedule, TypeOK
<1>4. ASSUME NEW i \in Issues, TellEngineers(i)
      PROVE  TypeOK'
  BY <1>4 DEF TellEngineers, TypeOK
<1>5. ASSUME NEW i \in Issues, RequestFails(i)
      PROVE  TypeOK'
  BY <1>5, FaultyType DEF RequestFails, TypeOK
<1>6. ASSUME NEW is \in SUBSET Issues, Acknowledge(is)
      PROVE  TypeOK'
  <2>1. \A i \in Issues : Acked(is)[i] \in Row
    <3>1. \A i \in is : Acked(is)[i] \in Row
      BY AckedRow
    <3>2. \A i \in Issues \ is : Acked(is)[i] \in Row
      BY DEF Acked, TypeOK
    <3>3. QED
      BY <3>1, <3>2
  <2>2. issue' \in [Issues -> Row]
    BY <1>6, <2>1 DEF Acknowledge, Acked
  <2>3. QED
    BY <1>6, <2>2 DEF Acknowledge, TypeOK
<1>7. ASSUME NEW i \in Issues, Elapse(i)
      PROVE  TypeOK'
  BY <1>7 DEF Elapse, TypeOK, Row
<1>8. ASSUME NEW i \in Issues, Lose(i)
      PROVE  TypeOK'
  BY <1>8, FaultyType, BoundsAssumption DEF Lose, TypeOK
<1>9. ASSUME NEW k \in Workers, Sweep(k)
      PROVE  TypeOK'
  <2>1. [i \in Overdue |-> issue[i]] \in Copies
    <3>1. [i \in Overdue |-> issue[i]] \in [Overdue -> Row] /\ Overdue \in SUBSET Issues
      BY DEF Overdue, TypeOK
    <3>2. QED
      BY <3>1, CopiesAre
  <2>2. [kind |-> "sweep", todo |-> [i \in Overdue |-> issue[i]], unsaved |-> None] \in Job
    BY <2>1, NoneIsCopies DEF Job
  <2>3. QED
    BY <1>9, <2>2, JobUpdate DEF Sweep, TypeOK
<1>10. ASSUME NEW k \in Workers, NEW i \in Issues, TakeTask(k, i)
       PROVE  TypeOK'
  <2>1. [j \in {i} |-> issue[j]] \in Copies
    <3>1. [j \in {i} |-> issue[j]] \in [{i} -> Row]
      BY DEF TypeOK
    <3>2. QED
      BY <3>1, CopiesAre
  <2>2. [kind |-> "task", todo |-> [j \in {i} |-> issue[j]], unsaved |-> None] \in Job
    BY <2>1, NoneIsCopies DEF Job
  <2>3. job' \in [Workers -> Job \cup {Idle}]
    BY <1>10, <2>2, JobUpdate DEF TakeTask
  <2>4. tasks' \in [Issues -> 0..MaxTasks]
    BY <1>10, BoundsAssumption DEF TakeTask, TypeOK
  <2>5. QED
    BY <1>10, <2>3, <2>4 DEF TakeTask, TypeOK
<1>11. ASSUME NEW k \in Workers, NEW i \in Issues, Escalate(k, i)
       PROVE  TypeOK'
  <2> DEFINE copy == job[k].todo[i]
  <2>1. copy \in Row /\ job[k].unsaved \in Copies
    BY <1>11, WorkingJob, CopiesHold DEF Escalate
  <2>2. With(job[k].unsaved, i, copy) \in Copies
    BY <2>1, WithIsCopies
  <2>3. issue' \in [Issues -> Row]
    BY <1>11, <2>2, CommitType DEF Escalate
  <2>4. job' \in [Workers -> Job \cup {Idle}]
    BY <1>11, NoneIsCopies, ProceedJob, JobUpdate DEF Escalate
  <2>5. Hop(copy).level \in Levels
    BY <1>11, <2>1, HopOfOverdue DEF Escalate, Tells, Row
  <2>6. told' \in [Issues -> SUBSET Levels]
    BY <1>11, <2>5 DEF Escalate, TypeOK
  <2>7. QED
    BY <1>11, <2>3, <2>4, <2>6 DEF Escalate, TypeOK
<1>12. ASSUME NEW k \in Workers, NEW i \in Issues, EscalateUnheard(k, i)
       PROVE  TypeOK'
  <2> DEFINE copy == job[k].todo[i]
  <2>1. copy \in Row /\ job[k].unsaved \in Copies
    BY <1>12, WorkingJob, CopiesHold DEF EscalateUnheard
  <2>2. With(job[k].unsaved, i, copy) \in Copies
    BY <2>1, WithIsCopies
  <2>3. job' \in [Workers -> Job \cup {Idle}]
    BY <1>12, <2>2, ProceedJob, JobUpdate DEF EscalateUnheard
  <2>4. QED
    BY <1>12, <2>3 DEF EscalateUnheard, TypeOK
<1>13. ASSUME NEW k \in Workers, Rearm(k)
       PROVE  TypeOK'
  BY <1>13, RearmingJob, EnqueueType, JobUpdate DEF Rearm, TypeOK
<1>14. ASSUME NEW k \in Workers, Fail(k)
       PROVE  TypeOK'
  BY <1>14, FaultyType, JobUpdate DEF Fail, TypeOK
<1>15. ASSUME NEW k \in Workers, Die(k)
       PROVE  TypeOK'
  <2>1. CASE job[k].kind = "task"
    <3>1. PICK i \in DOMAIN job[k].todo : Enqueue(i)
      BY <1>15, <2>1 DEF Die
    <3>2. i \in Issues
      BY <2>1, WorkingJob, CopiesHold
    <3>3. QED
      BY <1>15, <3>1, <3>2, EnqueueType, FaultyType, JobUpdate DEF Die, TypeOK
  <2>2. CASE job[k].kind = "rearm"
    <3>1. Enqueue(job[k].of) /\ job[k].of \in Issues
      BY <1>15, <2>2, RearmingJob DEF Die
    <3>2. QED
      BY <1>15, <3>1, EnqueueType, FaultyType, JobUpdate DEF Die, TypeOK
  <2>3. CASE job[k].kind \notin {"task", "rearm"}
    BY <1>15, <2>3, FaultyType, JobUpdate DEF Die, TypeOK
  <2>4. QED
    BY <2>1, <2>2, <2>3
<1>16. QED
  BY <1>1, <1>2, <1>3, <1>4, <1>5, <1>6, <1>7, <1>8, <1>9, <1>10, <1>11, <1>12, <1>13,
     <1>14, <1>15 DEF Next

-----------------------------------------------------------------------------
(* The invariant.                                                          *)

(* An issue in the table stays there, and its level falls to 1 at least.   *)
Grows(old, new) ==
  old.status # "absent" =>
    /\ new.status # "absent"
    /\ new.level >= old.level \/ new.level >= 1

(* A row that only grows leaves a copy overtaken.                          *)
LEMMA OvertakenKept ==
  ASSUME NEW c, NEW old \in Row, NEW new \in Row, Overtaken(c, old), Grows(old, new)
  PROVE  Overtaken(c, new)
BY DEF Overtaken, Grows, Row

(* A worker that does not move keeps copies of that kind, whatever the     *)
(* others commit.                                                          *)
LEMMA HeldKept ==
  ASSUME TypeOK, TypeOK', \A i \in Issues : Grows(issue[i], issue'[i]),
         NEW k \in Workers, Held(job[k]), job'[k] = job[k]
  PROVE  Held(job[k])'
<1> SUFFICES ASSUME job[k].kind \in {"task", "sweep"}
             PROVE  /\ \A i \in DOMAIN job[k].todo : Overtaken(job[k].todo[i], issue'[i])
                    /\ \A i \in DOMAIN job[k].unsaved :
                         /\ Overtaken(job[k].unsaved[i], issue'[i])
                         /\ job[k].unsaved[i].level + 1 \notin Staffed[i]
  BY DEF Held
<1>1. DOMAIN job[k].todo \subseteq Issues /\ DOMAIN job[k].unsaved \subseteq Issues
  BY WorkingJob, CopiesHold
<1>2. \A i \in Issues : issue[i] \in Row /\ issue'[i] \in Row
  BY DEF TypeOK
<1>3. QED
  BY <1>1, <1>2, OvertakenKept DEF Held

(* Commits of copies of that kind: a level is told before it is stored, a  *)
(* deadline is set at level 1 only, and no level is skipped.               *)
LEMMA CommitStep ==
  ASSUME Inv, TypeOK', NEW f \in Copies, Commit(f),
         \A i \in DOMAIN f : Overtaken(f[i], issue[i]),
         \A i \in DOMAIN f : f[i].level + 1 \in Staffed[i] => f[i].level + 1 \in told'[i],
         \A i \in Issues : told[i] \subseteq told'[i],
         \A i \in Issues \ DOMAIN f : told'[i] = told[i],
         request' = request
  PROVE  /\ Climbed' /\ EscalatedIsTold' /\ DeadlineHasRule'
         /\ \A i \in Issues : Grows(issue[i], issue'[i])
         /\ \A i \in Issues : issue'[i].level <= issue[i].level + 1
<1>1. ASSUME NEW i \in DOMAIN f
      PROVE  /\ i \in Issues /\ f[i] \in Row /\ issue[i] \in Row
             /\ issue'[i].level = f[i].level + 1
             /\ issue'[i].next = IF f[i].level = 0 THEN "later" ELSE "null"
             /\ issue'[i].status \in {"escalated", issue[i].status}
             /\ f[i].level = 0 => issue'[i].status = "escalated"
             /\ request[i] # "none"
  <2>1. i \in Issues /\ f[i] \in Row /\ issue[i] \in Row
    BY CopiesHold DEF Inv, TypeOK
  <2>2. issue'[i] = Merge(issue[i], f[i])
    BY <2>1 DEF Commit
  <2>3. request[i] # "none"
    BY <2>1 DEF Inv, Climbed, Overtaken, NoIssue
  <2>4. QED
    BY <2>1, <2>2, <2>3, MergeRow
<1>2. ASSUME NEW i \in Issues \ DOMAIN f
      PROVE  issue'[i] = issue[i] /\ told'[i] = told[i]
  BY DEF Commit
<1>3. \A i \in Issues : issue[i] \in Row /\ issue'[i] \in Row
  BY DEF Inv, TypeOK
<1>4. Climbed'
  BY <1>1, <1>2 DEF Inv, Climbed, Overtaken, Row
<1>5. EscalatedIsTold'
  <2> SUFFICES ASSUME NEW i \in Issues, NEW l \in 1..issue'[i].level, l \in Staffed[i]
               PROVE  l \in told'[i]
    BY DEF EscalatedIsTold
  <2>1. CASE i \notin DOMAIN f
    BY <1>2, <2>1 DEF Inv, EscalatedIsTold
  <2>2. CASE i \in DOMAIN f /\ l = f[i].level + 1
    BY <2>2
  <2>3. CASE i \in DOMAIN f /\ l # f[i].level + 1
    <3>1. l \in 1..issue[i].level
      BY <1>1, <2>3 DEF Overtaken, Row
    <3>2. QED
      BY <3>1 DEF Inv, EscalatedIsTold
  <2>4. QED
    BY <2>1, <2>2, <2>3
<1>6. DeadlineHasRule'
  BY <1>1, <1>2 DEF Inv, DeadlineHasRule, Overtaken, Row
<1>7. \A i \in Issues : Grows(issue[i], issue'[i])
  BY <1>1, <1>2, <1>3 DEF Grows, Overtaken, Row
<1>8. \A i \in Issues : issue'[i].level <= issue[i].level + 1
  BY <1>1, <1>2, <1>3 DEF Overtaken, Row
<1>9. QED
  BY <1>4, <1>5, <1>6, <1>7, <1>8

(* While no worker moves, all keep copies of their kind.                   *)
LEMMA AllHeldKept ==
  ASSUME Inv, TypeOK', \A i \in Issues : Grows(issue[i], issue'[i]), job' = job
  PROVE  \A k \in Workers : Held(job[k])'
<1>1. ASSUME NEW k \in Workers
      PROVE  Held(job[k])'
  BY HeldKept DEF Inv
<1>2. QED
  BY <1>1

(* One worker moves on with j.                                             *)
LEMMA HeldUpdate ==
  ASSUME Inv, TypeOK', \A i \in Issues : Grows(issue[i], issue'[i]),
         NEW k \in Workers, NEW j, Become(k, j),
         j.kind \in {"task", "sweep"} =>
           /\ \A i \in DOMAIN j.todo : Overtaken(j.todo[i], issue'[i])
           /\ \A i \in DOMAIN j.unsaved : /\ Overtaken(j.unsaved[i], issue'[i])
                                          /\ j.unsaved[i].level + 1 \notin Staffed[i]
  PROVE  \A other \in Workers : Held(job[other])'
<1>1. ASSUME NEW other \in Workers, other # k
      PROVE  Held(job[other])'
  <2>1. job'[other] = job[other]
    BY <1>1 DEF Become, Inv, TypeOK
  <2>2. QED
    BY <2>1, HeldKept DEF Inv
<1>2. job'[k] = j
  BY DEF Become, Inv, TypeOK
<1>3. Held(job[k])'
  BY <1>2 DEF Held
<1>4. QED
  BY <1>1, <1>3

(* Where no row changes, every row grows.                                  *)
LEMMA Unmoved ==
  ASSUME Inv, issue' = issue
  PROVE  /\ \A i \in Issues : Grows(issue[i], issue'[i])
         /\ \A i \in Issues : issue'[i].level <= issue[i].level + 1
BY DEF Grows, Inv, TypeOK, Row

(* A row that is overdue has not been overtaken yet.                       *)
LEMMA JustRead ==
  ASSUME Inv, NEW i \in Overdue
  PROVE  i \in Issues /\ Overtaken(issue[i], issue[i])
BY DEF Inv, Overdue, Overtaken, Climbed, DeadlineHasRule, TypeOK, Row

(* The copies of a worker in the middle of hops, one of which it takes up. *)
LEMMA HopInHand ==
  ASSUME Inv, NEW k \in Workers, NEW i \in Issues,
         job[k].kind \in {"task", "sweep"}, i \in DOMAIN job[k].todo
  PROVE  /\ job[k].todo[i] \in Row /\ job[k].todo \in Copies /\ job[k].unsaved \in Copies
         /\ Overtaken(job[k].todo[i], issue[i])
         /\ Hop(job[k].todo[i]).level = job[k].todo[i].level + 1
         /\ \A j \in DOMAIN Without(job[k].todo, i) :
              j \in Issues /\ Overtaken(Without(job[k].todo, i)[j], issue[j])
         /\ LET mine == With(job[k].unsaved, i, job[k].todo[i])
            IN /\ mine \in Copies
               /\ DOMAIN mine = DOMAIN job[k].unsaved \cup {i}
               /\ mine[i] = job[k].todo[i]
               /\ \A j \in DOMAIN mine : j \in Issues /\ Overtaken(mine[j], issue[j])
               /\ \A j \in DOMAIN mine \ {i} : mine[j].level + 1 \notin Staffed[j]
<1>1. job[k].todo[i] \in Row /\ job[k].todo \in Copies /\ job[k].unsaved \in Copies
      /\ DOMAIN job[k].todo \subseteq Issues /\ DOMAIN job[k].unsaved \subseteq Issues
  BY WorkingJob, CopiesHold DEF Inv
<1>2. /\ \A j \in DOMAIN job[k].todo : Overtaken(job[k].todo[j], issue[j])
      /\ \A j \in DOMAIN job[k].unsaved : /\ Overtaken(job[k].unsaved[j], issue[j])
                                          /\ job[k].unsaved[j].level + 1 \notin Staffed[j]
  <2>1. Held(job[k])
    BY DEF Inv
  <2>2. QED
    BY <2>1 DEF Held
<1>3. Hop(job[k].todo[i]).level = job[k].todo[i].level + 1
  BY <1>1, <1>2, HopOfOverdue DEF Overtaken
<1>4. \A j \in DOMAIN Without(job[k].todo, i) :
        j \in Issues /\ Overtaken(Without(job[k].todo, i)[j], issue[j])
  <2>1. /\ DOMAIN Without(job[k].todo, i) = DOMAIN job[k].todo \ {i}
        /\ \A j \in DOMAIN job[k].todo \ {i} : Without(job[k].todo, i)[j] = job[k].todo[j]
    BY <1>1, WithoutIsCopies
  <2>2. QED
    BY <1>1, <1>2, <2>1
<1> DEFINE mine == With(job[k].unsaved, i, job[k].todo[i])
<1>5. /\ mine \in Copies
      /\ DOMAIN mine = DOMAIN job[k].unsaved \cup {i}
      /\ \A j \in DOMAIN job[k].unsaved \cup {i} :
           mine[j] = IF j = i THEN job[k].todo[i] ELSE job[k].unsaved[j]
  <2>1. mine \in [DOMAIN job[k].unsaved \cup {i} -> Row]
    BY <1>1, CopiesHold DEF With
  <2>2. mine \in Copies
    BY <1>1, <2>1, CopiesAre
  <2>3. QED
    BY <2>1, <2>2 DEF With
<1>6. \A j \in DOMAIN mine : j \in Issues /\ Overtaken(mine[j], issue[j])
  BY <1>1, <1>2, <1>5
<1>7. \A j \in DOMAIN mine \ {i} : mine[j].level + 1 \notin Staffed[j]
  BY <1>2, <1>5
<1>8. QED
  BY <1>1, <1>2, <1>3, <1>4, <1>5, <1>6, <1>7

(* A step that leaves the table alone leaves what was told alone too.      *)
LEMMA TableUnmoved ==
  ASSUME Inv, TypeOK', issue' = issue, told' = told,
         \A i \in Issues : request'[i] = "none" => request[i] = "none",
         \A k \in Workers : Held(job[k])'
  PROVE  Inv' /\ \A i \in Issues : issue'[i].level <= issue[i].level + 1
<1>1. Climbed' /\ EscalatedIsTold' /\ DeadlineHasRule'
  BY DEF Inv, Climbed, EscalatedIsTold, DeadlineHasRule
<1>2. QED
  BY <1>1, Unmoved DEF Inv

(* A hop, heard or unheard, preserves the invariant and lifts an issue by  *)
(* one level at most.                                                      *)
LEMMA HopStep ==
  ASSUME Inv, TypeOK', NEW k \in Workers, NEW i \in Issues,
         Escalate(k, i) \/ EscalateUnheard(k, i)
  PROVE  Inv' /\ \A j \in Issues : issue'[j].level <= issue[j].level + 1
<1> DEFINE copy == job[k].todo[i]
           mine == With(job[k].unsaved, i, copy)
<1>0. /\ job[k].kind \in {"task", "sweep"} /\ i \in DOMAIN job[k].todo
      /\ request' = request
  BY DEF Escalate, EscalateUnheard
<1>1. /\ copy \in Row /\ Hop(copy).level = copy.level + 1 /\ copy.level \in Rules
      /\ mine \in Copies /\ mine[i] = copy
      /\ \A j \in DOMAIN mine : j \in Issues /\ Overtaken(mine[j], issue[j])
      /\ \A j \in DOMAIN mine \ {i} : mine[j].level + 1 \notin Staffed[j]
      /\ \A j \in DOMAIN Without(job[k].todo, i) :
           j \in Issues /\ Overtaken(Without(job[k].todo, i)[j], issue[j])
  <2>1. Overtaken(copy, issue[i])
    BY <1>0, HopInHand
  <2>2. QED
    BY <1>0, <2>1, HopInHand DEF Overtaken
<1>2. CASE Escalate(k, i)
  <2>1. /\ Commit(mine) /\ Proceed(k, i, None)
        /\ told' = [told EXCEPT ![i] = @ \cup {copy.level + 1}]
    BY <1>1, <1>2 DEF Escalate
  <2>2. /\ \A j \in Issues : told[j] \subseteq told'[j]
        /\ \A j \in Issues \ DOMAIN mine : told'[j] = told[j]
        /\ copy.level + 1 \in told'[i]
    <3>1. i \in DOMAIN mine
      BY DEF With
    <3>2. QED
      BY <2>1, <3>1 DEF Inv, TypeOK
  <2>3. \A j \in DOMAIN mine : mine[j].level + 1 \in Staffed[j] => mine[j].level + 1 \in told'[j]
    BY <1>1, <2>2
  <2>4. /\ Climbed' /\ EscalatedIsTold' /\ DeadlineHasRule'
        /\ \A j \in Issues : Grows(issue[j], issue'[j])
        /\ \A j \in Issues : issue'[j].level <= issue[j].level + 1
    BY <1>0, <1>1, <2>1, <2>2, <2>3, CommitStep
  <2>5. PICK next \in Job \cup {Idle} :
          /\ Become(k, next)
          /\ next.kind \in {"task", "sweep"} =>
               next.todo = Without(job[k].todo, i) /\ next.unsaved = None
    BY <1>0, <2>1, NoneIsCopies, ProceedJob DEF Inv
  <2>6. \A j \in DOMAIN Without(job[k].todo, i) :
          Overtaken(Without(job[k].todo, i)[j], issue'[j])
    BY <1>1, <2>4, OvertakenKept DEF Inv, TypeOK
  <2>7. \A other \in Workers : Held(job[other])'
    BY <2>4, <2>5, <2>6, NoneIsCopies, HeldUpdate
  <2>8. QED
    BY <2>4, <2>7 DEF Inv
<1>3. CASE EscalateUnheard(k, i)
  <2>1. Proceed(k, i, mine) /\ issue' = issue /\ told' = told
    BY <1>3 DEF EscalateUnheard
  <2>2. copy.level + 1 \notin Staffed[i]
    BY <1>1, <1>3 DEF EscalateUnheard, Tells
  <2>3. \A j \in DOMAIN mine : mine[j].level + 1 \notin Staffed[j]
    BY <1>1, <2>2
  <2>4. PICK next \in Job \cup {Idle} :
          /\ Become(k, next)
          /\ next.kind \in {"task", "sweep"} =>
               next.todo = Without(job[k].todo, i) /\ next.unsaved = mine
    BY <1>0, <1>1, <2>1, ProceedJob DEF Inv
  <2>5. \A other \in Workers : Held(job[other])'
    BY <1>1, <2>1, <2>3, <2>4, Unmoved, HeldUpdate
  <2>6. QED
    BY <1>0, <2>1, <2>5, TableUnmoved
<1>4. QED
  BY <1>2, <1>3

(* Every step keeps the invariant, and no step skips a level.              *)
LEMMA InvStep ==
  ASSUME Inv, [Next]_vars
  PROVE  Inv' /\ \A i \in Issues : issue'[i].level <= issue[i].level + 1
<1> DEFINE Goal == Inv' /\ \A i \in Issues : issue'[i].level <= issue[i].level + 1
<1> USE DEF People, Work
<1>0. TypeOK'
  BY TypeStep DEF Inv
<1>1. CASE issue' = issue /\ told' = told /\ request' = request /\ job' = job
  BY <1>0, <1>1, Unmoved, AllHeldKept, TableUnmoved
<1>2. ASSUME NEW i \in Issues, Create(i)
      PROVE  Goal
  <2>1. /\ issue[i] = NoIssue /\ told[i] = {} /\ issue[i].status = "absent"
        /\ issue'[i] = [status |-> "open", level |-> 0, next |-> "later", handled |-> FALSE]
        /\ \A j \in Issues \ {i} : issue'[j] = issue[j] /\ request'[j] = request[j]
        /\ request'[i] = "committed" /\ told' = told /\ job' = job
    BY <1>2 DEF Create, Inv, Climbed, TypeOK, NoIssue
  <2>2. Climbed' /\ DeadlineHasRule'
    BY <2>1 DEF Inv, Climbed, DeadlineHasRule
  <2>3. EscalatedIsTold'
    BY <2>1 DEF Inv, EscalatedIsTold
  <2>4. \A j \in Issues : Grows(issue[j], issue'[j])
    BY <2>1 DEF Grows, Inv, TypeOK, Row
  <2>5. \A k \in Workers : Held(job[k])'
    BY <1>0, <2>1, <2>4, AllHeldKept
  <2>6. \A j \in Issues : issue'[j].level <= issue[j].level + 1
    BY <2>1 DEF Inv, TypeOK, Row, NoIssue
  <2>7. QED
    BY <1>0, <2>2, <2>3, <2>5, <2>6 DEF Inv
<1>3. ASSUME NEW i \in Issues, Schedule(i) \/ RequestFails(i)
      PROVE  Goal
  <2>1. issue' = issue /\ told' = told /\ job' = job
        /\ \A j \in Issues : request'[j] = "none" => request[j] = "none"
    BY <1>3 DEF Schedule, RequestFails, Inv, TypeOK
  <2>2. QED
    BY <1>0, <2>1, Unmoved, AllHeldKept, TableUnmoved
<1>4. ASSUME NEW i \in Issues, TellEngineers(i)
      PROVE  Goal
  <2>1. /\ issue' = issue /\ job' = job
        /\ request[i] # "none" /\ request'[i] # "none"
        /\ \A j \in Issues \ {i} : request'[j] = request[j] /\ told'[j] = told[j]
        /\ \A j \in Issues : told[j] \subseteq told'[j]
    BY <1>4 DEF TellEngineers, Inv, TypeOK
  <2>2. Climbed' /\ DeadlineHasRule' /\ EscalatedIsTold'
    BY <2>1 DEF Inv, Climbed, DeadlineHasRule, EscalatedIsTold
  <2>3. QED
    BY <1>0, <2>1, <2>2, Unmoved, AllHeldKept DEF Inv
<1>5. ASSUME NEW i \in Issues, Elapse(i)
      PROVE  Goal
  <2>1. /\ told' = told /\ request' = request /\ job' = job
        /\ \A j \in Issues \ {i} : issue'[j] = issue[j]
        /\ issue'[i].level = issue[i].level
        /\ issue'[i].status = issue[i].status /\ issue[i].next = "later"
        /\ request[i] # "none"
    BY <1>5 DEF Elapse, Inv, TypeOK, Row, Climbed, NoIssue
  <2>2. Climbed' /\ DeadlineHasRule' /\ EscalatedIsTold'
    BY <2>1 DEF Inv, Climbed, DeadlineHasRule, EscalatedIsTold
  <2>3. \A j \in Issues : Grows(issue[j], issue'[j]) /\ issue'[j].level <= issue[j].level + 1
    BY <1>0, <2>1 DEF Grows, Inv, TypeOK, Row
  <2>4. QED
    BY <1>0, <2>1, <2>2, <2>3, AllHeldKept DEF Inv
<1>6. ASSUME NEW i \in Issues, Lose(i)
      PROVE  Goal
  BY <1>1, <1>6 DEF Lose
<1>7. ASSUME NEW k \in Workers, Sweep(k)
      PROVE  Goal
  <2> DEFINE next == [kind |-> "sweep", todo |-> [i \in Overdue |-> issue[i]], unsaved |-> None]
  <2>1. Become(k, next) /\ issue' = issue /\ told' = told /\ request' = request
    BY <1>7 DEF Sweep
  <2>2. \A i \in DOMAIN next.todo : Overtaken(next.todo[i], issue'[i])
    BY <2>1, JustRead
  <2>3. \A other \in Workers : Held(job[other])'
    BY <1>0, <2>1, <2>2, NoneIsCopies, Unmoved, HeldUpdate
  <2>4. QED
    BY <1>0, <2>1, <2>3, TableUnmoved
<1>8. ASSUME NEW k \in Workers, NEW i \in Issues, TakeTask(k, i)
      PROVE  Goal
  <2> DEFINE next == IF i \in Overdue
                     THEN [kind |-> "task", todo |-> [j \in {i} |-> issue[j]], unsaved |-> None]
                     ELSE Idle
  <2>1. Become(k, next) /\ issue' = issue /\ told' = told /\ request' = request
    BY <1>8 DEF TakeTask
  <2>2. next.kind \in {"task", "sweep"} =>
          /\ \A j \in DOMAIN next.todo : Overtaken(next.todo[j], issue'[j])
          /\ next.unsaved = None
    BY <2>1, JustRead DEF Idle
  <2>3. \A other \in Workers : Held(job[other])'
    BY <1>0, <2>1, <2>2, NoneIsCopies, Unmoved, HeldUpdate
  <2>4. QED
    BY <1>0, <2>1, <2>3, TableUnmoved
<1>9. ASSUME NEW k \in Workers, Rearm(k) \/ Fail(k) \/ Die(k)
      PROVE  Goal
  <2>1. Become(k, Idle) /\ issue' = issue /\ told' = told /\ request' = request
    BY <1>9 DEF Rearm, Fail, Die
  <2>2. \A other \in Workers : Held(job[other])'
    BY <1>0, <2>1, Unmoved, HeldUpdate DEF Idle
  <2>3. QED
    BY <1>0, <2>1, <2>2, TableUnmoved
<1>10. ASSUME NEW k \in Workers, NEW i \in Issues, Escalate(k, i) \/ EscalateUnheard(k, i)
       PROVE  Goal
  BY <1>0, <1>10, HopStep
<1>11. CASE UNCHANGED vars
  BY <1>1, <1>11 DEF vars
<1>12. ASSUME NEW is \in SUBSET Issues, Acknowledge(is)
       PROVE  Goal
  <2>1. /\ told' = told /\ request' = request /\ job' = job
        /\ \A i \in Issues \ is : issue'[i] = issue[i]
        /\ \A i \in is : issue'[i] = Acked(is)[i] /\ told[i] # {}
    BY <1>12 DEF Acknowledge, Acked
  <2>2. \A i \in is : /\ issue'[i].status = "acknowledged" /\ issue'[i].next = "null"
                      /\ issue'[i].level = issue[i].level /\ request[i] # "none"
    BY <2>1, AckedRow DEF Inv, Climbed
  <2>3. Climbed' /\ DeadlineHasRule' /\ EscalatedIsTold'
    BY <2>1, <2>2 DEF Inv, Climbed, DeadlineHasRule, EscalatedIsTold
  <2>4. \A j \in Issues : Grows(issue[j], issue'[j]) /\ issue'[j].level <= issue[j].level + 1
    <3>1. \A j \in Issues : issue[j] \in Row /\ issue'[j] \in Row
      BY <1>0 DEF Inv, TypeOK
    <3>2. QED
      BY <2>1, <2>2, <3>1 DEF Grows, Row
  <2>5. QED
    BY <1>0, <2>1, <2>3, <2>4, AllHeldKept DEF Inv
<1>13. QED
  BY <1>2, <1>3, <1>4, <1>5, <1>6, <1>7, <1>8, <1>9, <1>10, <1>11, <1>12 DEF Next

(* The steps other than acknowledgements.                                  *)
Unanswering ==
  \/ \E i \in Issues : People(i) \/ Elapse(i) \/ Lose(i)
  \/ \E k \in Workers : Sweep(k) \/ Work(k) \/ Fail(k) \/ Die(k)
  \/ \E k \in Workers, i \in Issues : TakeTask(k, i)

(* Committing copies leaves the column of the acknowledgement alone.       *)
LEMMA CommitKeepsHandled ==
  ASSUME TypeOK, NEW f, Commit(f), NEW i \in Issues
  PROVE  issue'[i].handled = issue[i].handled
<1>1. issue'[i] = IF i \in DOMAIN f THEN Merge(issue[i], f[i]) ELSE issue[i]
  BY DEF Commit
<1>2. QED
  BY <1>1 DEF Merge

(* They handle no issue and release none, and nobody who was told is       *)
(* forgotten.                                                              *)
LEMMA UnansweringKeeps ==
  ASSUME Inv, Unanswering
  PROVE  \A i \in Issues : issue'[i].handled = issue[i].handled /\ told[i] \subseteq told'[i]
<1> DEFINE Goal == \A i \in Issues : /\ issue'[i].handled = issue[i].handled
                                     /\ told[i] \subseteq told'[i]
<1>1. CASE issue' = issue /\ told' = told
  BY <1>1
<1>2. ASSUME NEW i \in Issues, Create(i)
      PROVE  Goal
  <2>1. issue[i] = NoIssue /\ issue[i].handled = FALSE
    BY <1>2 DEF Create, Inv, Climbed, NoIssue
  <2>2. /\ issue'[i].handled = FALSE
        /\ \A j \in Issues \ {i} : issue'[j] = issue[j]
        /\ told' = told
    BY <1>2 DEF Create, Inv, TypeOK
  <2>3. QED
    BY <2>1, <2>2
<1>3. ASSUME NEW i \in Issues, TellEngineers(i)
      PROVE  Goal
  BY <1>3 DEF TellEngineers, Inv, TypeOK
<1>4. ASSUME NEW i \in Issues, Elapse(i)
      PROVE  Goal
  <2>1. \A j \in Issues : issue'[j].handled = issue[j].handled
    BY <1>4 DEF Elapse, Inv, TypeOK, Row
  <2>2. QED
    BY <1>4, <2>1 DEF Elapse
<1>5. ASSUME NEW k \in Workers, NEW i \in Issues, Escalate(k, i)
      PROVE  Goal
  <2>1. \A j \in Issues : issue'[j].handled = issue[j].handled
    BY <1>5, CommitKeepsHandled DEF Escalate, Inv
  <2>2. \A j \in Issues : told[j] \subseteq told'[j]
    BY <1>5 DEF Escalate, Inv, TypeOK
  <2>3. QED
    BY <2>1, <2>2
<1>6. ASSUME NEW i \in Issues, Schedule(i) \/ RequestFails(i) \/ Lose(i)
      PROVE  Goal
  BY <1>1, <1>6 DEF Schedule, RequestFails, Lose
<1>7. ASSUME NEW k \in Workers, Sweep(k) \/ Rearm(k) \/ Fail(k) \/ Die(k)
      PROVE  Goal
  BY <1>1, <1>7 DEF Sweep, Rearm, Fail, Die
<1>8. ASSUME NEW k \in Workers, NEW i \in Issues, TakeTask(k, i) \/ EscalateUnheard(k, i)
      PROVE  Goal
  BY <1>1, <1>8 DEF TakeTask, EscalateUnheard
<1>9. QED
  BY <1>2, <1>3, <1>4, <1>5, <1>6, <1>7, <1>8 DEF Unanswering, People, Work

(* The invariant holds at the start.                                       *)
LEMMA InvInit ==
  ASSUME Init
  PROVE  Inv
<1>1. TypeOK
  BY BoundsAssumption DEF Init, TypeOK, Row, NoIssue
<1>2. Climbed /\ EscalatedIsTold /\ DeadlineHasRule
  BY DEF Init, Climbed, EscalatedIsTold, DeadlineHasRule, NoIssue
<1>3. \A k \in Workers : Held(job[k])
  BY DEF Init, Held, Idle
<1>4. QED
  BY <1>1, <1>2, <1>3 DEF Inv

-----------------------------------------------------------------------------
(* The theorems.                                                           *)

(* Rows, messages and jobs stay in their types.                            *)
THEOREM EscalationTypeCorrect == Spec => []TypeOK
<1>1. TypeOK /\ [Next]_vars => TypeOK'
  BY TypeStep
<1>2. Init => TypeOK
  BY InvInit DEF Inv
<1>3. QED
  BY <1>1, <1>2, PTL DEF Spec

(* In every reachable state the types are right, every copy is overtaken,  *)
(* and what a commit would tell is told.                                   *)
THEOREM InvHolds == Spec => []Inv
<1>1. Inv /\ [Next]_vars => Inv'
  BY InvStep
<1>2. Init => Inv
  BY InvInit
<1>3. QED
  BY <1>1, <1>2, PTL DEF Spec

(* Whatever fails, dies, is lost or overlaps, the people of a level are    *)
(* told when an issue reaches it.                                          *)
THEOREM EscalationIsTold == Spec => []EscalatedIsTold
<1>1. Inv => EscalatedIsTold
  BY DEF Inv
<1>2. QED
  BY <1>1, InvHolds, PTL

(* Only an issue that can climb waits for a deadline.                      *)
THEOREM DeadlinesHaveRules == Spec => []DeadlineHasRule
<1>1. Inv => DeadlineHasRule
  BY DEF Inv
<1>2. QED
  BY <1>1, InvHolds, PTL

(* However stale the copy that is written, no level is skipped.            *)
THEOREM LevelsAreNotSkipped == Spec => OneLevelAtATime
<1>1. Inv /\ [Next]_vars => [\A i \in Issues : issue'[i].level <= issue[i].level + 1]_issue
  BY InvStep
<1>2. QED
  BY <1>1, InvHolds, PTL DEF Spec, OneLevelAtATime

=============================================================================
