--------------------------- MODULE PhoneAlertsProofs ---------------------------
(***************************************************************************)
(* Theorems about PhoneAlerts, for any issues, teams, telephones and       *)
(* workers: it implements the escalation of IssueEscalation, whose         *)
(* theorems it inherits, and an issue is handled exactly when somebody is  *)
(* on record who confirmed it.                                             *)
(***************************************************************************)
EXTENDS PhoneAlerts, TLAPS

EscalationProofs == INSTANCE IssueEscalationProofs

(* Who has a notification of an issue belongs to a level that was told.    *)
Written == \A r \in sent : r.level \in told[r.issue]

(* A message that would acknowledge is about an issue somebody answered    *)
(* for, whose people were written to on the telephone channel.             *)
Justified ==
  \A m \in wire : Acknowledging(m) =>
    /\ m.tag \in answered
    /\ \E r \in sent : r.issue = m.tag /\ r.channel = "phone"

(* The inductive invariant.                                                *)
Inv ==
  /\ TypeOK
  /\ EscalationProofs!Inv
  /\ Written
  /\ Justified
  /\ AcknowledgedByPeople

-----------------------------------------------------------------------------
(* The escalation's theorems speak of the definitions of their module; the *)
(* two instances of it are the same.                                       *)

(* The same types.                                                         *)
LEMMA SameType == Escalation!TypeOK <=> EscalationProofs!TypeOK
BY DEF Escalation!TypeOK, Escalation!Row, Escalation!Levels, Escalation!Job,
       Escalation!Copies, Escalation!Idle, EscalationProofs!TypeOK,
       EscalationProofs!Row, EscalationProofs!Levels, EscalationProofs!Job,
       EscalationProofs!Copies, EscalationProofs!Idle

(* The same types after a step.                                            *)
LEMMA SameTypePrimed == Escalation!TypeOK' <=> EscalationProofs!TypeOK'
BY DEF Escalation!TypeOK, Escalation!Row, Escalation!Levels, Escalation!Job,
       Escalation!Copies, Escalation!Idle, EscalationProofs!TypeOK,
       EscalationProofs!Row, EscalationProofs!Levels, EscalationProofs!Job,
       EscalationProofs!Copies, EscalationProofs!Idle

(* The same initial states and steps.                                      *)
LEMMA SameNext ==
  /\ Escalation!Init <=> EscalationProofs!Init
  /\ Escalation!Next <=> EscalationProofs!Next
  /\ Escalation!vars = EscalationProofs!vars
BY DEF Escalation!Next, Escalation!People, Escalation!Work, Escalation!Create,
       Escalation!Schedule, Escalation!TellEngineers, Escalation!RequestFails,
       Escalation!Elapse, Escalation!Lose, Escalation!Acknowledge,
       Escalation!Sweep, Escalation!TakeTask, Escalation!Escalate,
       Escalation!EscalateUnheard, Escalation!Rearm, Escalation!Fail,
       Escalation!Die, Escalation!Enqueue, Escalation!Faulty,
       Escalation!Acked, Escalation!Overdue, Escalation!Become,
       Escalation!Idle, Escalation!None, Escalation!NoIssue,
       Escalation!Proceed, Escalation!Without, Escalation!With,
       Escalation!Hop, Escalation!Tells, Escalation!Merge, Escalation!Dirty,
       Escalation!Commit, Escalation!Rules, Escalation!vars, Escalation!Init,
       EscalationProofs!Next, EscalationProofs!People, EscalationProofs!Work,
       EscalationProofs!Create, EscalationProofs!Schedule,
       EscalationProofs!TellEngineers, EscalationProofs!RequestFails,
       EscalationProofs!Elapse, EscalationProofs!Lose,
       EscalationProofs!Acknowledge, EscalationProofs!Sweep,
       EscalationProofs!TakeTask, EscalationProofs!Escalate,
       EscalationProofs!EscalateUnheard, EscalationProofs!Rearm,
       EscalationProofs!Fail, EscalationProofs!Die, EscalationProofs!Enqueue,
       EscalationProofs!Faulty, EscalationProofs!Acked,
       EscalationProofs!Overdue, EscalationProofs!Become,
       EscalationProofs!Idle, EscalationProofs!None, EscalationProofs!NoIssue,
       EscalationProofs!Proceed, EscalationProofs!Without,
       EscalationProofs!With, EscalationProofs!Hop, EscalationProofs!Tells,
       EscalationProofs!Merge, EscalationProofs!Dirty,
       EscalationProofs!Commit, EscalationProofs!Rules, EscalationProofs!vars,
       EscalationProofs!Init

(* The same steps, those that acknowledge nothing one by one.              *)
LEMMA SameUnanswering ==
  /\ EscalationStep => EscalationProofs!Unanswering
  /\ \A i \in Issues : Escalation!TellEngineers(i) => EscalationProofs!Unanswering
  /\ \A k \in Workers, i \in Issues : Escalation!Escalate(k, i) => EscalationProofs!Unanswering
<1>1. ASSUME NEW i \in Issues
      PROVE  /\ Escalation!Create(i) => EscalationProofs!Create(i)
             /\ Escalation!Schedule(i) => EscalationProofs!Schedule(i)
             /\ Escalation!TellEngineers(i) => EscalationProofs!TellEngineers(i)
             /\ Escalation!RequestFails(i) => EscalationProofs!RequestFails(i)
             /\ Escalation!Elapse(i) => EscalationProofs!Elapse(i)
             /\ Escalation!Lose(i) => EscalationProofs!Lose(i)
  BY DEF Escalation!Create, Escalation!Schedule, Escalation!TellEngineers,
         Escalation!RequestFails, Escalation!Elapse, Escalation!Lose,
         Escalation!Enqueue, Escalation!Faulty, Escalation!Overdue,
         Escalation!Become, Escalation!Idle, Escalation!None,
         Escalation!NoIssue, Escalation!Proceed, Escalation!Without,
         Escalation!With, Escalation!Hop, Escalation!Tells, Escalation!Merge,
         Escalation!Dirty, Escalation!Commit, Escalation!Rules,
         EscalationProofs!Create, EscalationProofs!Schedule,
         EscalationProofs!TellEngineers, EscalationProofs!RequestFails,
         EscalationProofs!Elapse, EscalationProofs!Lose,
         EscalationProofs!Enqueue, EscalationProofs!Faulty,
         EscalationProofs!Overdue, EscalationProofs!Become,
         EscalationProofs!Idle, EscalationProofs!None,
         EscalationProofs!NoIssue, EscalationProofs!Proceed,
         EscalationProofs!Without, EscalationProofs!With,
         EscalationProofs!Hop, EscalationProofs!Tells, EscalationProofs!Merge,
         EscalationProofs!Dirty, EscalationProofs!Commit,
         EscalationProofs!Rules
<1>2. ASSUME NEW k \in Workers
      PROVE  /\ Escalation!Sweep(k) => EscalationProofs!Sweep(k)
             /\ Escalation!Rearm(k) => EscalationProofs!Rearm(k)
             /\ Escalation!Fail(k) => EscalationProofs!Fail(k)
             /\ Escalation!Die(k) => EscalationProofs!Die(k)
  BY DEF Escalation!Sweep, Escalation!Rearm, Escalation!Fail, Escalation!Die,
         Escalation!Enqueue, Escalation!Faulty, Escalation!Overdue,
         Escalation!Become, Escalation!Idle, Escalation!None,
         Escalation!NoIssue, Escalation!Proceed, Escalation!Without,
         Escalation!With, Escalation!Hop, Escalation!Tells, Escalation!Merge,
         Escalation!Dirty, Escalation!Commit, Escalation!Rules,
         EscalationProofs!Sweep, EscalationProofs!Rearm,
         EscalationProofs!Fail, EscalationProofs!Die,
         EscalationProofs!Enqueue, EscalationProofs!Faulty,
         EscalationProofs!Overdue, EscalationProofs!Become,
         EscalationProofs!Idle, EscalationProofs!None,
         EscalationProofs!NoIssue, EscalationProofs!Proceed,
         EscalationProofs!Without, EscalationProofs!With,
         EscalationProofs!Hop, EscalationProofs!Tells, EscalationProofs!Merge,
         EscalationProofs!Dirty, EscalationProofs!Commit,
         EscalationProofs!Rules
<1>3. ASSUME NEW k \in Workers, NEW i \in Issues
      PROVE  /\ Escalation!TakeTask(k, i) => EscalationProofs!TakeTask(k, i)
             /\ Escalation!Escalate(k, i) => EscalationProofs!Escalate(k, i)
             /\ Escalation!EscalateUnheard(k, i) => EscalationProofs!EscalateUnheard(k, i)
  BY DEF Escalation!TakeTask, Escalation!Escalate, Escalation!EscalateUnheard,
         Escalation!Enqueue, Escalation!Faulty, Escalation!Overdue,
         Escalation!Become, Escalation!Idle, Escalation!None,
         Escalation!NoIssue, Escalation!Proceed, Escalation!Without,
         Escalation!With, Escalation!Hop, Escalation!Tells, Escalation!Merge,
         Escalation!Dirty, Escalation!Commit, Escalation!Rules,
         EscalationProofs!TakeTask, EscalationProofs!Escalate,
         EscalationProofs!EscalateUnheard, EscalationProofs!Enqueue,
         EscalationProofs!Faulty, EscalationProofs!Overdue,
         EscalationProofs!Become, EscalationProofs!Idle,
         EscalationProofs!None, EscalationProofs!NoIssue,
         EscalationProofs!Proceed, EscalationProofs!Without,
         EscalationProofs!With, EscalationProofs!Hop, EscalationProofs!Tells,
         EscalationProofs!Merge, EscalationProofs!Dirty,
         EscalationProofs!Commit, EscalationProofs!Rules
<1>4. QED
  BY <1>1, <1>2, <1>3
     DEF EscalationStep, EscalationProofs!Unanswering, EscalationProofs!People,
         EscalationProofs!Work

(* The same behaviours.                                                    *)
LEMMA SameSpec == Escalation!Spec <=> EscalationProofs!Spec
<1>1. Escalation!Init <=> EscalationProofs!Init
  BY SameNext
<1>2. [Escalation!Next]_(Escalation!vars) <=> [EscalationProofs!Next]_(EscalationProofs!vars)
  BY SameNext DEF Escalation!vars, EscalationProofs!vars
<1>3. QED
  BY <1>1, <1>2, PTL DEF Escalation!Spec, EscalationProofs!Spec


-----------------------------------------------------------------------------
(* The refinement.                                                         *)

(* The staffing the escalation is instantiated with is one.                *)
LEMMA StaffedIsStaffing == Staffed \in [Issues -> SUBSET EscalationProofs!Levels]
BY DEF Staffed, EscalationProofs!Levels

(* Marking notifications read acknowledges issues whose people were told.  *)
LEMMA MarkReadAcknowledges ==
  ASSUME TypeOK, Written, NEW ids \in SUBSET sent, ids # {},
         Acknowledge({r.issue : r \in ids}, ids)
  PROVE  Escalation!Next
<1> DEFINE is == {r.issue : r \in ids}
<1>1. is \in (SUBSET Issues) \ {{}}
  <2>1. \A r \in ids : r.issue \in Issues
    BY DEF TypeOK, Row
  <2>2. PICK r \in ids : TRUE
    OBVIOUS
  <2>3. r.issue \in is
    BY <2>2
  <2>4. is \subseteq Issues
    BY <2>1
  <2> HIDE DEF is
  <2>5. QED
    BY <2>3, <2>4
<1>2. \A i \in is : told[i] # {}
  BY DEF Written
<1>3. Escalation!Acknowledge(is)
  BY <1>2 DEF Acknowledge, Escalation!Acknowledge
<1>4. QED
  BY <1>1, <1>3 DEF Escalation!Next

(* So does an answer on the telephone.                                     *)
LEMMA AnswerAcknowledges ==
  ASSUME TypeOK, Written, NEW i \in Issues, Answered(i),
         \E r \in sent : r.issue = i /\ r.channel = "phone"
  PROVE  Escalation!Next
<1>1. told[i] # {}
  BY DEF Written
<1>2. Escalation!Acknowledge({i})
  BY <1>1 DEF Answered, Acknowledge, Escalation!Acknowledge
<1> DEFINE is == {i}
<1>3. is \subseteq Issues /\ i \in is
  OBVIOUS
<1>4. Escalation!Acknowledge(is)
  BY <1>2
<1> HIDE DEF is
<1>5. is \in (SUBSET Issues) \ {{}}
  BY <1>3
<1>6. QED
  BY <1>4, <1>5 DEF Escalation!Next

(* Steps that leave the escalation alone.                                  *)
Besides ==
  \/ \E c \in callouts : SendCallout(c) \/ FailCallout(c) \/ LoseCallout(c)
  \/ \E c \in calls : CallEvent(c) \/ EndCall(c)
  \/ StartListener \/ Connect \/ Disconnect
  \/ \E m \in wire : (OnMessage(m) /\ ~Acknowledging(m)) \/ MessageFails(m)

(* They do leave it alone, and the notifications.                          *)
LEMMA BesidesLeaves ==
  ASSUME Besides
  PROVE  UNCHANGED escalation /\ sent' = sent /\ read' = read
BY DEF Besides, SendCallout, FailCallout, LoseCallout, CallEvent, EndCall, StartListener,
       Connect, Disconnect, OnMessage, MessageFails

(* Every step is one of the escalation, or leaves it alone.                *)
LEMMA StepRefines ==
  ASSUME TypeOK, Written, Justified, [Next]_vars
  PROVE  [Escalation!Next]_(Escalation!vars)
<1>1. CASE UNCHANGED vars
  BY <1>1 DEF vars, escalation, Escalation!vars
<1>2. CASE EscalationStep
  BY <1>2 DEF EscalationStep, Escalation!Next, Escalation!People, Escalation!Work
<1>3. ASSUME NEW i \in Issues, TellEngineers(i)
      PROVE  Escalation!Next
  BY <1>3 DEF TellEngineers, Escalation!Next, Escalation!People
<1>4. ASSUME NEW i \in Issues, NEW k \in Workers, Escalate(k, i)
      PROVE  Escalation!Next
  BY <1>4 DEF Escalate, Escalation!Next, Escalation!Work
<1>5. ASSUME NEW p \in Persons, MarkRead(p)
      PROVE  Escalation!Next
  <2>1. PICK ids \in SUBSET Listed(p) :
          Flipped(p, ids) # {} /\ Acknowledge({r.issue : r \in ids}, ids)
    BY <1>5 DEF MarkRead
  <2>2. ids \in SUBSET sent /\ ids # {}
    BY <2>1 DEF Listed, Flipped
  <2>3. QED
    BY <2>1, <2>2, MarkReadAcknowledges
<1>6. ASSUME NEW m \in wire, OnMessage(m), Acknowledging(m)
      PROVE  Escalation!Next
  <2>1. m.tag \in Issues /\ Answered(m.tag)
    BY <1>6 DEF OnMessage, Acknowledging
  <2>2. \E r \in sent : r.issue = m.tag /\ r.channel = "phone"
    BY <1>6 DEF Justified
  <2>3. QED
    BY <2>1, <2>2, AnswerAcknowledges
<1>7. CASE Besides
  BY <1>7, BesidesLeaves DEF escalation, Escalation!vars
<1>8. QED
  BY <1>1, <1>2, <1>3, <1>4, <1>5, <1>6, <1>7 DEF Next, Besides

-----------------------------------------------------------------------------
(* The invariant.                                                          *)

(* Somebody was written to on the telephone channel.                       *)
Reached(c) == \E r \in sent : r.issue = c.issue /\ r.to = c.to /\ r.channel = "phone"

(* Whom a callout in the broker calls.                                     *)
LEMMA RingingReached ==
  ASSUME TypeOK, NEW c \in callouts
  PROVE  Ringing(c) \subseteq Call /\ \A x \in Ringing(c) : Reached(x)
<1>1. c \in Callout
  BY DEF TypeOK
<1>2. Ringing(c) \subseteq Call
  BY <1>1 DEF Callout, Call, Ringing
<1>3. ASSUME NEW x \in Ringing(c)
      PROVE  Reached(x)
  <2>1. x \in UNION {Ringing(t) : t \in callouts}
    OBVIOUS
  <2>2. QED
    BY <2>1 DEF TypeOK, Reached
<1>4. QED
  BY <1>2, <1>3

(* How the types are shown after a step.                                   *)
LEMMA TypesAre ==
  ASSUME Escalation!TypeOK', sent' \subseteq Row, read' \subseteq sent',
         callouts' \subseteq Callout, calls' \subseteq Call, wire' \subseteq Message,
         listener' \in {"stopped", "disconnected", "connected"}, answered' \subseteq Issues,
         \A c \in calls' : Reached(c)',
         \A t \in callouts' : \A c \in Ringing(t) : Reached(c)'
  PROVE  TypeOK'
BY DEF TypeOK, Reached, Ringing

(* What was reached stays reached.                                         *)
LEMMA ReachedKept ==
  ASSUME sent \subseteq sent', NEW c, Reached(c)
  PROVE  Reached(c)'
BY DEF Reached

(* Telling a level whose people, if it has any, are recorded as told.      *)
LEMMA NotifyKeeps ==
  ASSUME Inv, EscalationProofs!Inv', NEW i \in Issues, NEW n \in 0..2, Notify(i, n),
         n \in Staffed[i] => n \in told'[i],
         \A j \in Issues : issue'[j].handled = issue[j].handled /\ told[j] \subseteq told'[j]
  PROVE  Inv'
<1> DEFINE rows == [issue : {i}, level : {n}, to : Team[i][n], channel : Channels]
<1>1. Team[i][n] \subseteq Persons /\ (Team[i][n] # {} => n \in Staffed[i])
  BY TeamAssumption DEF Staffed
<1>2. rows \subseteq Row /\ \A r \in rows : r.issue = i /\ r.level = n /\ n \in told'[i]
  BY <1>1 DEF Row
<1>3. sent' = sent \cup rows /\ read' = read /\ calls' = calls /\ wire' = wire
      /\ listener' = listener /\ answered' = answered
      /\ callouts' = callouts \cup Dispatched(i, n)
  BY DEF Notify
<1>4. \A c \in Dispatched(i, n) : c \in Callout /\ \A x \in Ringing(c) : Reached(x)'
  <2> SUFFICES ASSUME NEW c \in Dispatched(i, n)
               PROVE  c \in Callout /\ \A x \in Ringing(c) : Reached(x)'
    OBVIOUS
  <2>1. c = [issue |-> i, people |-> Team[i][n] \cap HasPhone, retries |-> 0]
    BY DEF Dispatched
  <2>2. c \in Callout
    BY <2>1 DEF Callout, MaxRetries
  <2>3. ASSUME NEW q \in c.people
        PROVE  Reached([issue |-> c.issue, to |-> q])'
    <3>1. q \in Team[i][n] /\ c.issue = i
      BY <2>1
    <3> DEFINE row == [issue |-> i, level |-> n, to |-> q, channel |-> "phone"]
    <3>2. row \in sent'
      BY <1>3, <3>1 DEF Channels
    <3>3. row.issue = c.issue /\ row.to = q /\ row.channel = "phone"
      BY <3>1
    <3>4. QED
      BY <3>2, <3>3 DEF Reached
  <2>4. QED
    BY <2>2, <2>3 DEF Ringing
<1>5. TypeOK'
  <2>1. \A c \in calls : Reached(c)
    BY DEF Inv, TypeOK, Reached
  <2>2. \A t \in callouts : \A c \in Ringing(t) : Reached(c)
    BY RingingReached DEF Inv
  <2>3. sent \subseteq sent'
    BY <1>3
  <2>4. Escalation!TypeOK'
    BY SameTypePrimed DEF EscalationProofs!Inv
  <2>5. \A c \in calls' : Reached(c)'
    BY <1>3, <2>1, <2>3, ReachedKept
  <2>6. \A t \in callouts' : \A c \in Ringing(t) : Reached(c)'
    BY <1>3, <1>4, <2>2, <2>3, ReachedKept
  <2>7. QED
    BY <1>2, <1>3, <1>4, <2>4, <2>5, <2>6, TypesAre DEF Inv, TypeOK
<1>6. Written'
  <2>1. \A r \in sent : r.issue \in Issues
    BY DEF Inv, TypeOK, Row
  <2>2. QED
    BY <1>2, <1>3, <2>1 DEF Inv, Written
<1>7. Justified'
  BY <1>3 DEF Inv, Justified, Acknowledging
<1>8. AcknowledgedByPeople'
  BY <1>3 DEF Inv, AcknowledgedByPeople, Acknowledgements
<1>9. QED
  BY <1>5, <1>6, <1>7, <1>8 DEF Inv

(* Acknowledging issues along with notifications of just these issues.     *)
LEMMA AcknowledgeKeeps ==
  ASSUME Inv, EscalationProofs!Inv', NEW is \in SUBSET Issues, NEW rows \in SUBSET sent,
         Acknowledge(is, rows),
         \A r \in rows : r.issue \in is,
         \A i \in is : \E r \in rows : r.issue = i,
         is \subseteq answered', answered \subseteq answered', answered' \subseteq Issues,
         callouts' = callouts, calls' = calls, listener' = listener, wire' \subseteq wire
  PROVE  Inv'
<1>1. sent' = sent /\ read' = read \cup rows /\ told' = told /\ issue' = Escalation!Acked(is)
  BY DEF Acknowledge
<1>2. \A i \in Issues : issue[i] \in Escalation!Row
  BY SameType DEF Inv, EscalationProofs!Inv, Escalation!TypeOK
<1>3. /\ \A i \in is : issue'[i].handled
      /\ \A i \in Issues \ is : issue'[i].handled = issue[i].handled
  BY <1>1, <1>2 DEF Escalation!Acked, Escalation!Row
<1>4. TypeOK'
  <2>1. \A c \in calls : Reached(c)
    BY DEF Inv, TypeOK, Reached
  <2>2. \A t \in callouts : \A c \in Ringing(t) : Reached(c)
    BY RingingReached DEF Inv
  <2>3. Escalation!TypeOK'
    BY SameTypePrimed DEF EscalationProofs!Inv
  <2>4. \A c \in calls' : Reached(c)'
    BY <1>1, <2>1, ReachedKept
  <2>5. \A t \in callouts' : \A c \in Ringing(t) : Reached(c)'
    BY <1>1, <2>2, ReachedKept
  <2>6. QED
    BY <1>1, <2>3, <2>4, <2>5, TypesAre DEF Inv, TypeOK
<1>5. Written'
  BY <1>1 DEF Inv, Written
<1>6. Justified'
  BY <1>1 DEF Inv, Justified, Acknowledging
<1>7. AcknowledgedByPeople'
  <2>1. \A i \in Issues : Acknowledgements(i)' # {} <=> Acknowledgements(i) # {} \/ i \in is
    <3>1. \A i \in Issues : /\ Acknowledgements(i) # {} <=> \E r \in read : r.issue = i
                            /\ Acknowledgements(i)' # {} <=> \E r \in read' : r.issue = i
      BY DEF Acknowledgements
    <3>2. QED
      BY <1>1, <3>1
  <2>2. QED
    BY <1>3, <2>1 DEF Inv, AcknowledgedByPeople
<1>8. QED
  BY <1>4, <1>5, <1>6, <1>7 DEF Inv

(* A step of the escalation that tells nobody and acknowledges nothing, or *)
(* one that only moves callouts, calls and messages.                       *)
LEMMA QuietKeeps ==
  ASSUME Inv, EscalationProofs!Inv', sent' = sent, read' = read,
         \A i \in Issues : issue'[i].handled = issue[i].handled /\ told[i] \subseteq told'[i],
         callouts' \subseteq Callout, calls' \subseteq Call, wire' \subseteq Message,
         listener' \in {"stopped", "disconnected", "connected"},
         answered \subseteq answered', answered' \subseteq Issues,
         \A c \in calls' : Reached(c),
         \A t \in callouts' : \A c \in Ringing(t) : Reached(c),
         \A m \in wire' : Acknowledging(m) =>
           /\ m.tag \in answered'
           /\ \E r \in sent : r.issue = m.tag /\ r.channel = "phone"
  PROVE  Inv'
<1>1. TypeOK'
  <2>1. Escalation!TypeOK'
    BY SameTypePrimed DEF EscalationProofs!Inv
  <2>2. \A c \in calls' : Reached(c)'
    BY ReachedKept
  <2>3. \A t \in callouts' : \A c \in Ringing(t) : Reached(c)'
    BY ReachedKept
  <2>4. QED
    BY <2>1, <2>2, <2>3, TypesAre DEF Inv, TypeOK
<1>2. Written'
  BY DEF Inv, Written, TypeOK, Row
<1>3. Justified'
  BY DEF Justified, Acknowledging
<1>4. AcknowledgedByPeople'
  BY DEF Inv, AcknowledgedByPeople, Acknowledgements
<1>5. QED
  BY <1>1, <1>2, <1>3, <1>4 DEF Inv

(* Callouts, calls, messages and the listener.                             *)
LEMMA BesidesKeeps ==
  ASSUME Inv, EscalationProofs!Inv', Besides
  PROVE  Inv'
<1>1. /\ sent' = sent /\ read' = read
      /\ \A i \in Issues : issue'[i].handled = issue[i].handled /\ told[i] \subseteq told'[i]
  BY BesidesLeaves DEF escalation
<1>2. /\ callouts \subseteq Callout /\ calls \subseteq Call /\ wire \subseteq Message
      /\ listener \in {"stopped", "disconnected", "connected"} /\ answered \subseteq Issues
      /\ \A c \in calls : Reached(c)
      /\ \A t \in callouts : Ringing(t) \subseteq Call /\ \A c \in Ringing(t) : Reached(c)
      /\ \A m \in wire : Acknowledging(m) =>
           /\ m.tag \in answered
           /\ \E r \in sent : r.issue = m.tag /\ r.channel = "phone"
  BY RingingReached DEF Inv, TypeOK, Reached, Justified
<1>3. ASSUME NEW c \in callouts, SendCallout(c) \/ FailCallout(c) \/ LoseCallout(c)
      PROVE  Inv'
  <2>1. \A t \in Retried(c) : t \in Callout /\ Ringing(t) = Ringing(c)
    BY <1>2 DEF Retried, MaxRetries, Callout, Ringing
  <2>2. /\ wire' = wire /\ listener' = listener /\ answered' = answered
        /\ callouts' \subseteq callouts \cup Retried(c)
        /\ calls' \subseteq calls \cup Ringing(c)
    BY <1>3 DEF SendCallout, FailCallout, LoseCallout
  <2>3. /\ callouts' \subseteq Callout /\ calls' \subseteq Call
        /\ \A x \in calls' : Reached(x)
    BY <1>2, <2>1, <2>2
  <2>4. \A t \in callouts' : \A x \in Ringing(t) : Reached(x)
    BY <1>2, <2>1, <2>2
  <2>5. QED
    BY <1>1, <1>2, <2>2, <2>3, <2>4, QuietKeeps
<1>4. ASSUME NEW c \in calls, CallEvent(c)
      PROVE  Inv'
  <2> DEFINE m == [topic |-> "callEvent", status |-> "answered", tag |-> c.issue]
  <2>1. m \in Message /\ ~Acknowledging(m)
    BY <1>2 DEF Call, Message, Acknowledging
  <2>2. /\ wire' \subseteq wire \cup {m} /\ listener' = listener /\ answered' = answered
        /\ callouts' = callouts /\ calls' = calls
    BY <1>4 DEF CallEvent, Publish
  <2> HIDE DEF m
  <2>3. wire' \subseteq Message /\ \A x \in wire' : Acknowledging(x) => x \in wire
    BY <1>2, <2>1, <2>2
  <2>4. QED
    BY <1>1, <1>2, <2>2, <2>3, QuietKeeps
<1>5. ASSUME NEW c \in calls, EndCall(c)
      PROVE  Inv'
  <2>1. PICK status \in {"answered", "unanswered"}, tag \in {c.issue, NoTag} :
          /\ calls' = calls \ {c}
          /\ Publish([topic |-> "calloutResult", status |-> status, tag |-> tag])
          /\ answered' = IF status = "answered" THEN answered \cup {c.issue} ELSE answered
          /\ callouts' = callouts /\ listener' = listener
    BY <1>5 DEF EndCall
  <2> DEFINE m == [topic |-> "calloutResult", status |-> status, tag |-> tag]
  <2>2. c.issue \in Issues /\ c.issue # NoTag /\ NoTag \notin Issues /\ Reached(c)
    BY <1>2, TeamAssumption DEF Call
  <2>3. m \in Message /\ m.status = status /\ m.tag = tag
    BY <2>2 DEF Message
  <2>4. Acknowledging(m) =>
          m.tag \in answered' /\ \E r \in sent : r.issue = m.tag /\ r.channel = "phone"
    BY <2>1, <2>2, <2>3 DEF Acknowledging, Reached
  <2>5. wire' \subseteq wire \cup {m}
    BY <2>1 DEF Publish
  <2>6. answered \subseteq answered' /\ answered' \subseteq Issues
    BY <1>2, <2>1, <2>2
  <2> HIDE DEF m
  <2>7. wire' \subseteq Message
    BY <1>2, <2>3, <2>5
  <2>8. \A x \in wire' : Acknowledging(x) =>
          x.tag \in answered' /\ \E r \in sent : r.issue = x.tag /\ r.channel = "phone"
    BY <1>2, <2>4, <2>5, <2>6
  <2>9. QED
    BY <1>1, <1>2, <2>1, <2>6, <2>7, <2>8, QuietKeeps
<1>6. CASE StartListener \/ Connect \/ Disconnect
  <2>1. /\ wire' \subseteq wire /\ answered' = answered
        /\ listener' \in {"stopped", "disconnected", "connected"}
        /\ callouts' = callouts /\ calls' = calls
    BY <1>6 DEF StartListener, Connect, Disconnect
  <2>2. QED
    BY <1>1, <1>2, <2>1, QuietKeeps
<1>7. ASSUME NEW m \in wire, (OnMessage(m) /\ ~Acknowledging(m)) \/ MessageFails(m)
      PROVE  Inv'
  <2>1. /\ wire' \subseteq wire /\ answered' = answered /\ listener' = listener
        /\ callouts' = callouts /\ calls' = calls
    BY <1>7 DEF OnMessage, MessageFails
  <2>2. QED
    BY <1>1, <1>2, <2>1, QuietKeeps
<1>8. QED
  BY <1>3, <1>4, <1>5, <1>6, <1>7 DEF Besides

(* The escalation keeps its invariant in every step of the composition.    *)
LEMMA EscalationKept ==
  ASSUME Inv, [Next]_vars
  PROVE  EscalationProofs!Inv'
<1>1. [Escalation!Next]_(Escalation!vars)
  BY StepRefines DEF Inv
<1>2. [EscalationProofs!Next]_(EscalationProofs!vars)
  BY <1>1, SameNext DEF Escalation!vars, EscalationProofs!vars
<1>3. EscalationProofs!Inv
  BY DEF Inv
<1>4. QED
  BY <1>2, <1>3, EscalationProofs!InvStep, StaffedIsStaffing, BoundsAssumption

(* What the steps that acknowledge nothing keep of the escalation.         *)
LEMMA UnansweringKept ==
  ASSUME Inv, EscalationProofs!Unanswering
  PROVE  \A i \in Issues : issue'[i].handled = issue[i].handled /\ told[i] \subseteq told'[i]
BY EscalationProofs!UnansweringKeeps, StaffedIsStaffing, BoundsAssumption DEF Inv

(* Every step keeps the invariant.                                         *)
LEMMA InvStep ==
  ASSUME Inv, [Next]_vars
  PROVE  Inv'
<1>0. EscalationProofs!Inv'
  BY EscalationKept
<1>1. CASE EscalationStep
  <2>1. \A i \in Issues : issue'[i].handled = issue[i].handled /\ told[i] \subseteq told'[i]
    BY <1>1, SameUnanswering, UnansweringKept
  <2>2. UNCHANGED <<sent, read, callouts, calls, wire, listener, answered>>
    BY <1>1 DEF EscalationStep, phone
  <2>3. /\ callouts \subseteq Callout /\ calls \subseteq Call /\ wire \subseteq Message
        /\ listener \in {"stopped", "disconnected", "connected"} /\ answered \subseteq Issues
        /\ \A c \in calls : Reached(c)
        /\ \A t \in callouts : \A c \in Ringing(t) : Reached(c)
        /\ \A m \in wire : Acknowledging(m) =>
             /\ m.tag \in answered
             /\ \E r \in sent : r.issue = m.tag /\ r.channel = "phone"
    BY RingingReached DEF Inv, TypeOK, Reached, Justified
  <2>4. QED
    BY <1>0, <2>1, <2>2, <2>3, QuietKeeps
<1>2. ASSUME NEW i \in Issues, TellEngineers(i)
      PROVE  Inv'
  <2>1. Notify(i, 0) /\ Escalation!TellEngineers(i)
    BY <1>2 DEF TellEngineers
  <2>2. \A j \in Issues : issue'[j].handled = issue[j].handled /\ told[j] \subseteq told'[j]
    BY <2>1, SameUnanswering, UnansweringKept
  <2>3. 0 \in Staffed[i] => 0 \in told'[i]
    <3>1. told \in [Issues -> SUBSET Escalation!Levels]
      BY DEF Inv, TypeOK, Escalation!TypeOK
    <3>2. QED
      BY <2>1, <3>1 DEF Escalation!TellEngineers
  <2>4. QED
    BY <1>0, <2>1, <2>2, <2>3, NotifyKeeps
<1>3. ASSUME NEW i \in Issues, NEW k \in Workers, Escalate(k, i)
      PROVE  Inv'
  <2> DEFINE n == Escalation!Hop(job[k].todo[i]).level
  <2>1. Notify(i, n) /\ Escalation!Escalate(k, i)
    BY <1>3 DEF Escalate
  <2>2. \A j \in Issues : issue'[j].handled = issue[j].handled /\ told[j] \subseteq told'[j]
    BY <2>1, SameUnanswering, UnansweringKept
  <2>3. n \in Staffed[i] /\ told' = [told EXCEPT ![i] = @ \cup {n}]
    BY <2>1 DEF Escalation!Escalate, Escalation!Tells
  <2>4. n \in 0..2 /\ n \in told'[i]
    <3>1. told \in [Issues -> SUBSET Escalation!Levels]
      BY DEF Inv, TypeOK, Escalation!TypeOK
    <3>2. QED
      BY <2>3, <3>1 DEF Staffed
  <2> HIDE DEF n
  <2>5. QED
    BY <1>0, <2>1, <2>2, <2>4, NotifyKeeps
<1>4. ASSUME NEW p \in Persons, MarkRead(p)
      PROVE  Inv'
  <2>1. PICK ids \in SUBSET Listed(p) :
          /\ Acknowledge({r.issue : r \in ids}, ids)
          /\ answered' = answered \cup {r.issue : r \in ids}
          /\ UNCHANGED <<callouts, calls, wire, listener>>
    BY <1>4 DEF MarkRead, phone
  <2> DEFINE is == {r.issue : r \in ids}
  <2>2. ids \in SUBSET sent
    BY DEF Listed
  <2>3. is \in SUBSET Issues
    BY <2>2 DEF Inv, TypeOK, Row
  <2>4. /\ \A r \in ids : r.issue \in is
        /\ \A i \in is : \E r \in ids : r.issue = i
    OBVIOUS
  <2>5. Acknowledge(is, ids) /\ answered' = answered \cup is
    BY <2>1
  <2> HIDE DEF is
  <2>6. answered' \subseteq Issues
    BY <2>3, <2>5 DEF Inv, TypeOK
  <2>7. QED
    BY <1>0, <2>1, <2>2, <2>3, <2>4, <2>5, <2>6, AcknowledgeKeeps
<1>5. ASSUME NEW m \in wire, OnMessage(m), Acknowledging(m)
      PROVE  Inv'
  <2> DEFINE rows == {r \in sent : r.issue = m.tag /\ r.channel = "phone"}
  <2>1. /\ Acknowledge({m.tag}, rows) /\ wire' \subseteq wire
        /\ UNCHANGED <<callouts, calls, listener, answered>>
    BY <1>5 DEF OnMessage, Answered
  <2>2. m.tag \in Issues /\ m.tag \in answered /\ rows # {}
    BY <1>5 DEF Inv, Justified, Acknowledging
  <2>3. answered' \subseteq Issues
    BY <2>1 DEF Inv, TypeOK
  <2>4. QED
    BY <1>0, <2>1, <2>2, <2>3, AcknowledgeKeeps
<1>6. CASE Besides
  BY <1>0, <1>6, BesidesKeeps
<1>7. CASE UNCHANGED vars
  <2>1. UNCHANGED <<issue, told, sent, read, callouts, calls, wire, listener, answered>>
    BY <1>7 DEF vars, escalation, phone
  <2>2. Justified' /\ Written' /\ AcknowledgedByPeople'
    BY <2>1 DEF Inv, Justified, Acknowledging, Written, AcknowledgedByPeople, Acknowledgements
  <2>3. Escalation!TypeOK'
    BY <1>0, SameTypePrimed DEF EscalationProofs!Inv
  <2>4. TypeOK'
    BY <2>1, <2>3 DEF Inv, TypeOK, Ringing
  <2>5. QED
    BY <1>0, <2>2, <2>4 DEF Inv
<1>8. QED
  BY <1>1, <1>2, <1>3, <1>4, <1>5, <1>6, <1>7 DEF Next, Besides

(* The invariant holds at the start.                                       *)
LEMMA InvInit ==
  ASSUME Init
  PROVE  Inv
<1>1. EscalationProofs!Init
  BY SameNext DEF Init
<1>2. EscalationProofs!Inv
  BY <1>1, EscalationProofs!InvInit, StaffedIsStaffing, BoundsAssumption
<1>3. Escalation!TypeOK
  BY <1>2, SameType DEF EscalationProofs!Inv
<1>4. TypeOK
  BY <1>3 DEF Init, TypeOK
<1>5. Written /\ Justified
  BY DEF Init, Written, Justified
<1>6. AcknowledgedByPeople
  BY DEF Init, AcknowledgedByPeople, Acknowledgements, Escalation!Init, Escalation!NoIssue
<1>7. QED
  BY <1>2, <1>4, <1>5, <1>6 DEF Inv

-----------------------------------------------------------------------------
(* The theorems.                                                           *)

(* In every reachable state the types are right, what was written was      *)
(* told, and what would acknowledge is justified.                          *)
THEOREM InvHolds == Spec => []Inv
<1>1. Inv /\ [Next]_vars => Inv'
  BY InvStep
<1>2. Init => Inv
  BY InvInit
<1>3. QED
  BY <1>1, <1>2, PTL DEF Spec

(* Rows, callouts, calls and messages stay in their types, and nobody is   *)
(* called who was not written to.                                          *)
THEOREM PhoneTypeCorrect == Spec => []TypeOK
<1>1. Inv => TypeOK
  BY DEF Inv
<1>2. QED
  BY <1>1, InvHolds, PTL

(* An issue is handled exactly when somebody is on record who confirmed    *)
(* it, and only if a person answered.                                      *)
THEOREM PeopleAcknowledge == Spec => []AcknowledgedByPeople
<1>1. Inv => AcknowledgedByPeople
  BY DEF Inv
<1>2. QED
  BY <1>1, InvHolds, PTL

(* The notifications, the telephone and the listener implement the         *)
(* escalation, in which an acknowledgement is one step.                    *)
THEOREM PhoneImplementsEscalation == Spec => ImplementsEscalation
<1>1. Init => Escalation!Init
  BY DEF Init
<1>2. Inv /\ [Next]_vars => [Escalation!Next]_(Escalation!vars)
  BY StepRefines DEF Inv
<1>3. QED
  BY <1>1, <1>2, InvHolds, PTL DEF Spec, ImplementsEscalation, Escalation!Spec

(* What is proved of the escalation holds with the telephone: the people   *)
(* of a level an issue has reached were told, and no level is skipped.     *)
THEOREM EscalationInherited ==
  Spec => []Escalation!EscalatedIsTold /\ []Escalation!DeadlineHasRule
          /\ Escalation!OneLevelAtATime
<1>1. Spec => EscalationProofs!Spec
  BY PhoneImplementsEscalation, SameSpec DEF ImplementsEscalation
<1>2. EscalationProofs!Spec => []EscalationProofs!EscalatedIsTold
  BY EscalationProofs!EscalationIsTold, StaffedIsStaffing, BoundsAssumption, PTL
<1>3. EscalationProofs!Spec => []EscalationProofs!DeadlineHasRule
  BY EscalationProofs!DeadlinesHaveRules, StaffedIsStaffing, BoundsAssumption, PTL
<1>4. EscalationProofs!Spec => EscalationProofs!OneLevelAtATime
  BY EscalationProofs!LevelsAreNotSkipped, StaffedIsStaffing, BoundsAssumption, PTL
<1>5. /\ EscalationProofs!EscalatedIsTold => Escalation!EscalatedIsTold
      /\ EscalationProofs!DeadlineHasRule => Escalation!DeadlineHasRule
  BY DEF EscalationProofs!EscalatedIsTold, Escalation!EscalatedIsTold,
         EscalationProofs!DeadlineHasRule, Escalation!DeadlineHasRule,
         EscalationProofs!Rules, Escalation!Rules
<1>6. QED
  BY <1>1, <1>2, <1>3, <1>4, <1>5, PTL
     DEF EscalationProofs!OneLevelAtATime, Escalation!OneLevelAtATime

=============================================================================
