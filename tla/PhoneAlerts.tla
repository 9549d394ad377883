----------------------------- MODULE PhoneAlerts ------------------------------
(***************************************************************************)
(* How an issue reaches people and how their answer comes back             *)
(* (backend/app/services/notifications.py, workers/phone_sender.py,        *)
(* services/cht_tas.py, workers/tas_mqtt_listener.py), composed with the   *)
(* escalation of module IssueEscalation.                                   *)
(*                                                                         *)
(* Each level is told by a row per person and channel, and by one callout  *)
(* task.  The task asks the telephone service (TAS, external) to ring;     *)
(* TAS publishes what became of each call over MQTT at QoS 0; a listener   *)
(* process turns "answered" into the acknowledgement that reading the      *)
(* notification in the application gives.                                  *)
(***************************************************************************)
EXTENDS Naturals

CONSTANTS
  Issues, Workers, MaxTasks, MaxFaults,  \* as in IssueEscalation
  Persons,
  Team,       \* Team[i][n]: whom level n of issue i tells
  HasPhone    \* users.phone is not NULL

NoTag == "no tag"

ASSUME TeamAssumption ==
  /\ Team \in [Issues -> [0..2 -> SUBSET Persons]]
  /\ HasPhone \subseteq Persons
  /\ NoTag \notin Issues

ASSUME BoundsAssumption == MaxTasks \in Nat /\ MaxFaults \in Nat

VARIABLES
  issue, request, told, tasks, job, faults,  \* of IssueEscalation
  sent,       \* rows of `notifications`
  read,       \* those with status 'read'
  callouts,   \* send_callout tasks in the broker
  calls,      \* telephones TAS rings
  wire,       \* messages between TAS and the listener
  listener,   \* the listener process
  enabled,    \* TAS_ENABLED, with its keys
  answered    \* history: the issues somebody answered for

escalation == <<issue, request, told, tasks, job, faults>>
phone == <<callouts, calls, wire, listener>>
vars == <<escalation, sent, read, phone, enabled, answered>>

(* recipients_for_role_in_lab and recipients_for_global_role find somebody. *)
Staffed == [i \in Issues |-> {n \in 0..2 : Team[i][n] # {}}]

Escalation == INSTANCE IssueEscalation

-----------------------------------------------------------------------------
Channels == {"in_app", "phone"}
Row == [issue : Issues, level : 0..2, to : Persons, channel : Channels]

MaxRetries == 2
Callout == [issue : Issues, people : SUBSET HasPhone, retries : 0..MaxRetries]
Call    == [issue : Issues, to : HasPhone]
Message == [topic : {"calloutResult", "callEvent"}, status : {"answered", "unanswered"},
            tag : Issues \cup {NoTag}]

-----------------------------------------------------------------------------
(* Telling a level.                                                        *)

(* _dispatch_phone_callout: one task for those who have a telephone.       *)
Dispatched(i, n) ==
  {c \in {[issue |-> i, people |-> Team[i][n] \cap HasPhone, retries |-> 0]} : c.people # {}}

(* notify: rows for every recipient and channel, committed together, then  *)
(* the callout.                                                            *)
Notify(i, n) ==
  /\ sent' = sent \cup [issue : {i}, level : {n}, to : Team[i][n], channel : Channels]
  /\ callouts' = callouts \cup Dispatched(i, n)
  /\ UNCHANGED <<read, calls, wire, listener, enabled, answered>>

TellEngineers(i) == Escalation!TellEngineers(i) /\ Notify(i, 0)

Escalate(k, i) ==
  /\ Escalation!Escalate(k, i)
  /\ Notify(i, Escalation!Hop(job[k].todo[i]).level)

(* What the escalation does besides.                                       *)
EscalationStep ==
  /\ \/ \E i \in Issues : \/ Escalation!Create(i) \/ Escalation!Schedule(i)
                          \/ Escalation!RequestFails(i)
                          \/ Escalation!Elapse(i) \/ Escalation!Lose(i)
     \/ \E k \in Workers :
          \/ Escalation!Sweep(k) \/ Escalation!Rearm(k)
          \/ Escalation!Fail(k) \/ Escalation!Die(k)
          \/ \E i \in Issues : Escalation!TakeTask(k, i) \/ Escalation!EscalateUnheard(k, i)
  /\ UNCHANGED <<sent, read, phone, enabled, answered>>

-----------------------------------------------------------------------------
(* Acknowledging.                                                          *)

(* Mutant of Acknowledge: the deadline is not cleared.                     *)
AcknowledgeStillDue(is, rows) ==
  /\ issue' = [i \in Issues |-> [Escalation!Acked(is)[i] EXCEPT !.next = issue[i].next]]
  /\ read' = read \cup rows
  /\ UNCHANGED <<request, told, tasks, job, faults, sent>>

(* The UPDATEs of mark_notification_answered and _ack_source_issues, with  *)
(* those of the notifications.                                             *)
Acknowledge(is, rows) ==
  /\ issue' = Escalation!Acked(is)
  /\ read' = read \cup rows
  /\ UNCHANGED <<request, told, tasks, job, faults, sent>>

(* list_notifications: a person sees their own.                            *)
Listed(p) == {r \in sent : r.to = p}

(* The repository's mark_read; ids of other people's rows are skipped.     *)
Flipped(p, ids) == (ids \cap Listed(p)) \ read

(* mark_read: a person marks notifications of which some are unread; the   *)
(* issues of those that were read before are acknowledged with them.       *)
MarkRead(p) ==
  \E ids \in SUBSET Listed(p) :
    /\ Flipped(p, ids) # {}
    /\ Acknowledge({r.issue : r \in ids}, ids)
    /\ answered' = answered \cup {r.issue : r \in ids}
    /\ UNCHANGED <<phone, enabled>>

(* mark_notification_answered.  Whose telephone it was is not known.       *)
Answered(i) == Acknowledge({i}, {r \in sent : r.issue = i /\ r.channel = "phone"})

-----------------------------------------------------------------------------
(* The callout task.                                                       *)

Ringing(c) == {[issue |-> c.issue, to |-> p] : p \in c.people}

(* send_callout, accepted by TAS or skipped for lack of a configuration.   *)
SendCallout(c) ==
  /\ c \in callouts
  /\ callouts' = callouts \ {c}
  /\ calls' = IF enabled THEN calls \cup Ringing(c) ELSE calls
  /\ UNCHANGED <<escalation, sent, read, wire, listener, enabled, answered>>

(* Mutant of Retried: one time too many.                                   *)
RetriedOnceMore(c) ==
  IF c.retries <= MaxRetries THEN {[c EXCEPT !.retries = @ + 1]} ELSE {}

(* self.retry: two more attempts at most.                                  *)
Retried(c) == IF c.retries < MaxRetries THEN {[c EXCEPT !.retries = @ + 1]} ELSE {}

(* callout raises CHTTASError: TAS refuses, or its answer does not come,   *)
(* although it may have taken the order.                                   *)
FailCallout(c) ==
  /\ enabled /\ c \in callouts
  /\ callouts' = (callouts \ {c}) \cup Retried(c)
  /\ \E taken \in BOOLEAN : calls' = IF taken THEN calls \cup Ringing(c) ELSE calls
  /\ UNCHANGED <<escalation, sent, read, wire, listener, enabled, answered>>

(* The task is not enqueued, or the broker loses it.                       *)
LoseCallout(c) ==
  /\ c \in callouts
  /\ callouts' = callouts \ {c}
  /\ UNCHANGED <<escalation, sent, read, calls, wire, listener, enabled, answered>>

-----------------------------------------------------------------------------
(* TAS, external.  A message reaches a listener that is connected when it  *)
(* is published, or nobody.                                                *)
Publish(m) == wire' = IF listener = "connected" THEN wire \cup {m} ELSE wire

(* A call goes on: its events are published too.                           *)
CallEvent(c) ==
  /\ c \in calls
  /\ Publish([topic |-> "callEvent", status |-> "answered", tag |-> c.issue])
  /\ UNCHANGED <<escalation, sent, read, callouts, calls, listener, enabled, answered>>

(* A call ends.  TAS gives the tag back, or leaves it out.                 *)
EndCall(c) ==
  \E status \in {"answered", "unanswered"}, tag \in {c.issue, NoTag} :
    /\ c \in calls
    /\ calls' = calls \ {c}
    /\ Publish([topic |-> "calloutResult", status |-> status, tag |-> tag])
    /\ answered' = IF status = "answered" THEN answered \cup {c.issue} ELSE answered
    /\ UNCHANGED <<escalation, sent, read, callouts, listener, enabled>>

-----------------------------------------------------------------------------
(* The listener process.                                                   *)

(* main: it exits at once unless TAS is enabled.                           *)
StartListener ==
  /\ enabled /\ listener = "stopped"
  /\ listener' = "disconnected"
  /\ UNCHANGED <<escalation, sent, read, callouts, calls, wire, enabled, answered>>

(* _on_connect subscribes, after each reconnection too.                    *)
Connect ==
  /\ listener = "disconnected"
  /\ listener' = "connected"
  /\ UNCHANGED <<escalation, sent, read, callouts, calls, wire, enabled, answered>>

(* The connection drops, or a signal stops the process, and what was on    *)
(* the way is gone.                                                        *)
Disconnect ==
  /\ listener = "connected"
  /\ listener' \in {"disconnected", "stopped"}
  /\ wire' = {}
  /\ UNCHANGED <<escalation, sent, read, callouts, calls, enabled, answered>>

(* Mutant of Acknowledging: any result of a call acknowledges.             *)
AcknowledgingAnyStatus(m) == m.topic = "calloutResult" /\ m.tag \in Issues

(* _on_message, handle_message_payload, _parse_issue_id.                   *)
Acknowledging(m) ==
  m.topic = "calloutResult" /\ m.status = "answered" /\ m.tag \in Issues

OnMessage(m) ==
  /\ m \in wire
  /\ wire' = wire \ {m}
  /\ IF Acknowledging(m) THEN Answered(m.tag) ELSE UNCHANGED <<escalation, sent, read>>
  /\ UNCHANGED <<callouts, calls, listener, enabled, answered>>

(* The acknowledgement raises; the message is not tried again.             *)
MessageFails(m) ==
  /\ m \in wire /\ Acknowledging(m)
  /\ wire' = wire \ {m}
  /\ UNCHANGED <<escalation, sent, read, callouts, calls, listener, enabled, answered>>

-----------------------------------------------------------------------------
Init ==
  /\ Escalation!Init
  /\ sent = {} /\ read = {} /\ answered = {}
  /\ callouts = {} /\ calls = {} /\ wire = {}
  /\ listener = "stopped"
  /\ enabled \in BOOLEAN

Next ==
  \/ EscalationStep
  \/ \E i \in Issues : TellEngineers(i) \/ \E k \in Workers : Escalate(k, i)
  \/ \E p \in Persons : MarkRead(p)
  \/ \E c \in callouts : SendCallout(c) \/ FailCallout(c) \/ LoseCallout(c)
  \/ \E c \in calls : CallEvent(c) \/ EndCall(c)
  \/ StartListener \/ Connect \/ Disconnect
  \/ \E m \in wire : OnMessage(m) \/ MessageFails(m)

Spec == Init /\ [][Next]_vars

-----------------------------------------------------------------------------
(* Types; and whoever is called, or will be, was written to on the         *)
(* telephone channel first.                                                *)
TypeOK ==
  /\ Escalation!TypeOK
  /\ sent \subseteq Row /\ read \subseteq sent
  /\ callouts \subseteq Callout /\ calls \subseteq Call /\ wire \subseteq Message
  /\ listener \in {"stopped", "disconnected", "connected"}
  /\ answered \subseteq Issues
  /\ \A c \in calls \cup UNION {Ringing(t) : t \in callouts} :
       \E r \in sent : r.issue = c.issue /\ r.to = c.to /\ r.channel = "phone"

(* list_acknowledgements: who is shown to have confirmed an issue.         *)
Acknowledgements(i) == {r.to : r \in {s \in read : s.issue = i}}

(* An issue is handled exactly when the application can name somebody who  *)
(* confirmed it, and never unless a person answered: a call that rang out, *)
(* a call event, a message without tag, a late or repeated call do not     *)
(* take an issue from the people it still has to reach.                    *)
AcknowledgedByPeople ==
  \A i \in Issues : /\ issue[i].handled <=> Acknowledgements(i) # {}
                    /\ issue[i].handled => i \in answered

(* Whatever the telephone does, and however many notifications are marked  *)
(* at once, is to the issues a step of their escalation or nothing: only   *)
(* an issue whose people were told is acknowledged, with all that belongs  *)
(* to it.                                                                  *)
ImplementsEscalation == Escalation!Spec

=============================================================================
