---------------------------- MODULE OrderApproval ----------------------------
(***************************************************************************)
(* An order from its draft to its delivery: OrderRepository                *)
(* (backend/app/repos/order_repo.py).  The applicant submits it, the       *)
(* supervisors of each laboratory decide on the items of theirs, the       *)
(* order's status follows its items, and the order is charged to the       *)
(* quotas of its applicant and department when all of it is approved.      *)
(*                                                                         *)
(* A handler reads the order with its items in one statement, may count    *)
(* what is used of the quotas in others, and commits what differs from     *)
(* the copy.  Every item it touches has a new updated_at, so its UPDATE    *)
(* fails if the row is gone.                                               *)
(***************************************************************************)
EXTENDS Integers, Sequences, FiniteSets, Functions

CONSTANTS
  Orders, Labs, Sessions,
  Layouts,     \* the items an applicant may ask for: sequences of labs
  LabScopes,   \* the sets of labs a supervisor may decide for
  Scopes,      \* users and departments with an active quota setting
  ScopesOf,    \* ScopesOf[o]: those an order counts for
  Limit,       \* Limit[q]: monthly_limit of the setting
  MaxItemId    \* bound: ids of item rows

ASSUME OrdersAssumption == IsFiniteSet(Orders)

ASSUME LayoutsAssumption ==
  Layouts \subseteq Seq(Labs) /\ \A layout \in Layouts : Len(layout) > 0

ASSUME BoundsAssumption == MaxItemId \in Nat /\ \A layout \in Layouts : Len(layout) <= MaxItemId

ASSUME LabScopesAssumption == LabScopes \subseteq SUBSET Labs

ASSUME QuotaAssumption == ScopesOf \in [Orders -> SUBSET Scopes] /\ Limit \in [Scopes -> Nat]

VARIABLES
  order,  \* rows of `orders`
  items,  \* rows of `order_items` of each order, by id
  used,   \* used_count of each order's rows in `quota_usages`
  sess    \* what each handler holds in memory

vars == <<order, items, used, sess>>

-----------------------------------------------------------------------------
Statuses == {"draft", "pending_approval", "cancelled", "approved", "returned", "rejected",
             "sample_delivered", "sample_received", "ready_for_pickup", "closed"}

(* Approved, and what apply_action makes of an approved order.             *)
Granted == {"approved", "sample_delivered", "sample_received", "ready_for_pickup", "closed"}

(* TRANSITIONS, EDITABLE_STATUSES and the guard of delete_order.           *)
Accepts == [submit  |-> {"draft", "returned"},
            cancel  |-> {"draft", "returned", "pending_approval"},
            approve |-> {"pending_approval"},
            return  |-> {"pending_approval"},
            reject  |-> {"pending_approval"},
            update  |-> {"draft", "returned"},
            delete  |-> {"draft"},
            advance |-> {"approved", "sample_delivered", "sample_received",
                         "ready_for_pickup"}]

(* Mutant of Following: a status the enumeration does not have.            *)
FollowingPast == [approved         |-> "sample_delivered",
                  sample_delivered |-> "sample_received",
                  sample_received  |-> "ready_for_pickup",
                  ready_for_pickup |-> "picked_up"]

Following == [approved         |-> "sample_delivered",
              sample_delivered |-> "sample_received",
              sample_received  |-> "ready_for_pickup",
              ready_for_pickup |-> "closed"]

Row  == [status : Statuses \cup {"absent"}, total : Nat, deleted : BOOLEAN]
Item == [lab : Labs, status : {"draft", "pending_approval", "approved", "returned", "rejected"},
         exceeded : BOOLEAN, override : BOOLEAN]

ItemIds == 1..MaxItemId

NoOrder == [status |-> "absent", total |-> 0, deleted |-> FALSE]
NoLines == [i \in {} |-> [lab |-> "", status |-> "draft", exceeded |-> FALSE,
                          override |-> FALSE]]

Idle == [op |-> "none"]

-----------------------------------------------------------------------------
(* Mutant of Aggregate: one approval speaks for the whole order.           *)
AggregateAny(lines, status) ==
  LET seen == {lines[i].status : i \in DOMAIN lines}
  IN IF "rejected" \in seen THEN "rejected"
     ELSE IF "returned" \in seen THEN "returned"
     ELSE IF "approved" \in seen THEN "approved" ELSE "pending_approval"

(* aggregate_approval_status.                                              *)
Aggregate(lines, status) ==
  LET seen == {lines[i].status : i \in DOMAIN lines}
  IN IF "rejected" \in seen THEN "rejected"
     ELSE IF "returned" \in seen THEN "returned"
     ELSE IF seen = {"approved"} THEN "approved"
     ELSE IF seen \cap {"pending_approval", "draft"} # {} THEN "pending_approval"
     ELSE status

NewItem(lab) == [lab |-> lab, status |-> "draft", exceeded |-> FALSE, override |-> FALSE]

(* Items of a layout with the ids after `base`.                            *)
NewLines(layout, base) == [i \in (base + 1)..(base + Len(layout)) |-> NewItem(layout[i - base])]

(* Where a session's new items may be numbered: no row that stays and no   *)
(* other copy has those ids.  The sequence of the table never repeats an   *)
(* id, the bounded model repeats those nobody knows any more.              *)
FreeBases(s, n) ==
  LET o     == sess[s].of
      known == (DOMAIN items[o] \ DOMAIN sess[s].lines)
                 \cup UNION {DOMAIN sess[t].lines : t \in {r \in Sessions \ {s} :
                                sess[r] # Idle /\ sess[r].of = o}}
  IN {b \in 0..(MaxItemId - n) : ((b + 1)..(b + n)) \cap known = {}}

Dirty(stored, copy, new) == IF new # copy THEN new ELSE stored

MergeRow(row, copy, new) ==
  [status  |-> Dirty(row.status, copy.status, new.status),
   total   |-> Dirty(row.total, copy.total, new.total),
   deleted |-> Dirty(row.deleted, copy.deleted, new.deleted)]

MergeItem(item, copy, new) ==
  [lab      |-> Dirty(item.lab, copy.lab, new.lab),
   status   |-> Dirty(item.status, copy.status, new.status),
   exceeded |-> Dirty(item.exceeded, copy.exceeded, new.exceeded),
   override |-> Dirty(item.override, copy.override, new.override)]

SaveRow(s, new) ==
  order' = [order EXCEPT ![sess[s].of] = MergeRow(@, sess[s].row, new)]

(* The UPDATEs of the items of T; one whose row is gone is an error, and   *)
(* the handler fails (Abandon).                                            *)
SaveItems(s, T, new) ==
  /\ T \subseteq DOMAIN items[sess[s].of]
  /\ items' = [items EXCEPT ![sess[s].of] =
                 [i \in DOMAIN @ |-> IF i \in T THEN MergeItem(@[i], sess[s].lines[i], new[i])
                                     ELSE @[i]]]

End(s) == sess' = [sess EXCEPT ![s] = Idle]

-----------------------------------------------------------------------------
(* A working handler has its copy of the order, the used_count and the     *)
(* remaining quota of the scopes it has counted so far, and whether it has *)
(* seen that the order was not charged before.                             *)
Load(s, op, o) ==
  /\ sess[s] = Idle
  /\ order[o].status \in Accepts[op]
  /\ ~order[o].deleted
  /\ sess' = [sess EXCEPT ![s] = [op |-> op, of |-> o, row |-> order[o], lines |-> items[o],
                                  usage |-> [q \in {} |-> 0], left |-> [q \in {} |-> 0],
                                  uncharged |-> FALSE]]
  /\ UNCHANGED <<order, items, used>>

(* A refused request, a failed statement, a client that goes away.         *)
Abandon(s) ==
  /\ sess[s] # Idle
  /\ End(s)
  /\ UNCHANGED <<order, items, used>>

-----------------------------------------------------------------------------
(* The applicant.                                                          *)

Create(o, layout) ==
  /\ order[o].status = "absent"
  /\ order' = [order EXCEPT ![o] = [status |-> "draft", total |-> Len(layout),
                                    deleted |-> FALSE]]
  /\ items' = [items EXCEPT ![o] = NewLines(layout, 0)]
  /\ UNCHANGED <<used, sess>>

(* update_order with a list of items: the old rows go, new ones come.      *)
Replace(s, layout) ==
  /\ sess[s].op = "update"
  /\ LET o == sess[s].of
     IN /\ FreeBases(s, Len(layout)) # {}
        /\ LET kept  == DOMAIN items[o] \ DOMAIN sess[s].lines
               fresh == NewLines(layout, CHOOSE b \in FreeBases(s, Len(layout)) : TRUE)
           IN items' = [items EXCEPT ![o] = [i \in kept \cup DOMAIN fresh |->
                                               IF i \in kept THEN @[i] ELSE fresh[i]]]
        /\ SaveRow(s, [sess[s].row EXCEPT !.total = Len(layout)])
  /\ End(s)
  /\ UNCHANGED used

(* update_order of one returned item; quota_exceeded stays as it was.      *)
Patch(s, i, lab) ==
  /\ sess[s].op = "update"
  /\ i \in DOMAIN sess[s].lines
  /\ sess[s].lines[i].status = "returned"
  /\ SaveItems(s, {i}, [j \in {i} |-> [sess[s].lines[i] EXCEPT
                          !.lab = lab, !.status = "draft", !.override = FALSE]])
  /\ SaveRow(s, [sess[s].row EXCEPT !.total = Cardinality(DOMAIN sess[s].lines)])
  /\ End(s)
  /\ UNCHANGED used

Delete(s) ==
  /\ sess[s].op = "delete"
  /\ SaveRow(s, [sess[s].row EXCEPT !.deleted = TRUE])
  /\ End(s)
  /\ UNCHANGED <<items, used>>

Cancel(s) ==
  /\ sess[s].op = "cancel"
  /\ SaveRow(s, [sess[s].row EXCEPT !.status = "cancelled"])
  /\ End(s)
  /\ UNCHANGED <<items, used>>

CountedFor(q) == {o \in Orders : q \in ScopesOf[o]}

(* _quota_check: first the usage of the scope ...                          *)
CountUsed(s, q) ==
  /\ sess[s].op = "submit"
  /\ q \in ScopesOf[sess[s].of] \ DOMAIN sess[s].usage
  /\ sess' = [sess EXCEPT ![s].usage = [p \in DOMAIN @ \cup {q} |->
                IF p = q THEN SumFunctionOnSet(used, CountedFor(q)) ELSE @[p]]]
  /\ UNCHANGED <<order, items, used>>

(* Mutant of Reserved: pending orders do not count yet.                    *)
ReservedNothing(s, q) == 0

(* ... then _reserved_quota_count: the orders waiting for approval.  The   *)
(* handler's own order, if another one submitted it meanwhile, counts with *)
(* its copy.                                                               *)
Reserved(s, q) ==
  SumFunctionOnSet([o \in Orders |-> IF o = sess[s].of THEN sess[s].row.total
                                     ELSE order[o].total],
                   {o \in CountedFor(q) : order[o].status = "pending_approval"
                                            /\ ~order[o].deleted})

CountReserved(s, q) ==
  /\ sess[s].op = "submit"
  /\ q \in DOMAIN sess[s].usage \ DOMAIN sess[s].left
  /\ sess' = [sess EXCEPT ![s].left = [p \in DOMAIN @ \cup {q} |->
                IF p = q THEN Limit[q] - sess[s].usage[q] - Reserved(s, q) ELSE @[p]]]
  /\ UNCHANGED <<order, items, used>>

(* effective_remaining_quota: the least of these.                          *)
Remaining(s) ==
  IF DOMAIN sess[s].left = {} THEN {sess[s].row.total}
  ELSE {sess[s].left[q] : q \in DOMAIN sess[s].left}

(* The items whose index is not below what remains.                        *)
Exceeding(s) ==
  {i \in DOMAIN sess[s].lines : \E remaining \in Remaining(s) :
     Cardinality({j \in DOMAIN sess[s].lines : j < i}) >= remaining}

Submit(s) ==
  /\ sess[s].op = "submit"
  /\ DOMAIN sess[s].left = ScopesOf[sess[s].of]
  /\ SaveItems(s, DOMAIN sess[s].lines,
       [i \in DOMAIN sess[s].lines |->
          [lab |-> sess[s].lines[i].lab, status |-> "pending_approval",
           exceeded |-> i \in Exceeding(s), override |-> FALSE]])
  /\ SaveRow(s, [sess[s].row EXCEPT !.status = "pending_approval"])
  /\ End(s)
  /\ UNCHANGED used

-----------------------------------------------------------------------------
(* Supervisors.                                                            *)

Approvable(s, labs) ==
  {i \in DOMAIN sess[s].lines :
     /\ sess[s].lines[i].lab \in labs
     /\ sess[s].lines[i].status \in {"pending_approval", "draft"}}

(* The item the request names, or all of the supervisor's.                 *)
Targets(s) ==
  {{i} : i \in UNION {Approvable(s, labs) : labs \in LabScopes}}
    \cup ({Approvable(s, labs) : labs \in LabScopes} \ {{}})

(* record_quota_usage looks for rows of the order.  An order charged       *)
(* before has two of them, scalar_one_or_none raises, and the handler      *)
(* fails.                                                                  *)
CheckUsage(s) ==
  /\ sess[s].op = "approve"
  /\ used[sess[s].of] = 0
  /\ ~sess[s].uncharged
  /\ sess' = [sess EXCEPT ![s].uncharged = TRUE]
  /\ UNCHANGED <<order, items, used>>

(* Mutant of Charge: only the items approved last are charged.             *)
ChargeTargets(s, T) ==
  /\ sess[s].uncharged
  /\ used' = [used EXCEPT ![sess[s].of] = @ + Cardinality(T)]

Charge(s, T) ==
  /\ sess[s].uncharged
  /\ used' = [used EXCEPT ![sess[s].of] = @ + sess[s].row.total]

(* An item over quota needs the request's quotaOverride, or one it was     *)
(* given before.                                                           *)
Allowed(s, T, override) ==
  override \/ \A i \in T : sess[s].lines[i].exceeded => sess[s].lines[i].override

Approve(s, T, override) ==
  /\ sess[s].op = "approve"
  /\ T \in Targets(s)
  /\ Allowed(s, T, override)
  /\ LET new == [i \in DOMAIN sess[s].lines |->
                   IF i \in T
                   THEN [lab      |-> sess[s].lines[i].lab,
                         status   |-> "approved",
                         exceeded |-> sess[s].lines[i].exceeded \/ override,
                         override |-> sess[s].lines[i].override \/ override]
                   ELSE sess[s].lines[i]]
         status == Aggregate(new, sess[s].row.status)
     IN /\ SaveItems(s, T, new)
        /\ SaveRow(s, [sess[s].row EXCEPT !.status = status])
        /\ IF status = "approved" THEN Charge(s, T) ELSE UNCHANGED used
  /\ End(s)

Return(s, T) ==
  /\ sess[s].op = "return"
  /\ T \in Targets(s)
  /\ LET new == [i \in DOMAIN sess[s].lines |->
                   IF i \in T THEN [sess[s].lines[i] EXCEPT !.status = "returned"]
                   ELSE sess[s].lines[i]]
     IN /\ SaveItems(s, T, new)
        /\ SaveRow(s, [sess[s].row EXCEPT !.status = Aggregate(new, sess[s].row.status)])
  /\ End(s)
  /\ UNCHANGED used

(* One item to reject is enough to reject them all.                        *)
Reject(s) ==
  /\ sess[s].op = "reject"
  /\ Targets(s) # {}
  /\ SaveItems(s, DOMAIN sess[s].lines,
       [i \in DOMAIN sess[s].lines |-> [sess[s].lines[i] EXCEPT !.status = "rejected"]])
  /\ SaveRow(s, [sess[s].row EXCEPT !.status = "rejected"])
  /\ End(s)
  /\ UNCHANGED used

(* confirm_delivery, confirm_received, ready_for_pickup and close.         *)
Advance(s) ==
  /\ sess[s].op = "advance"
  /\ SaveRow(s, [sess[s].row EXCEPT !.status = Following[sess[s].row.status]])
  /\ End(s)
  /\ UNCHANGED <<items, used>>

-----------------------------------------------------------------------------
Init ==
  /\ order = [o \in Orders |-> NoOrder]
  /\ items = [o \in Orders |-> NoLines]
  /\ used  = [o \in Orders |-> 0]
  /\ sess  = [s \in Sessions |-> Idle]

Edit(s) ==
  \/ \E layout \in Layouts : Replace(s, layout)
  \/ \E i \in ItemIds, lab \in Labs : Patch(s, i, lab)
  \/ Delete(s)
  \/ Cancel(s)

Count(s) == \E q \in Scopes : CountUsed(s, q) \/ CountReserved(s, q)

Decide(s) ==
  \/ CheckUsage(s)
  \/ \E T \in SUBSET ItemIds, override \in BOOLEAN : Approve(s, T, override)
  \/ \E T \in SUBSET ItemIds : Return(s, T)
  \/ Reject(s)

Next ==
  \/ \E o \in Orders, layout \in Layouts : Create(o, layout)
  \/ \E s \in Sessions, op \in DOMAIN Accepts, o \in Orders : Load(s, op, o)
  \/ \E s \in Sessions : Edit(s) \/ Count(s) \/ Submit(s) \/ Decide(s) \/ Advance(s)
                             \/ Abandon(s)

Spec == Init /\ [][Next]_vars

-----------------------------------------------------------------------------
(* Properties.                                                             *)

Partial(f, S, T) == DOMAIN f \subseteq S /\ f \in [DOMAIN f -> T]

(* Rows and sessions hold values of their types.                           *)
TypeOK ==
  /\ order \in [Orders -> Row]
  /\ DOMAIN items = Orders /\ \A o \in Orders : Partial(items[o], ItemIds, Item)
  /\ used \in [Orders -> Nat]
  /\ DOMAIN sess = Sessions
  /\ \A s \in Sessions : sess[s] # Idle =>
       /\ sess[s].op \in DOMAIN Accepts
       /\ sess[s].of \in Orders
       /\ sess[s].row \in Row
       /\ Partial(sess[s].lines, ItemIds, Item)
       /\ Partial(sess[s].usage, Scopes, Nat)
       /\ Partial(sess[s].left, Scopes, Int)
       /\ sess[s].uncharged \in BOOLEAN

Having(lines, statuses) == {i \in DOMAIN lines : lines[i].status \in statuses}

Agrees(status, lines) ==
  /\ status = "draft" => Having(lines, {"draft"}) = DOMAIN lines
  /\ status = "pending_approval" =>
       /\ Having(lines, {"pending_approval"}) # {}
       /\ Having(lines, {"pending_approval", "approved"}) = DOMAIN lines
  /\ status = "returned" =>
       /\ Having(lines, {"returned", "draft"}) # {}
       /\ Having(lines, {"rejected"}) = {}
  /\ status = "rejected" => Having(lines, {"rejected"}) = DOMAIN lines
  /\ status \in Granted => Having(lines, {"approved"}) = DOMAIN lines

(* The order's status is what its items say, whichever way they went       *)
(* through submission, partial approval, return, editing and resubmission. *)
StatusIsAggregate == \A o \in Orders : Agrees(order[o].status, items[o])

(* An order is charged with each of its items once, when the last of them  *)
(* is approved, and with nothing before or otherwise.                      *)
ChargedInFull ==
  \A o \in Orders :
    used[o] = IF order[o].status \in Granted THEN Cardinality(DOMAIN items[o]) ELSE 0

Ordinary(o) == Cardinality({i \in DOMAIN items[o] : ~items[o][i].override})

(* However submissions, approvals, returns and cancellations of several    *)
(* orders follow one another, no more items than a quota allows are        *)
(* charged to it without a special approval of a supervisor.               *)
WithinQuota ==
  \A q \in Scopes :
    SumFunctionOnSet([o \in Orders |-> Ordinary(o)],
                     {o \in CountedFor(q) : order[o].status \in Granted}) <= Limit[q]

(* Whatever overlaps, an order that was approved, and everything that      *)
(* follows approval, has been charged.                                     *)
ApprovedIsCharged == \A o \in Orders : order[o].status \in Granted => used[o] > 0

=============================================================================
