-------------------------- MODULE DispatchingProofs --------------------------
(***************************************************************************)
(* Theorems about Dispatching, for any number of laboratories, WIPs,       *)
(* dispatches, machines, recipes and experiment items.                     *)
(***************************************************************************)
EXTENDS Dispatching, TLAPS

-----------------------------------------------------------------------------
(* The chain of wips.status.                                               *)

ChainStatuses == {"created", "waiting_schedule", "scheduled", "dispatched"}

(* Where each status stands on the chain.                                  *)
LEMMA ChainFacts ==
  /\ DOMAIN Chain = 1..4
  /\ Chain[1] = "created" /\ Chain[2] = "waiting_schedule"
  /\ Chain[3] = "scheduled" /\ Chain[4] = "dispatched"
BY DEF Chain

(* The statuses on the chain, and their ranks.                             *)
LEMMA RankFacts ==
  /\ \A s : InChain(s) <=> s \in ChainStatuses
  /\ Rank("created") = 1 /\ Rank("waiting_schedule") = 2
  /\ Rank("scheduled") = 3 /\ Rank("dispatched") = 4
  /\ {Chain[n] : n \in DOMAIN Chain} = ChainStatuses
<1>1. \A n \in DOMAIN Chain : n \in {1, 2, 3, 4}
  BY ChainFacts
<1>2. 1 \in DOMAIN Chain /\ 2 \in DOMAIN Chain /\ 3 \in DOMAIN Chain /\ 4 \in DOMAIN Chain
  BY ChainFacts
<1>3. \A s : InChain(s) <=> s \in ChainStatuses
  BY <1>1, <1>2, ChainFacts DEF InChain, ChainStatuses
<1>4. ASSUME NEW m \in DOMAIN Chain
      PROVE  Rank(Chain[m]) = m
  <2>1. \A n \in DOMAIN Chain : Chain[n] = Chain[m] => n = m
    BY <1>1, <1>4, ChainFacts
  <2>2. Rank(Chain[m]) \in DOMAIN Chain /\ Chain[Rank(Chain[m])] = Chain[m]
    BY <1>4 DEF Rank
  <2>3. QED
    BY <2>1, <2>2
<1>5. QED
  BY <1>1, <1>2, <1>3, <1>4, ChainFacts DEF ChainStatuses

-----------------------------------------------------------------------------
(* Rows and what a request writes into them.                               *)

Row == [wip : Wips, item : ItemKinds, lab : Labs,
        status : {"pending", "scheduling", "waiting_load"},
        suggested : MachineIds \cup {None}, machine : MachineIds \cup {None},
        recipe : RecipeIds \cup {None}]

(* The columns a request on an existing dispatch may write.                *)
ColumnOK(f, v) ==
  \/ f = "status" /\ v \in {"scheduling", "waiting_load"}
  \/ f = "suggested" /\ v \in MachineIds \cup {None}
  \/ f = "machine" /\ v \in MachineIds
  \/ f = "recipe" /\ v \in RecipeIds

(* A merge of such columns gives a row of the same WIP, item and lab.      *)
LEMMA MergedRow ==
  ASSUME NEW r \in Row, NEW new, \A f \in DOMAIN new : ColumnOK(f, new[f])
  PROVE  /\ Merged(r, new) \in Row
         /\ Merged(r, new).wip = r.wip /\ Merged(r, new).item = r.item
         /\ Merged(r, new).lab = r.lab
BY DEF Merged, Row, ColumnOK

(* What suggest and replan write.                                          *)
LEMMA SuggestedRow ==
  ASSUME NEW r \in Row, NEW m \in MachineIds \cup {None},
         NEW new, new = Changed(r, [status |-> "scheduling", suggested |-> m])
  PROVE  /\ \A f \in DOMAIN new : ColumnOK(f, new[f])
         /\ Merged(r, new).status = "scheduling"
         /\ Merged(r, new).wip = r.wip
BY DEF Merged, Changed, Row, ColumnOK

(* What assign writes.                                                     *)
LEMMA AssignedRow ==
  ASSUME NEW r \in Row, NEW m \in MachineIds, NEW k \in RecipeIds,
         NEW new, new = Changed(r, [status |-> "waiting_load", machine |-> m, recipe |-> k])
  PROVE  /\ \A f \in DOMAIN new : ColumnOK(f, new[f])
         /\ Merged(r, new).status = "waiting_load"
         /\ Merged(r, new).machine = m /\ Merged(r, new).recipe = k
         /\ Merged(r, new).wip = r.wip /\ Merged(r, new).item = r.item
         /\ Merged(r, new).lab = r.lab
BY DEF Merged, Changed, Row, ColumnOK

(* An insert stores its row.                                               *)
LEMMA InsertedRow ==
  ASSUME NEW r \in Row
  PROVE  Merged(NoDispatch, r) = r
<1>1. DOMAIN NoDispatch = DOMAIN r
  BY DEF NoDispatch, Row
<1>2. r = [f \in DOMAIN r |-> r[f]]
  BY DEF Row
<1>3. Merged(NoDispatch, r) = [f \in DOMAIN r |-> r[f]]
  BY <1>1 DEF Merged
<1>4. QED
  BY <1>2, <1>3

(* A row is not the absence of one.                                        *)
LEMMA RowIsThere ==
  ASSUME NEW r \in Row
  PROVE  /\ r # NoDispatch /\ DOMAIN r = DOMAIN NoDispatch
         /\ r.status \in DispatchStatuses \ {"absent"}
BY DEF Row, NoDispatch, DispatchStatuses

-----------------------------------------------------------------------------
(* Types.  What a request has read and not yet committed has types too.    *)

WipStatus == ChainStatuses \cup Beyond
Targets   == {"waiting_schedule", "scheduled", "dispatched"}

MachineRow == [lab : Labs, items : SUBSET ItemKinds, status : Statuses]
RecipeRow  == [item : ItemKinds, machines : SUBSET MachineIds]
ExecRow    == [status : {"waiting_load", "running", "ended"}, on : BOOLEAN, abort : BOOLEAN]

RowsTyped ==
  /\ dispatches = [d \in DispatchIds |-> dispatches[d]]
  /\ \A d \in DispatchIds :
       \/ dispatches[d] = NoDispatch
       \/ dispatches[d] \in Row /\ dispatches[d].lab = WipLab[dispatches[d].wip]

(* What a request plans to write: new rows, or columns of rows that exist. *)
Typed(plan, moves, inserts) ==
  /\ DOMAIN plan \subseteq DispatchIds
  /\ DOMAIN moves \subseteq Wips
  /\ \A w \in DOMAIN moves : moves[w] \in Targets
  /\ \A d \in DOMAIN plan :
       IF inserts
       THEN plan[d] \in Row /\ plan[d].status = "pending" /\ plan[d].lab = WipLab[plan[d].wip]
       ELSE dispatches[d] \in Row /\ \A f \in DOMAIN plan[d] : ColumnOK(f, plan[d][f])

PlanTyped(p) == sess[p] # Idle => Typed(sess[p].plan, sess[p].moves, sess[p].inserts)

PlansTyped ==
  /\ sess = [p \in Planners |-> sess[p]]
  /\ \A p \in Planners : PlanTyped(p)

TypeInv ==
  /\ wips \in [Wips -> WipStatus]
  /\ execs \in [Wips -> ExecRow]
  /\ RowsTyped
  /\ machines = [m \in MachineIds |-> machines[m]]
  /\ \A m \in MachineIds : machines[m] = NoMachine \/ machines[m] \in MachineRow
  /\ recipes = [r \in RecipeIds |-> recipes[r]]
  /\ \A r \in RecipeIds : recipes[r] = NoRecipe \/ recipes[r] \in RecipeRow
  /\ PlansTyped

(* What is planned, request by request.                                    *)
LEMMA CreatePlans ==
  ASSUME TypeInv, NEW p \in Planners, Create(p)
  PROVE  \E d \in DispatchIds, w \in Wips, row \in Row :
           /\ dispatches[d] = NoDispatch /\ CanAccess(p, WipLab[w])
           /\ row.wip = w /\ row.lab = WipLab[w] /\ row.status = "pending"
           /\ Prepare(p, [e \in {d} |-> row], Move({w}, "waiting_schedule"), TRUE)
<1>1. PICK d \in DispatchIds, w \in Wips, item \in ItemKinds :
        /\ dispatches[d] = NoDispatch
        /\ CanAccess(p, WipLab[w])
        /\ Prepare(p, [e \in {d} |-> [NoDispatch EXCEPT !.wip = w, !.item = item, !.lab = WipLab[w],
                                                        !.status = "pending"]],
                   Move({w}, "waiting_schedule"), TRUE)
  BY DEF Create
<1> DEFINE row == [NoDispatch EXCEPT !.wip = w, !.item = item, !.lab = WipLab[w], !.status = "pending"]
<1>2. WipLab[w] \in Labs
  BY PlannersAssumption
<1>3. row \in Row /\ row.wip = w /\ row.lab = WipLab[w] /\ row.status = "pending"
  BY <1>2 DEF NoDispatch, Row
<1> HIDE DEF row
<1>4. Prepare(p, [e \in {d} |-> row], Move({w}, "waiting_schedule"), TRUE)
  BY <1>1 DEF row
<1>5. QED
  BY <1>1, <1>3, <1>4

(* suggest and replan: every listed dispatch gets a machine, or none.      *)
LEMMA ScheduledPlans ==
  ASSUME TypeInv, NEW p \in Planners, NEW statuses, Scheduled(p, statuses),
         statuses \subseteq {"pending", "scheduling"}
  PROVE  \E plan :
           /\ DOMAIN plan = Listed(p, statuses)
           /\ \A d \in DOMAIN plan :
                \E m \in MachineIds \cup {None} :
                  plan[d] = Changed(dispatches[d], [status |-> "scheduling", suggested |-> m])
           /\ Prepare(p, plan, Move({dispatches[d].wip : d \in DOMAIN plan}, "scheduled"), FALSE)
<1> DEFINE ds == Listed(p, statuses)
<1>1. PICK match \in [ItemKinds -> MachineIds \cup {None}] :
        Prepare(p, [d \in ds |-> Changed(dispatches[d],
                                   [status |-> "scheduling", suggested |-> match[dispatches[d].item]])],
                Move({dispatches[d].wip : d \in ds}, "scheduled"), FALSE)
  BY DEF Scheduled
<1> DEFINE plan == [d \in ds |-> Changed(dispatches[d],
                                   [status |-> "scheduling", suggested |-> match[dispatches[d].item]])]
<1>2. \A d \in ds : d \in DispatchIds /\ dispatches[d] \in Row
  BY DEF Listed, TypeInv, RowsTyped, NoDispatch
<1>3. \A d \in ds : match[dispatches[d].item] \in MachineIds \cup {None}
  BY <1>2 DEF Row
<1>4. \A d \in DOMAIN plan :
        \E m \in MachineIds \cup {None} :
          plan[d] = Changed(dispatches[d], [status |-> "scheduling", suggested |-> m])
  BY <1>3
<1>5. DOMAIN plan = ds /\ Prepare(p, plan, Move({dispatches[d].wip : d \in DOMAIN plan}, "scheduled"), FALSE)
  BY <1>1
<1> HIDE DEF plan
<1>6. QED
  BY <1>4, <1>5

(* assign plans one row that names a machine and a recipe that fit.        *)
Assigns(p, d, m, r) ==
  /\ Visible(p, d) /\ dispatches[d].status = "scheduling"
  /\ VisibleMachine(p, m)
  /\ dispatches[d].item \in machines[m].items
  /\ recipes[r] # NoRecipe /\ recipes[r].item = dispatches[d].item
  /\ recipes[r].machines = {} \/ m \in recipes[r].machines
  /\ InChain(wips[dispatches[d].wip])
  /\ Prepare(p, [e \in {d} |-> Changed(dispatches[d],
                                 [status |-> "waiting_load", machine |-> m, recipe |-> r])],
             Move({dispatches[d].wip}, "dispatched"), FALSE)

(* It plans it for a row that exists.                                      *)
LEMMA AssignPlans ==
  ASSUME TypeInv, NEW p \in Planners, Assign(p)
  PROVE  \E d \in DispatchIds, m \in MachineIds, r \in RecipeIds :
           dispatches[d] \in Row /\ Assigns(p, d, m, r)
<1>1. PICK d \in DispatchIds, m \in MachineIds, r \in RecipeIds : Assigns(p, d, m, r)
  BY Zenon DEF Assign, Assigns
<1>2. dispatches[d] \in Row
  BY <1>1 DEF Assigns, Visible, TypeInv, RowsTyped
<1>3. QED
  BY <1>1, <1>2

(* What moves of WIPs are planned: forward, and only for WIPs asked for.   *)
LEMMA MovePlans ==
  ASSUME NEW ws, NEW target
  PROVE  /\ DOMAIN Move(ws, target) \subseteq ws
         /\ \A w \in DOMAIN Move(ws, target) :
              Move(ws, target)[w] = target /\ InChain(wips[w]) /\ Rank(wips[w]) < Rank(target)
         /\ \A w \in ws \ DOMAIN Move(ws, target) :
              InChain(wips[w]) => ~(Rank(wips[w]) < Rank(target))
BY DEF Move

(* A request that has read and checked holds its plan.                     *)
LEMMA Prepared ==
  ASSUME TypeInv, NEW p \in Planners, NEW plan, NEW moves, NEW inserts,
         Prepare(p, plan, moves, inserts)
  PROVE  /\ sess'[p].plan = plan /\ sess'[p].moves = moves /\ sess'[p].inserts = inserts
         /\ \A q \in Planners : q # p => sess'[q] = sess[q]
         /\ sess' = [q \in Planners |-> sess'[q]]
         /\ UNCHANGED <<wips, execs, dispatches, machines, recipes>>
BY DEF Prepare, TypeInv, PlansTyped

(* A request that plans rows or columns of the right types keeps the types.*)
LEMMA PreparedTypes ==
  ASSUME TypeInv, NEW p \in Planners, NEW plan, NEW moves, NEW inserts,
         Prepare(p, plan, moves, inserts), Typed(plan, moves, inserts)
  PROVE  TypeInv'
<1>1. PlanTyped(p)'
  BY Prepared DEF PlanTyped, Typed
<1>2. ASSUME NEW q \in Planners, q # p
      PROVE  PlanTyped(q)'
  <2>1. PlanTyped(q) /\ sess'[q] = sess[q] /\ dispatches' = dispatches
    BY <1>2, Prepared DEF TypeInv, PlansTyped
  <2>2. QED
    BY <2>1 DEF PlanTyped, Typed
<1>3. PlansTyped'
  BY <1>1, <1>2, Prepared DEF PlansTyped
<1>4. QED
  BY <1>3, Prepared DEF TypeInv, RowsTyped

(* The handlers of dispatches plan rows and columns of the right types.    *)
LEMMA HandlersType ==
  ASSUME TypeInv, NEW p \in Planners, Create(p) \/ Suggest(p) \/ Replan(p) \/ Assign(p)
  PROVE  TypeInv'
<1>m. ASSUME NEW ws, NEW target \in Targets, ws \subseteq Wips
      PROVE  /\ DOMAIN Move(ws, target) \subseteq Wips
             /\ \A w \in DOMAIN Move(ws, target) : Move(ws, target)[w] \in Targets
  BY <1>m, MovePlans
<1>1. CASE Create(p)
  <2>1. PICK d \in DispatchIds, w \in Wips, row \in Row :
          /\ row.wip = w /\ row.lab = WipLab[w] /\ row.status = "pending"
          /\ Prepare(p, [e \in {d} |-> row], Move({w}, "waiting_schedule"), TRUE)
    BY <1>1, CreatePlans
  <2>2. Typed([e \in {d} |-> row], Move({w}, "waiting_schedule"), TRUE)
    BY <2>1, <1>m DEF Typed, Targets
  <2>3. QED
    BY <2>1, <2>2, PreparedTypes
<1>2. ASSUME NEW statuses, statuses \subseteq {"pending", "scheduling"}, Scheduled(p, statuses)
      PROVE  TypeInv'
  <2>1. PICK plan :
          /\ DOMAIN plan = Listed(p, statuses)
          /\ \A d \in DOMAIN plan :
               \E m \in MachineIds \cup {None} :
                 plan[d] = Changed(dispatches[d], [status |-> "scheduling", suggested |-> m])
          /\ Prepare(p, plan, Move({dispatches[d].wip : d \in DOMAIN plan}, "scheduled"), FALSE)
    BY <1>2, ScheduledPlans
  <2>2. \A d \in DOMAIN plan : d \in DispatchIds /\ dispatches[d] \in Row
    BY <2>1, <1>2 DEF Listed, TypeInv, RowsTyped, NoDispatch
  <2>3. \A d \in DOMAIN plan : \A f \in DOMAIN plan[d] : ColumnOK(f, plan[d][f])
    BY <2>1, <2>2, SuggestedRow
  <2>4. {dispatches[d].wip : d \in DOMAIN plan} \subseteq Wips
    BY <2>2 DEF Row
  <2>5. Typed(plan, Move({dispatches[d].wip : d \in DOMAIN plan}, "scheduled"), FALSE)
    BY <2>2, <2>3, <2>4, <1>m DEF Typed, Targets
  <2>6. QED
    BY <2>1, <2>5, PreparedTypes
<1>3. CASE Assign(p)
  <2>1. PICK d \in DispatchIds, m \in MachineIds, r \in RecipeIds :
          dispatches[d] \in Row /\ Assigns(p, d, m, r)
    BY <1>3, AssignPlans
  <2> DEFINE new == Changed(dispatches[d], [status |-> "waiting_load", machine |-> m, recipe |-> r])
  <2>2. \A f \in DOMAIN new : ColumnOK(f, new[f])
    BY <2>1, AssignedRow
  <2>3. Prepare(p, [e \in {d} |-> new], Move({dispatches[d].wip}, "dispatched"), FALSE)
    BY <2>1 DEF Assigns
  <2> HIDE DEF new
  <2>4. {dispatches[d].wip} \subseteq Wips
    BY <2>1 DEF Row
  <2>5. Typed([e \in {d} |-> new], Move({dispatches[d].wip}, "dispatched"), FALSE)
    BY <2>1, <2>2, <2>4, <1>m DEF Typed, Targets
  <2>6. QED
    BY <2>3, <2>5, PreparedTypes
<1>4. QED
  BY <1>1, <1>2, <1>3 DEF Suggest, Replan

(* A commit, with what it finds of its own plan.                           *)
LEMMA Commits ==
  ASSUME TypeInv, NEW p \in Planners, Commit(p)
  PROVE  /\ Typed(sess[p].plan, sess[p].moves, sess[p].inserts) /\ sess[p] # Idle
         /\ sess'[p] = Idle /\ \A q \in Planners : q # p => sess'[q] = sess[q]
         /\ sess' = [q \in Planners |-> sess'[q]]
         /\ UNCHANGED <<execs, machines, recipes>>
         /\ \/ UNCHANGED <<wips, dispatches>>
            \/ /\ sess[p].inserts => \A d \in DOMAIN sess[p].plan : dispatches[d] = NoDispatch
               /\ dispatches' = [d \in DispatchIds |->
                                   IF d \in DOMAIN sess[p].plan
                                   THEN Merged(dispatches[d], sess[p].plan[d])
                                   ELSE dispatches[d]]
               /\ wips' = Merged(wips, sess[p].moves)
BY DEF Commit, TypeInv, PlansTyped, PlanTyped

(* The rows a plan leads to.                                               *)
Planned(plan, inserts, d) == IF inserts THEN plan[d] ELSE Merged(dispatches[d], plan[d])

(* They are rows, and a commit stores them.                                *)
LEMMA PlannedRows ==
  ASSUME NEW plan, NEW moves, NEW inserts, RowsTyped, Typed(plan, moves, inserts), NEW d \in DOMAIN plan
  PROVE  /\ Planned(plan, inserts, d) \in Row
         /\ Planned(plan, inserts, d).lab = WipLab[Planned(plan, inserts, d).wip]
         /\ inserts /\ dispatches[d] = NoDispatch =>
              Merged(dispatches[d], plan[d]) = Planned(plan, inserts, d)
         /\ ~inserts => /\ Merged(dispatches[d], plan[d]) = Planned(plan, inserts, d)
                        /\ Planned(plan, inserts, d).wip = dispatches[d].wip
                        /\ Planned(plan, inserts, d).lab = dispatches[d].lab
<1>1. CASE inserts
  BY <1>1, InsertedRow DEF Typed, Planned
<1>2. CASE ~inserts
  <2>1. dispatches[d] \in Row /\ \A f \in DOMAIN plan[d] : ColumnOK(f, plan[d][f])
    BY <1>2 DEF Typed
  <2>2. dispatches[d].lab = WipLab[dispatches[d].wip]
    BY <2>1, RowIsThere DEF RowsTyped, Typed
  <2>3. QED
    BY <1>2, <2>1, <2>2, MergedRow DEF Planned
<1>3. QED
  BY <1>1, <1>2

(* A commit keeps the types: columns are merged into rows of their type.   *)
LEMMA CommitTypes ==
  ASSUME TypeInv, NEW p \in Planners, Commit(p)
  PROVE  TypeInv' /\ \A d \in DispatchIds : dispatches[d] \in Row => dispatches'[d] \in Row
<1> DEFINE plan == sess[p].plan
           moves == sess[p].moves
           inserts == sess[p].inserts
<1>0. RowsTyped
  BY DEF TypeInv
<1>1. Typed(plan, moves, inserts)
  BY Commits
<1>2. RowsTyped' /\ \A d \in DispatchIds : dispatches[d] \in Row => dispatches'[d] \in Row
  <2>1. CASE UNCHANGED dispatches
    BY <2>1, <1>0 DEF RowsTyped
  <2>2. CASE /\ inserts => \A d \in DOMAIN plan : dispatches[d] = NoDispatch
             /\ dispatches' = [d \in DispatchIds |->
                                 IF d \in DOMAIN plan THEN Merged(dispatches[d], plan[d])
                                 ELSE dispatches[d]]
    <3>1. ASSUME NEW d \in DOMAIN plan
          PROVE  /\ Merged(dispatches[d], plan[d]) \in Row
                 /\ Merged(dispatches[d], plan[d]).lab = WipLab[Merged(dispatches[d], plan[d]).wip]
      BY <1>0, <1>1, <2>2, PlannedRows
    <3>2. QED
      BY <1>0, <2>2, <3>1 DEF RowsTyped
  <2>3. QED
    BY <2>1, <2>2, Commits
<1>3. wips' \in [Wips -> WipStatus]
  <2>1. \A w \in DOMAIN moves : w \in Wips /\ moves[w] \in WipStatus
    BY <1>1 DEF Typed, Targets, WipStatus, ChainStatuses
  <2>2. Merged(wips, moves) \in [Wips -> WipStatus]
    BY <2>1 DEF Merged, TypeInv
  <2>3. QED
    BY <2>2, Commits DEF TypeInv
<1>4. ASSUME NEW q \in Planners
      PROVE  PlanTyped(q)'
  <2>1. CASE q = p
    BY <2>1, Commits DEF PlanTyped
  <2>2. CASE q # p
    <3>1. PlanTyped(q) /\ sess'[q] = sess[q]
      BY <2>2, Commits DEF TypeInv, PlansTyped
    <3>2. QED
      BY <1>2, <3>1 DEF PlanTyped, Typed
  <2>3. QED
    BY <2>1, <2>2
<1>5. QED
  BY <1>2, <1>3, <1>4, Commits DEF TypeInv, PlansTyped

(* A step of a run, or a WIP action.                                       *)
RunStep(w) ==
  \/ CheckIn(w) \/ Unload(w) \/ ConfirmResult(w)
  \/ RequestAbort(w) \/ ApproveAbort(w) \/ RejectAbort(w)
  \/ \E action \in WipActions : WipAction(w, action)

(* It sets the WIP's status, and check_in alone the time of the check-in:  *)
(* it leaves the status, or takes the WIP off the chain, or it is one that *)
(* a WIP action writes.                                                    *)
LEMMA RunWrites ==
  ASSUME TypeInv, NEW w \in Wips, RunStep(w)
  PROVE  \E status \in WipStatus, exec \in ExecRow :
           /\ Run(w, status, exec)
           /\ exec.on => execs[w].on \/ wips[w] = "dispatched"
           /\ \/ status = wips[w] \/ status \in Beyond
              \/ \E action \in WipActions : status = ActionStatus[action]
<1>0. wips[w] \in WipStatus /\ execs[w] \in ExecRow
  BY DEF TypeInv
<1>1. CASE CheckIn(w)
  <2>1. [execs[w] EXCEPT !.status = "running", !.on = TRUE] \in ExecRow
    BY <1>0 DEF ExecRow
  <2>2. QED
    BY <1>1, <2>1 DEF CheckIn, WipStatus, Beyond
<1>2. CASE Unload(w)
  BY <1>0, <1>2 DEF Unload, WipStatus, Beyond
<1>3. CASE ConfirmResult(w)
  <2>1. PICK exec : exec = [execs[w] EXCEPT !.status = "ended"]
    OBVIOUS
  <2>2. exec \in ExecRow /\ exec.on = execs[w].on
    BY <1>0, <2>1 DEF ExecRow
  <2>3. QED
    BY <1>3, <2>1, <2>2 DEF ConfirmResult, WipStatus, Beyond
<1>4. CASE RequestAbort(w)
  <2>1. PICK exec : exec = [execs[w] EXCEPT !.abort = TRUE]
    OBVIOUS
  <2>2. exec \in ExecRow /\ exec.on = execs[w].on
    BY <1>0, <2>1 DEF ExecRow
  <2>3. QED
    BY <1>0, <1>4, <2>1, <2>2 DEF RequestAbort
<1>5. CASE ApproveAbort(w)
  <2>1. PICK exec : exec = [execs[w] EXCEPT !.status = "ended", !.abort = FALSE]
    OBVIOUS
  <2>2. exec \in ExecRow /\ exec.on = execs[w].on
    BY <1>0, <2>1 DEF ExecRow
  <2>3. QED
    BY <1>5, <2>1, <2>2 DEF ApproveAbort, WipStatus, Beyond
<1>6. CASE RejectAbort(w)
  <2>1. PICK exec : exec = [execs[w] EXCEPT !.status = "running", !.abort = FALSE]
    OBVIOUS
  <2>2. exec \in ExecRow /\ exec.on = execs[w].on
    BY <1>0, <2>1 DEF ExecRow
  <2>3. QED
    BY <1>6, <2>1, <2>2 DEF RejectAbort, WipStatus, Beyond
<1>7. ASSUME NEW action \in WipActions, WipAction(w, action)
      PROVE  /\ ActionStatus[action] \in WipStatus
             /\ Run(w, ActionStatus[action], execs[w])
  BY <1>7, ActionsAssumption DEF WipAction, ActionStatus, WipStatus, ChainStatuses, Beyond
<1>8. QED
  BY <1>0, <1>1, <1>2, <1>3, <1>4, <1>5, <1>6, <1>7 DEF RunStep

(* The steps of machines and recipes, and of the runs.                     *)
LEMMA OtherTypes ==
  ASSUME TypeInv,
         \/ \E p \in Planners : \/ CreateMachine(p) \/ UpdateMachine(p) \/ UpdateStatus(p)
                                \/ CreateRecipe(p) \/ UpdateRecipe(p)
         \/ \E w \in Wips : RunStep(w)
  PROVE  TypeInv'
<1> DEFINE Machines == /\ machines = [m \in MachineIds |-> machines[m]]
                       /\ \A m \in MachineIds : machines[m] = NoMachine \/ machines[m] \in MachineRow
           Recipes == /\ recipes = [r \in RecipeIds |-> recipes[r]]
                      /\ \A r \in RecipeIds : recipes[r] = NoRecipe \/ recipes[r] \in RecipeRow
<1>0. Machines /\ Recipes
  BY DEF TypeInv
<1>1. UNCHANGED <<dispatches, sess>> => RowsTyped' /\ PlansTyped'
  BY DEF TypeInv, RowsTyped, PlansTyped, PlanTyped, Typed
<1>2. ASSUME NEW p \in Planners, CreateMachine(p) \/ UpdateMachine(p)
      PROVE  TypeInv'
  <2>1. PICK m \in MachineIds, row \in MachineRow : machines' = [machines EXCEPT ![m] = row]
    <3>1. PICK m \in MachineIds, lab \in Labs, items \in SUBSET ItemKinds :
            \E status :
              /\ status \in Statuses \/ (machines[m] # NoMachine /\ status = machines[m].status)
              /\ machines' = [machines EXCEPT ![m] = [lab |-> lab, items |-> items, status |-> status]]
      BY <1>2 DEF CreateMachine, UpdateMachine, VisibleMachine
    <3>2. PICK status :
            /\ status \in Statuses \/ (machines[m] # NoMachine /\ status = machines[m].status)
            /\ machines' = [machines EXCEPT ![m] = [lab |-> lab, items |-> items, status |-> status]]
      BY <3>1
    <3>3. status \in Statuses
      BY <1>0, <3>2 DEF MachineRow
    <3>4. [lab |-> lab, items |-> items, status |-> status] \in MachineRow
      BY <3>3 DEF MachineRow
    <3>5. QED
      BY <3>2, <3>4
  <2>2. Machines'
    BY <1>0, <2>1
  <2>3. QED
    BY <1>1, <1>2, <2>2 DEF CreateMachine, UpdateMachine, TypeInv
<1>3. ASSUME NEW p \in Planners, UpdateStatus(p)
      PROVE  TypeInv'
  <2>1. PICK m \in MachineIds, status \in Statuses :
          machines' = [machines EXCEPT ![m].status = status] /\ machines[m] # NoMachine
    BY <1>3 DEF UpdateStatus, VisibleMachine
  <2>2. machines[m] \in MachineRow
    BY <1>0, <2>1
  <2>3. [machines[m] EXCEPT !.status = status] \in MachineRow
    BY <2>2 DEF MachineRow
  <2>4. Machines'
    BY <1>0, <2>1, <2>3
  <2>5. QED
    BY <1>1, <1>3, <2>4 DEF UpdateStatus, TypeInv
<1>4. ASSUME NEW p \in Planners, CreateRecipe(p) \/ UpdateRecipe(p)
      PROVE  TypeInv'
  <2>1. PICK r \in RecipeIds, item \in ItemKinds, ms \in SUBSET MachineIds :
          recipes' = [recipes EXCEPT ![r] = [item |-> item, machines |-> ms]]
    BY <1>4 DEF CreateRecipe, UpdateRecipe
  <2>2. [item |-> item, machines |-> ms] \in RecipeRow
    BY DEF RecipeRow
  <2>3. Recipes'
    BY <1>0, <2>1, <2>2
  <2>4. QED
    BY <1>1, <1>4, <2>3 DEF CreateRecipe, UpdateRecipe, TypeInv
<1>5. ASSUME NEW w \in Wips, RunStep(w)
      PROVE  TypeInv'
  <2>1. PICK status \in WipStatus, exec \in ExecRow : Run(w, status, exec)
    BY <1>5, RunWrites
  <2>2. wips' \in [Wips -> WipStatus] /\ execs' \in [Wips -> ExecRow]
    BY <2>1 DEF Run, TypeInv
  <2>3. QED
    BY <1>1, <2>1, <2>2 DEF Run, TypeInv
<1>6. QED
  BY <1>2, <1>3, <1>4, <1>5

(* Every step keeps the types.                                             *)
LEMMA StepTypes ==
  ASSUME TypeInv, [Next]_vars
  PROVE  TypeInv'
<1>1. CASE UNCHANGED vars
  BY <1>1 DEF vars, TypeInv, RowsTyped, PlansTyped, PlanTyped, Typed
<1>2. QED
  BY <1>1, HandlersType, CommitTypes, OtherTypes DEF Next, RunStep

(* In every reachable state, rows and plans are of their types.            *)
LEMMA TypeInvariant == Spec => []TypeInv
<1>1. Init => TypeInv
  BY DEF Init, TypeInv, RowsTyped, PlansTyped, PlanTyped, WipStatus, ChainStatuses, NewExec, ExecRow
<1>2. QED
  BY <1>1, StepTypes, PTL DEF Spec

(* Rows of dispatches, machines, recipes and WIPs always hold values of    *)
(* their columns' types, whoever plans and however requests interleave.    *)
THEOREM DispatchTypeCorrect == Spec => []TypeOK
<1>1. TypeInv => TypeOK
  <2> SUFFICES ASSUME TypeInv PROVE TypeOK
    OBVIOUS
  <2>1. wips \in [Wips -> {Chain[n] : n \in DOMAIN Chain} \cup Beyond]
    BY RankFacts DEF TypeInv, WipStatus
  <2>2. ASSUME NEW d \in DispatchIds
        PROVE  /\ DOMAIN dispatches[d] = DOMAIN NoDispatch
               /\ dispatches[d].status \in DispatchStatuses
               /\ dispatches[d].wip \in Wips \cup {None}
               /\ {dispatches[d].suggested, dispatches[d].machine} \subseteq MachineIds \cup {None}
    <3>1. CASE dispatches[d] = NoDispatch
      BY <3>1 DEF NoDispatch, DispatchStatuses
    <3>2. CASE dispatches[d] \in Row
      BY <3>2, RowIsThere DEF Row
    <3>3. QED
      BY <3>1, <3>2 DEF TypeInv, RowsTyped
  <2>3. ASSUME NEW m \in MachineIds
        PROVE  machines[m] \in [lab : Labs \cup {NoLab}, items : SUBSET ItemKinds,
                                status : Statuses \cup {None}]
    BY DEF TypeInv, MachineRow, NoMachine
  <2>4. ASSUME NEW r \in RecipeIds
        PROVE  recipes[r] \in [item : ItemKinds \cup {None}, machines : SUBSET MachineIds]
    BY DEF TypeInv, RecipeRow, NoRecipe
  <2>5. execs \in [Wips -> [status : {"waiting_load", "running", "ended"},
                            on : BOOLEAN, abort : BOOLEAN]]
    BY DEF TypeInv, ExecRow
  <2>6. QED
    BY <2>1, <2>2, <2>3, <2>4, <2>5 DEF TypeOK, TypeInv
<1>2. QED
  BY <1>1, TypeInvariant, PTL

-----------------------------------------------------------------------------
(* One planner per laboratory, and no administrator who plans everywhere.  *)
(* What such a planner has read stays true until it commits: the rows of   *)
(* its laboratory are its own.                                             *)

OnePlannerPerLab ==
  \A p, q \in Planners : p.role # "admin" /\ (p.lab = q.lab => p = q)

(* The WIP actions take a WIP off the chain (start, resume, pause,         *)
(* complete and terminate do), never to another place on it.               *)
ActionsLeaveChain == \A action \in WipActions : ActionStatus[action] \in Beyond

(* The WIP status that a dispatch's status stands for.                     *)
Target(status) ==
  CASE status = "pending"    -> "waiting_schedule"
    [] status = "scheduling" -> "scheduled"
    [] OTHER                 -> "dispatched"

Paced(row) == Reached(row.wip, Target(row.status))

(* A machine and a recipe that still fit a row.                            *)
Fits(row) ==
  /\ row.machine \in MachineIds /\ row.recipe \in RecipeIds
  /\ row.item \in machines[row.machine].items
  /\ machines[row.machine].lab = row.lab
  /\ recipes[row.recipe].item = row.item
  /\ row.machine \in recipes[row.recipe].machines

(* A commit may write the target to the WIP: it is the laboratory's and    *)
(* behind the target, unless a run has taken it off the chain since.  The  *)
(* commit then takes it back, so no dispatch of it asks for more.          *)
MayMove(p, w, target) ==
  /\ WipLab[w] = p.lab
  /\ InChain(wips[w]) => Rank(wips[w]) < Rank(target)
  /\ \A d \in DispatchIds : dispatches[d] \in Row /\ dispatches[d].wip = w =>
       Rank(Target(dispatches[d].status)) <= Rank(target)

(* What a plan rests on.  The planned rows are the laboratory's, not       *)
(* assigned yet, and in pace once the WIPs of the list have moved.         *)
Sound(p, plan, moves, inserts) ==
  /\ \A w \in DOMAIN moves :
       /\ MayMove(p, w, moves[w])
       /\ moves[w] = "dispatched" =>
            \E d \in DOMAIN plan : /\ Planned(plan, inserts, d).wip = w
                                   /\ Planned(plan, inserts, d).status = "waiting_load"
  /\ \A d \in DOMAIN plan :
       LET row == Planned(plan, inserts, d)
       IN /\ row.lab = p.lab
          /\ ~inserts => dispatches[d].status # "waiting_load"
          /\ row.wip \in DOMAIN moves => moves[row.wip] = Target(row.status)
          /\ row.wip \notin DOMAIN moves => Paced(row)
          /\ row.status = "waiting_load" => Fits(row)

PlanSound(p) == sess[p] # Idle => Sound(p, sess[p].plan, sess[p].moves, sess[p].inserts)

(* The machines of a recipe are of one laboratory.                         *)
RecipeOfOneLab ==
  \A r \in RecipeIds :
    /\ recipes[r] # NoRecipe => recipes[r].machines # {}
    /\ \A m, n \in recipes[r].machines : machines[m] # NoMachine /\ machines[m].lab = machines[n].lab

(* An assigned dispatch names a machine.                                   *)
MachineNamed ==
  \A d \in DispatchIds :
    dispatches[d].status = "waiting_load" => dispatches[d].machine \in MachineIds

DispatchInv ==
  /\ RecipeOfOneLab
  /\ MachineNamed
  /\ \A p \in Planners : PlanSound(p)
  /\ WipKeepsPace
  /\ CheckInAssigned

(* Pace, row by row.                                                       *)
LEMMA PaceByRow ==
  ASSUME RowsTyped
  PROVE  WipKeepsPace <=> \A d \in DispatchIds : dispatches[d] \in Row => Paced(dispatches[d])
BY DEF RowsTyped, WipKeepsPace, Paced, Target, Row, NoDispatch

(* What a planner can access is of its laboratory.                         *)
LEMMA OwnLab ==
  ASSUME OnePlannerPerLab, NEW p \in Planners
  PROVE  /\ \A lab : CanAccess(p, lab) <=> p.lab # NoLab /\ lab = p.lab
         /\ ~SeesAll(p)
BY DEF OnePlannerPerLab, CanAccess, SeesAll

(* The targets of dispatches.                                              *)
LEMMA TargetFacts ==
  /\ \A status : Target(status) \in Targets
  /\ \A target \in Targets : Rank(target) \in Nat /\ InChain(target) /\ target \in WipStatus
BY RankFacts DEF Target, Targets, WipStatus, ChainStatuses

(* A dispatch of a laboratory.                                             *)
OfLab(d, lab) == dispatches[d] \in Row /\ dispatches[d].lab = lab

(* A sound plan stays sound while the rows and machines it is about stay,  *)
(* and its WIPs stay or leave the chain.                                   *)
LEMMA SoundStays ==
  ASSUME TypeInv, TypeInv', NEW p \in Planners,
         NEW plan, NEW moves, NEW inserts, Typed(plan, moves, inserts), Sound(p, plan, moves, inserts),
         \A w \in Wips : WipLab[w] = p.lab => wips'[w] = wips[w] \/ wips'[w] \in Beyond,
         \A d \in DispatchIds : OfLab(d, p.lab) \/ OfLab(d, p.lab)' => dispatches'[d] = dispatches[d],
         \A row \in Row : row.lab = p.lab /\ Fits(row) => Fits(row)'
  PROVE  Sound(p, plan, moves, inserts)'
<1>0. RowsTyped /\ RowsTyped'
  BY DEF TypeInv
<1>1. ASSUME NEW d \in DOMAIN plan
      PROVE  /\ Planned(plan, inserts, d)' = Planned(plan, inserts, d)
             /\ ~inserts => dispatches'[d] = dispatches[d]
             /\ Planned(plan, inserts, d) \in Row
             /\ WipLab[Planned(plan, inserts, d).wip] = p.lab
             /\ Planned(plan, inserts, d).lab = p.lab
  <2>1. /\ Planned(plan, inserts, d).lab = p.lab
        /\ Planned(plan, inserts, d) \in Row
        /\ Planned(plan, inserts, d).lab = WipLab[Planned(plan, inserts, d).wip]
    BY <1>0, PlannedRows DEF Sound
  <2>2. ~inserts => dispatches'[d] = dispatches[d]
    <3>1. SUFFICES ASSUME ~inserts PROVE dispatches'[d] = dispatches[d]
      OBVIOUS
    <3>2. d \in DispatchIds /\ dispatches[d] \in Row
      BY <3>1 DEF Typed
    <3>3. dispatches[d].lab = p.lab
      BY <1>0, <2>1, <3>1, PlannedRows
    <3>4. QED
      BY <3>2, <3>3 DEF OfLab
  <2>3. QED
    BY <2>1, <2>2 DEF Planned
<1>2. \A status \in Beyond : ~InChain(status)
  BY RankFacts DEF Beyond, ChainStatuses
<1>3. ASSUME NEW row \in Row, WipLab[row.wip] = p.lab, Paced(row)
      PROVE  Paced(row)'
  <2>1. row.wip \in Wips
    BY DEF Row
  <2>2. CASE wips'[row.wip] = wips[row.wip]
    BY <1>3, <2>2 DEF Paced, Reached
  <2>3. CASE wips'[row.wip] \in Beyond
    BY <1>2, <2>3 DEF Paced, Reached
  <2>4. QED
    BY <1>3, <2>1, <2>2, <2>3
<1>4. ASSUME NEW w \in DOMAIN moves
      PROVE  /\ MayMove(p, w, moves[w])'
             /\ moves[w] = "dispatched" =>
                  \E d \in DOMAIN plan : /\ Planned(plan, inserts, d)'.wip = w
                                         /\ Planned(plan, inserts, d)'.status = "waiting_load"
  <2>1. /\ w \in Wips /\ WipLab[w] = p.lab
        /\ InChain(wips[w]) => Rank(wips[w]) < Rank(moves[w])
    BY DEF Typed, Sound, MayMove
  <2>2. InChain(wips'[w]) => Rank(wips'[w]) < Rank(moves[w])
    BY <1>2, <2>1
  <2>3. ASSUME NEW d \in DispatchIds, dispatches'[d] \in Row, dispatches'[d].wip = w
        PROVE  Rank(Target(dispatches'[d].status)) <= Rank(moves[w])
    <3>1. dispatches'[d].lab = p.lab
      BY <1>0, <2>1, <2>3, RowIsThere DEF RowsTyped, Row, NoDispatch
    <3>2. dispatches'[d] = dispatches[d]
      BY <2>3, <3>1 DEF OfLab
    <3>3. QED
      BY <2>3, <3>2 DEF Sound, MayMove
  <2>4. MayMove(p, w, moves[w])'
    BY <2>1, <2>2, <2>3 DEF MayMove
  <2>5. QED
    BY <1>1, <2>4 DEF Sound
<1>5. ASSUME NEW d \in DOMAIN plan
      PROVE  /\ Planned(plan, inserts, d)'.lab = p.lab
             /\ ~inserts => dispatches'[d].status # "waiting_load"
             /\ Planned(plan, inserts, d)'.wip \in DOMAIN moves =>
                  moves[Planned(plan, inserts, d)'.wip] = Target(Planned(plan, inserts, d)'.status)
             /\ Planned(plan, inserts, d)'.wip \notin DOMAIN moves => Paced(Planned(plan, inserts, d))'
             /\ Planned(plan, inserts, d)'.status = "waiting_load" => Fits(Planned(plan, inserts, d))'
  <2> DEFINE row == Planned(plan, inserts, d)
  <2>1. /\ row.lab = p.lab
        /\ ~inserts => dispatches[d].status # "waiting_load"
        /\ row.wip \in DOMAIN moves => moves[row.wip] = Target(row.status)
        /\ row.wip \notin DOMAIN moves => Paced(row)
        /\ row.status = "waiting_load" => Fits(row)
    BY DEF Sound
  <2>2. PICK fixed \in Row : fixed = row /\ row' = fixed /\ WipLab[fixed.wip] = p.lab
    BY <1>1
  <2>3. Paced(fixed) => Paced(fixed)'
    BY <2>2, <1>3
  <2>4. fixed.lab = p.lab /\ Fits(fixed) => Fits(fixed)'
    OBVIOUS
  <2>5. (Paced(row)' <=> Paced(fixed)') /\ (Fits(row)' <=> Fits(fixed)')
    BY <2>2 DEF Paced, Fits, Reached
  <2> HIDE DEF row
  <2>6. QED
    BY <1>1, <2>1, <2>2, <2>3, <2>4, <2>5 DEF row
<1>6. QED
  BY <1>4, <1>5 DEF Sound

(* A handler that prepares a sound plan keeps the invariant.               *)
LEMMA PreparedSound ==
  ASSUME TypeInv, DispatchInv, NEW p \in Planners, NEW plan, NEW moves, NEW inserts,
         Prepare(p, plan, moves, inserts), Sound(p, plan, moves, inserts)
  PROVE  DispatchInv'
<1>1. UNCHANGED <<wips, execs, dispatches, machines, recipes>>
  BY Prepared
<1>2. PlanSound(p)'
  <2>1. /\ sess'[p].plan = plan /\ sess'[p].moves = moves /\ sess'[p].inserts = inserts
    BY Prepared
  <2>2. Sound(p, plan, moves, inserts)'
    BY <1>1 DEF Sound, MayMove, Planned, Paced, Reached, Fits
  <2>3. PlanSound(p)' <=> (sess'[p] # Idle => Sound(p, plan, moves, inserts)')
    BY <2>1 DEF PlanSound, Sound, MayMove, Planned, Paced, Reached, Fits
  <2>4. QED
    BY <2>2, <2>3
<1>3. ASSUME NEW q \in Planners, q # p
      PROVE  PlanSound(q)'
  <2>1. PlanSound(q) /\ sess'[q] = sess[q]
    BY <1>3, Prepared DEF DispatchInv
  <2>2. PICK there, its, news : there = sess[q].plan /\ its = sess[q].moves /\ news = sess[q].inserts
    OBVIOUS
  <2>3. Sound(q, there, its, news) => Sound(q, there, its, news)'
    BY <1>1 DEF Sound, MayMove, Planned, Paced, Reached, Fits
  <2>4. QED
    BY <1>1, <2>1, <2>2, <2>3 DEF PlanSound
<1>4. RecipeOfOneLab' /\ MachineNamed' /\ WipKeepsPace' /\ CheckInAssigned'
  BY <1>1 DEF DispatchInv, RecipeOfOneLab, MachineNamed, WipKeepsPace, CheckInAssigned, Assigned,
         Reached
<1>5. QED
  BY <1>2, <1>3, <1>4 DEF DispatchInv

(* A planner reads rows of its own laboratory only, so its plans are sound.*)
LEMMA HandlersSound ==
  ASSUME OnePlannerPerLab, TypeInv, DispatchInv,
         NEW p \in Planners, Create(p) \/ Suggest(p) \/ Replan(p) \/ Assign(p)
  PROVE  DispatchInv'
<1>0. RowsTyped
  BY DEF TypeInv
<1>a. \A lab : CanAccess(p, lab) => lab = p.lab
  BY OwnLab
<1>w. \A w \in Wips : wips[w] \in WipStatus
  BY DEF TypeInv
(* The moves that a list of WIPs of this laboratory gives.                 *)
<1>m. ASSUME NEW ws \in SUBSET Wips, \A w \in ws : WipLab[w] = p.lab, NEW status,
             status \in {"pending", "scheduling", "waiting_load"}
      PROVE  /\ \A w \in DOMAIN Move(ws, Target(status)) :
                  /\ w \in ws /\ Move(ws, Target(status))[w] = Target(status)
                  /\ MayMove(p, w, Target(status))
             /\ \A w \in ws \ DOMAIN Move(ws, Target(status)) : Reached(w, Target(status))
  <2>1. /\ DOMAIN Move(ws, Target(status)) \subseteq ws
        /\ \A w \in DOMAIN Move(ws, Target(status)) :
             /\ Move(ws, Target(status))[w] = Target(status)
             /\ InChain(wips[w]) /\ Rank(wips[w]) < Rank(Target(status))
        /\ \A w \in ws \ DOMAIN Move(ws, Target(status)) :
             InChain(wips[w]) => ~(Rank(wips[w]) < Rank(Target(status)))
    BY MovePlans
  <2>2. Rank(Target(status)) \in Nat /\ \A w \in ws : InChain(wips[w]) => Rank(wips[w]) \in Nat
    BY <1>m, <1>w, RankFacts DEF Target, ChainStatuses
  <2>3. ASSUME NEW w \in ws, InChain(wips[w]), Rank(wips[w]) < Rank(Target(status)),
               NEW d \in DispatchIds, dispatches[d] \in Row, dispatches[d].wip = w
        PROVE  Rank(Target(dispatches[d].status)) <= Rank(Target(status))
    <3>1. Rank(wips[w]) >= Rank(Target(dispatches[d].status))
      BY <1>0, <2>3, PaceByRow DEF DispatchInv, Paced, Reached
    <3>2. Rank(Target(dispatches[d].status)) \in Nat
      BY TargetFacts
    <3>3. QED
      BY <2>2, <2>3, <3>1, <3>2
  <2>4. \A w \in ws \ DOMAIN Move(ws, Target(status)) : Reached(w, Target(status))
    BY <2>1, <2>2 DEF Reached
  <2>5. \A w \in DOMAIN Move(ws, Target(status)) : MayMove(p, w, Target(status))
    BY <1>m, <2>1, <2>3 DEF MayMove
  <2>6. QED
    BY <2>1, <2>4, <2>5
<1>1. CASE Create(p)
  <2>1. PICK d \in DispatchIds, w \in Wips, row \in Row :
          /\ CanAccess(p, WipLab[w])
          /\ row.wip = w /\ row.lab = WipLab[w] /\ row.status = "pending"
          /\ Prepare(p, [e \in {d} |-> row], Move({w}, "waiting_schedule"), TRUE)
    BY <1>1, CreatePlans
  <2> DEFINE moves == Move({w}, Target("pending"))
  <2>2. Target("pending") = "waiting_schedule" /\ WipLab[w] = p.lab
    BY <2>1, <1>a DEF Target
  <2>3. /\ \A v \in DOMAIN moves :
             v = w /\ moves[v] = "waiting_schedule" /\ MayMove(p, v, "waiting_schedule")
        /\ w \notin DOMAIN moves => Reached(w, "waiting_schedule")
    BY <2>2, <1>m
  <2>4. Prepare(p, [e \in {d} |-> row], moves, TRUE)
    BY <2>1, <2>2
  <2> HIDE DEF moves
  <2>5. Sound(p, [e \in {d} |-> row], moves, TRUE)
    BY <2>1, <2>2, <2>3 DEF Sound, Planned, Paced
  <2>6. QED
    BY <2>4, <2>5, PreparedSound
<1>2. ASSUME NEW statuses, statuses \subseteq {"pending", "scheduling"}, Scheduled(p, statuses)
      PROVE  DispatchInv'
  <2>1. PICK plan :
          /\ DOMAIN plan = Listed(p, statuses)
          /\ \A d \in DOMAIN plan :
               \E m \in MachineIds \cup {None} :
                 plan[d] = Changed(dispatches[d], [status |-> "scheduling", suggested |-> m])
          /\ Prepare(p, plan, Move({dispatches[d].wip : d \in DOMAIN plan}, "scheduled"), FALSE)
    BY <1>2, ScheduledPlans
  <2> DEFINE ws    == {dispatches[d].wip : d \in DOMAIN plan}
             moves == Move(ws, Target("scheduling"))
  <2>2. ASSUME NEW d \in DOMAIN plan
        PROVE  /\ d \in DispatchIds /\ dispatches[d] \in Row
               /\ dispatches[d].lab = p.lab /\ WipLab[dispatches[d].wip] = p.lab
               /\ dispatches[d].status # "waiting_load"
    BY <2>1, <1>0, <1>2, <1>a DEF Listed, RowsTyped, NoDispatch
  <2>3. Target("scheduling") = "scheduled"
    BY DEF Target
  <2>4. ws \in SUBSET Wips /\ \A w \in ws : WipLab[w] = p.lab
    BY <2>2 DEF Row
  <2>5. /\ \A v \in DOMAIN moves : moves[v] = "scheduled" /\ MayMove(p, v, "scheduled")
        /\ \A v \in ws \ DOMAIN moves : Reached(v, "scheduled")
    <3> HIDE DEF ws
    <3>1. /\ \A v \in DOMAIN Move(ws, Target("scheduling")) :
               /\ v \in ws /\ Move(ws, Target("scheduling"))[v] = Target("scheduling")
               /\ MayMove(p, v, Target("scheduling"))
          /\ \A v \in ws \ DOMAIN Move(ws, Target("scheduling")) : Reached(v, Target("scheduling"))
      BY <2>4, <1>m
    <3>2. QED
      BY <2>3, <3>1
  <2>6. Prepare(p, plan, moves, FALSE)
    BY <2>1, <2>3
  <2>7. ASSUME NEW d \in DOMAIN plan
        PROVE  /\ Planned(plan, FALSE, d).lab = p.lab
               /\ Planned(plan, FALSE, d).status = "scheduling"
               /\ Planned(plan, FALSE, d).wip \in ws
    <3>1. PICK m \in MachineIds \cup {None} :
            plan[d] = Changed(dispatches[d], [status |-> "scheduling", suggested |-> m])
      BY <2>1
    <3>2. /\ Merged(dispatches[d], plan[d]).status = "scheduling"
          /\ Merged(dispatches[d], plan[d]).wip = dispatches[d].wip
          /\ \A f \in DOMAIN plan[d] : ColumnOK(f, plan[d][f])
      BY <2>2, <3>1, SuggestedRow
    <3>3. Merged(dispatches[d], plan[d]).lab = dispatches[d].lab
      BY <2>2, <3>2, MergedRow
    <3>4. QED
      BY <2>2, <3>2, <3>3 DEF Planned
  <2> HIDE DEF moves, ws
  <2>8. Sound(p, plan, moves, FALSE)
    BY <2>2, <2>3, <2>5, <2>7 DEF Sound, Paced
  <2>9. QED
    BY <2>6, <2>8, PreparedSound
<1>3. CASE Assign(p)
  <2>1. PICK d \in DispatchIds, m \in MachineIds, r \in RecipeIds :
          dispatches[d] \in Row /\ Assigns(p, d, m, r)
    BY <1>3, AssignPlans
  <2> DEFINE new   == Changed(dispatches[d], [status |-> "waiting_load", machine |-> m, recipe |-> r])
             w     == dispatches[d].wip
             plan  == [e \in {d} |-> new]
             moves == Move({w}, Target("waiting_load"))
             row   == Planned(plan, FALSE, d)
  <2>2. /\ dispatches[d].lab = p.lab /\ WipLab[w] = p.lab /\ w \in Wips
        /\ dispatches[d].status = "scheduling"
        /\ machines[m].lab = p.lab
    BY <2>1, <1>0, <1>a, RowIsThere DEF Assigns, Visible, VisibleMachine, RowsTyped, Row
  <2>3. Target("waiting_load") = "dispatched"
    BY DEF Target
  <2>4. /\ row.status = "waiting_load" /\ row.machine = m /\ row.recipe = r
        /\ row.wip = w /\ row.item = dispatches[d].item /\ row.lab = p.lab
    BY <2>1, <2>2, AssignedRow DEF Planned
  <2>5. Fits(row)
    <3>1. recipes[r].machines # {} /\ m \in recipes[r].machines
      BY <2>1 DEF Assigns, DispatchInv, RecipeOfOneLab
    <3>2. QED
      BY <2>1, <2>2, <2>4, <3>1 DEF Fits, Assigns
  <2>6. /\ \A v \in DOMAIN moves : v = w /\ moves[v] = "dispatched" /\ MayMove(p, v, "dispatched")
        /\ w \notin DOMAIN moves => Reached(w, "dispatched")
    <3> HIDE DEF w
    <3>1. {w} \in SUBSET Wips /\ \A v \in {w} : WipLab[v] = p.lab
      BY <2>2
    <3>2. PICK ws \in SUBSET Wips : ws = {w} /\ \A v \in ws : WipLab[v] = p.lab
      BY <3>1
    <3>3. moves = Move(ws, Target("waiting_load"))
      BY <3>2
    <3>4. /\ \A v \in DOMAIN Move(ws, Target("waiting_load")) :
               /\ v \in ws /\ Move(ws, Target("waiting_load"))[v] = Target("waiting_load")
               /\ MayMove(p, v, Target("waiting_load"))
          /\ \A v \in ws \ DOMAIN Move(ws, Target("waiting_load")) : Reached(v, Target("waiting_load"))
      BY <3>2, <1>m
    <3> HIDE DEF moves
    <3>5. QED
      BY <2>3, <3>2, <3>3, <3>4
  <2>7. Prepare(p, plan, moves, FALSE)
    BY <2>1, <2>3 DEF Assigns
  <2>8. DOMAIN plan = {d}
    OBVIOUS
  <2> HIDE DEF plan, moves, new, w
  <2>9. Sound(p, plan, moves, FALSE)
    BY <2>2, <2>3, <2>4, <2>5, <2>6, <2>8 DEF Sound, Paced
  <2>10. QED
    BY <2>7, <2>9, PreparedSound
<1>4. QED
  BY <1>1, <1>2, <1>3 DEF Suggest, Replan

(* What another planner holds stays sound while its laboratory's rows and  *)
(* machines stay, and its WIPs stay or leave the chain.                    *)
Undisturbed(q) ==
  /\ sess'[q] = sess[q]
  /\ \A w \in Wips : WipLab[w] = q.lab => wips'[w] = wips[w] \/ wips'[w] \in Beyond
  /\ \A d \in DispatchIds : OfLab(d, q.lab) \/ OfLab(d, q.lab)' => dispatches'[d] = dispatches[d]
  /\ \A row \in Row : row.lab = q.lab /\ Fits(row) => Fits(row)'

(* So a step elsewhere keeps the plans of a laboratory.                    *)
LEMMA OthersSound ==
  ASSUME TypeInv, TypeInv', NEW q \in Planners, PlanSound(q), Undisturbed(q)
  PROVE  PlanSound(q)'
<1>1. PICK plan, moves, inserts :
        plan = sess[q].plan /\ moves = sess[q].moves /\ inserts = sess[q].inserts
  OBVIOUS
<1>2. sess[q] # Idle => Typed(plan, moves, inserts) /\ Sound(q, plan, moves, inserts)
  BY <1>1 DEF TypeInv, PlansTyped, PlanTyped, PlanSound
<1>3. sess[q] # Idle => Sound(q, plan, moves, inserts)'
  BY <1>2, SoundStays DEF Undisturbed
<1>4. QED
  BY <1>1, <1>3 DEF PlanSound, Undisturbed

(* Pace, row by row, after a step.                                         *)
LEMMA PaceByRowNext ==
  ASSUME RowsTyped', \A d \in DispatchIds : dispatches'[d] \in Row => Paced(dispatches[d])'
  PROVE  WipKeepsPace'
BY DEF RowsTyped, WipKeepsPace, Paced, Target, Row, NoDispatch

(* A commit does what the plan says, to the planner's laboratory alone.    *)
LEMMA CommitSound ==
  ASSUME OnePlannerPerLab, TypeInv, TypeInv', DispatchInv, NEW p \in Planners, Commit(p)
  PROVE  DispatchInv'
<1>0. RowsTyped /\ RowsTyped'
  BY DEF TypeInv
<1>1. /\ sess'[p] = Idle /\ \A q \in Planners : q # p => sess'[q] = sess[q]
      /\ UNCHANGED <<execs, machines, recipes>>
  BY Commits
<1>2. PlanSound(p)'
  BY <1>1 DEF PlanSound
<1>3. \A row \in Row : Fits(row) => Fits(row)'
  BY <1>1 DEF Fits
<1>4. RecipeOfOneLab'
  BY <1>1 DEF DispatchInv, RecipeOfOneLab
<1>5. CASE UNCHANGED <<wips, dispatches>>
  <2>1. ASSUME NEW q \in Planners, q # p
        PROVE  PlanSound(q)'
    BY <1>1, <1>3, <1>5, <2>1, OthersSound DEF Undisturbed, DispatchInv
  <2>2. MachineNamed' /\ WipKeepsPace' /\ CheckInAssigned'
    BY <1>1, <1>5 DEF DispatchInv, MachineNamed, WipKeepsPace, CheckInAssigned, Assigned,
         Reached
  <2>3. QED
    BY <1>2, <1>4, <2>1, <2>2 DEF DispatchInv
<1>6. CASE /\ sess[p].inserts => \A d \in DOMAIN sess[p].plan : dispatches[d] = NoDispatch
           /\ dispatches' = [d \in DispatchIds |->
                               IF d \in DOMAIN sess[p].plan
                               THEN Merged(dispatches[d], sess[p].plan[d])
                               ELSE dispatches[d]]
           /\ wips' = Merged(wips, sess[p].moves)
  <2>0. PICK plan, moves, inserts :
          plan = sess[p].plan /\ moves = sess[p].moves /\ inserts = sess[p].inserts
    OBVIOUS
  <2>1. Typed(plan, moves, inserts) /\ Sound(p, plan, moves, inserts)
    BY <2>0, Commits DEF DispatchInv, PlanSound
  <2>2. ASSUME NEW w \in DOMAIN moves
        PROVE  /\ w \in Wips /\ wips'[w] = moves[w] /\ moves[w] \in Targets
               /\ WipLab[w] = p.lab
    BY <1>6, <2>0, <2>1 DEF Typed, Sound, MayMove, Merged, TypeInv
  <2>3. ASSUME NEW w \in Wips, w \notin DOMAIN moves
        PROVE  wips'[w] = wips[w]
    BY <1>6, <2>0, <2>3 DEF Merged, TypeInv
  <2>4. ASSUME NEW d \in DOMAIN plan
        PROVE  \E row \in Row :
                 /\ d \in DispatchIds /\ dispatches'[d] = row /\ dispatches[d].status # "waiting_load"
                 /\ row.lab = p.lab /\ WipLab[row.wip] = p.lab
                 /\ row.wip \in DOMAIN moves => moves[row.wip] = Target(row.status)
                 /\ row.wip \notin DOMAIN moves => Paced(row)
                 /\ row.status = "waiting_load" => Fits(row)
                 /\ dispatches[d] \in Row => dispatches[d].lab = p.lab
                 /\ row = Planned(plan, inserts, d)
    <3> DEFINE row == Planned(plan, inserts, d)
    <3>1. d \in DispatchIds /\ dispatches'[d] = Merged(dispatches[d], plan[d])
          /\ (inserts => dispatches[d] = NoDispatch)
      BY <1>6, <2>0, <2>1 DEF Typed
    <3>2. /\ row \in Row /\ row.lab = WipLab[row.wip] /\ dispatches'[d] = row
          /\ ~inserts => row.lab = dispatches[d].lab
      BY <1>0, <2>1, <3>1, PlannedRows
    <3>3. /\ row.lab = p.lab
          /\ ~inserts => dispatches[d].status # "waiting_load"
          /\ row.wip \in DOMAIN moves => moves[row.wip] = Target(row.status)
          /\ row.wip \notin DOMAIN moves => Paced(row)
          /\ row.status = "waiting_load" => Fits(row)
      BY <2>1 DEF Sound
    <3>4. inserts => dispatches[d].status = "absent" /\ dispatches[d] \notin Row
      BY <3>1, RowIsThere DEF NoDispatch
    <3> HIDE DEF row
    <3>5. WipLab[row.wip] = p.lab /\ dispatches[d].status # "waiting_load"
          /\ (dispatches[d] \in Row => dispatches[d].lab = p.lab)
      BY <3>2, <3>3, <3>4
    <3>6. row = Planned(plan, inserts, d)
      BY DEF row
    <3>7. QED
      BY <3>1, <3>2, <3>3, <3>5, <3>6
  <2>5. ASSUME NEW d \in DispatchIds, d \notin DOMAIN plan
        PROVE  dispatches'[d] = dispatches[d]
    BY <1>6, <2>0, <2>5
  <2>6. MachineNamed'
    <3>1. ASSUME NEW d \in DispatchIds, dispatches'[d].status = "waiting_load"
          PROVE  dispatches'[d].machine \in MachineIds
      <4>1. CASE d \in DOMAIN plan
        BY <2>4, <3>1, <4>1 DEF Fits
      <4>2. CASE d \notin DOMAIN plan
        BY <2>5, <3>1, <4>2 DEF DispatchInv, MachineNamed
      <4>3. QED
        BY <4>1, <4>2
    <3>2. QED
      BY <3>1 DEF MachineNamed
  <2>7. ASSUME NEW row \in Row,
               row.wip \in DOMAIN moves => Rank(Target(row.status)) <= Rank(moves[row.wip]),
               row.wip \notin DOMAIN moves => Paced(row)
        PROVE  Paced(row)'
    <3>1. row.wip \in Wips /\ Rank(Target(row.status)) \in Nat
      BY TargetFacts DEF Row
    <3>2. CASE row.wip \in DOMAIN moves
      <4>1. wips'[row.wip] = moves[row.wip] /\ Rank(moves[row.wip]) \in Nat
        BY <2>2, <3>2, TargetFacts
      <4>2. QED
        BY <2>7, <3>1, <3>2, <4>1 DEF Paced, Reached
    <3>3. CASE row.wip \notin DOMAIN moves
      BY <2>3, <2>7, <3>1, <3>3 DEF Paced, Reached
    <3>4. QED
      BY <3>2, <3>3
  <2>8. WipKeepsPace'
    <3>1. ASSUME NEW d \in DispatchIds, dispatches'[d] \in Row
          PROVE  Paced(dispatches[d])'
      <4>1. CASE d \in DOMAIN plan
        <5>1. PICK row \in Row :
                /\ dispatches'[d] = row
                /\ row.wip \in DOMAIN moves => moves[row.wip] = Target(row.status)
                /\ row.wip \notin DOMAIN moves => Paced(row)
          BY <2>4, <4>1
        <5>2. row.wip \in DOMAIN moves => Rank(Target(row.status)) <= Rank(moves[row.wip])
          BY <5>1, TargetFacts
        <5>3. Paced(row)'
          BY <2>7, <5>1, <5>2
        <5>4. QED
          BY <5>1, <5>3 DEF Paced, Reached
      <4>2. CASE d \notin DOMAIN plan
        <5>1. PICK row \in Row : row = dispatches[d] /\ dispatches'[d] = row
          BY <2>5, <3>1, <4>2
        <5>2. Paced(row)
          BY <1>0, <5>1, PaceByRow DEF DispatchInv
        <5>3. row.wip \in DOMAIN moves => Rank(Target(row.status)) <= Rank(moves[row.wip])
          BY <2>1, <5>1 DEF Sound, MayMove
        <5>4. Paced(row)'
          BY <2>7, <5>2, <5>3
        <5>5. QED
          BY <5>1, <5>4 DEF Paced, Reached
      <4>3. QED
        BY <4>1, <4>2
    <3>2. QED
      BY <1>0, <3>1, PaceByRowNext
  <2>9. CheckInAssigned'
    <3>1. ASSUME NEW w \in Wips, wips'[w] = "dispatched" \/ execs'[w].on
          PROVE  Assigned(w)'
      <4>1. CASE w \in DOMAIN moves /\ moves[w] = "dispatched"
        <5>1. PICK d \in DOMAIN plan : /\ Planned(plan, inserts, d).wip = w
                                       /\ Planned(plan, inserts, d).status = "waiting_load"
          BY <2>1, <4>1 DEF Sound
        <5>2. PICK row \in Row :
                /\ d \in DispatchIds /\ dispatches'[d] = row /\ row.lab = p.lab /\ WipLab[row.wip] = p.lab
                /\ row.status = "waiting_load" => Fits(row)
                /\ row = Planned(plan, inserts, d)
          BY <2>4
        <5>3. row.wip = w /\ row.status = "waiting_load" /\ machines[row.machine].lab = WipLab[w]
          BY <5>1, <5>2 DEF Fits
        <5>4. QED
          BY <1>1, <5>2, <5>3 DEF Assigned
      <4>2. CASE wips[w] = "dispatched" \/ execs[w].on
        <5>1. PICK d \in DispatchIds :
                /\ dispatches[d].wip = w /\ dispatches[d].status = "waiting_load"
                /\ machines[dispatches[d].machine].lab = WipLab[w]
          BY <4>2 DEF DispatchInv, CheckInAssigned, Assigned
        <5>2. d \notin DOMAIN plan
          BY <2>4, <5>1
        <5>3. QED
          BY <1>1, <2>5, <5>1, <5>2 DEF Assigned
      <4>3. QED
        BY <1>1, <2>2, <2>3, <3>1, <4>1, <4>2
    <3>2. QED
      BY <3>1 DEF CheckInAssigned
  <2>10. ASSUME NEW q \in Planners, q # p
         PROVE  PlanSound(q)'
    <3>1. q.lab # p.lab
      BY <2>10 DEF OnePlannerPerLab
    <3>2. \A w \in Wips : WipLab[w] = q.lab => wips'[w] = wips[w]
      BY <2>2, <2>3, <3>1
    <3>3. \A d \in DispatchIds : OfLab(d, q.lab) \/ OfLab(d, q.lab)' => dispatches'[d] = dispatches[d]
      BY <2>4, <2>5, <3>1 DEF OfLab
    <3>4. QED
      BY <1>1, <1>3, <2>10, <3>2, <3>3, OthersSound DEF Undisturbed, DispatchInv
  <2>11. QED
    BY <1>2, <1>4, <2>6, <2>8, <2>9, <2>10 DEF DispatchInv
<1>7. QED
  BY <1>5, <1>6, Commits

(* A machine belongs to its laboratory for good: a planner creates and     *)
(* changes machines of its own laboratory only.                            *)
LEMMA MachinesSound ==
  ASSUME OnePlannerPerLab, TypeInv, TypeInv', DispatchInv, NEW p \in Planners,
         CreateMachine(p) \/ UpdateMachine(p) \/ UpdateStatus(p)
  PROVE  DispatchInv'
<1>0. /\ \A lab : CanAccess(p, lab) => lab = p.lab /\ p.lab # NoLab
      /\ \A m \in MachineIds : machines[m] = NoMachine \/ machines[m] \in MachineRow
      /\ NoLab \notin Labs
  BY OwnLab, PlannersAssumption DEF TypeInv
<1>1. sess[p] = Idle /\ UNCHANGED <<wips, execs, dispatches, recipes, sess>>
  BY DEF CreateMachine, UpdateMachine, UpdateStatus
<1>2. PICK m \in MachineIds : \E row :
        /\ machines' = [machines EXCEPT ![m] = row]
        /\ row # NoMachine /\ row.lab = p.lab
        /\ machines[m] = NoMachine \/ machines[m].lab = p.lab
  <2>1. CASE CreateMachine(p)
    <3>1. PICK m \in MachineIds, lab \in Labs, items \in SUBSET ItemKinds, status \in Statuses :
            /\ machines[m] = NoMachine /\ CanAccess(p, lab)
            /\ machines' = [machines EXCEPT ![m] = [lab |-> lab, items |-> items, status |-> status]]
      BY <2>1 DEF CreateMachine
    <3>2. lab = p.lab /\ [lab |-> lab, items |-> items, status |-> status] # NoMachine
      BY <1>0, <3>1 DEF NoMachine
    <3>3. QED
      BY <3>1, <3>2
  <2>2. CASE UpdateMachine(p)
    <3>1. PICK m \in MachineIds, lab \in Labs, items \in SUBSET ItemKinds :
            \E status \in Statuses \cup {machines[m].status} :
              /\ VisibleMachine(p, m) /\ CanAccess(p, lab)
              /\ machines' = [machines EXCEPT ![m] = [lab |-> lab, items |-> items, status |-> status]]
      BY <2>2 DEF UpdateMachine
    <3>2. PICK status :
            machines' = [machines EXCEPT ![m] = [lab |-> lab, items |-> items, status |-> status]]
      BY <3>1
    <3>3. lab = p.lab /\ [lab |-> lab, items |-> items, status |-> status] # NoMachine
      BY <1>0, <3>1 DEF NoMachine
    <3>4. machines[m].lab = p.lab
      BY <1>0, <3>1 DEF VisibleMachine
    <3>5. QED
      BY <3>2, <3>3, <3>4
  <2>3. CASE UpdateStatus(p)
    <3>1. PICK m \in MachineIds, status \in Statuses :
            VisibleMachine(p, m) /\ machines' = [machines EXCEPT ![m].status = status]
      BY <2>3 DEF UpdateStatus
    <3>2. machines[m] \in MachineRow /\ machines[m].lab = p.lab
      BY <1>0, <3>1 DEF VisibleMachine
    <3>3. PICK row : row = [machines[m] EXCEPT !.status = status]
      OBVIOUS
    <3>4. row.lab = p.lab /\ row \in [lab : Labs, items : SUBSET ItemKinds, status : Statuses]
      BY <3>2, <3>3 DEF MachineRow
    <3>5. row # NoMachine
      BY <1>0, <3>4 DEF NoMachine
    <3>6. QED
      BY <3>1, <3>2, <3>3, <3>4, <3>5
  <2>4. QED
    BY <2>1, <2>2, <2>3
<1>3. ASSUME NEW n \in MachineIds
      PROVE  /\ machines[n] # NoMachine =>
                  machines'[n] # NoMachine /\ machines'[n].lab = machines[n].lab
             /\ machines[n].lab \in Labs => machines[n] # NoMachine
             /\ machines[n].lab \in Labs \ {p.lab} => machines'[n] = machines[n]
  BY <1>0, <1>2 DEF NoMachine, TypeInv
<1>4. RecipeOfOneLab'
  <2>1. \A r \in RecipeIds : recipes[r].machines \subseteq MachineIds
    BY DEF TypeInv, RecipeRow, NoRecipe
  <2>2. QED
    BY <1>1, <1>3, <2>1 DEF RecipeOfOneLab, DispatchInv
<1>5. MachineNamed' /\ WipKeepsPace'
  BY <1>1 DEF DispatchInv, MachineNamed, WipKeepsPace, Reached
<1>6. CheckInAssigned'
  <2>1. ASSUME NEW w \in Wips, wips[w] = "dispatched" \/ execs[w].on
        PROVE  Assigned(w)'
    <3>1. PICK d \in DispatchIds :
            /\ dispatches[d].wip = w /\ dispatches[d].status = "waiting_load"
            /\ machines[dispatches[d].machine].lab = WipLab[w]
      BY <2>1 DEF DispatchInv, CheckInAssigned, Assigned
    <3>2. dispatches[d].machine \in MachineIds
      BY <3>1 DEF DispatchInv, MachineNamed
    <3>3. WipLab[w] \in Labs
      BY PlannersAssumption
    <3>4. QED
      BY <1>1, <1>3, <3>1, <3>2, <3>3 DEF Assigned
  <2>2. QED
    BY <1>1, <2>1 DEF CheckInAssigned
<1>7. ASSUME NEW q \in Planners
      PROVE  PlanSound(q)'
  <2>1. CASE q = p
    BY <1>1, <2>1 DEF PlanSound
  <2>2. CASE q # p
    <3>1. q.lab # p.lab
      BY <2>2 DEF OnePlannerPerLab
    <3>2. ASSUME NEW row \in Row, row.lab = q.lab, Fits(row)
          PROVE  Fits(row)'
      <4>1. row.lab \in Labs
        BY DEF Row
      <4>2. machines'[row.machine] = machines[row.machine]
        BY <1>3, <3>1, <3>2, <4>1 DEF Fits
      <4>3. QED
        BY <1>1, <3>2, <4>2 DEF Fits
    <3>3. QED
      BY <1>1, <3>2, OthersSound DEF Undisturbed, DispatchInv, OfLab
  <2>3. QED
    BY <2>1, <2>2
<1>8. QED
  BY <1>4, <1>5, <1>6, <1>7 DEF DispatchInv

(* A recipe is of its laboratory's machines for good: who sees it has one  *)
(* of them, and may name its own machines only.                            *)
LEMMA RecipesSound ==
  ASSUME OnePlannerPerLab, TypeInv, TypeInv', DispatchInv, NEW p \in Planners,
         CreateRecipe(p) \/ UpdateRecipe(p)
  PROVE  DispatchInv'
<1>1. sess[p] = Idle /\ UNCHANGED <<wips, execs, dispatches, machines, sess>> /\ ~SeesAll(p)
  BY OwnLab DEF CreateRecipe, UpdateRecipe
<1>2. PICK r \in RecipeIds, item \in ItemKinds, ms \in SUBSET MachineIds :
        /\ recipes' = [recipes EXCEPT ![r] = [item |-> item, machines |-> ms]]
        /\ recipes[r] = NoRecipe \/ recipes[r].machines \cap MachinesInLab(p.lab) # {}
        /\ ms # {} /\ ms \subseteq MachinesInLab(p.lab)
  BY <1>1 DEF CreateRecipe, UpdateRecipe, RecipeVisible, InScope
<1>3. /\ recipes'[r].machines = ms
      /\ \A s \in RecipeIds \ {r} : recipes'[s] = recipes[s]
  BY <1>2 DEF TypeInv
<1>4. RecipeOfOneLab'
  <2>1. \A m, n \in ms : machines[m] # NoMachine /\ machines[m].lab = machines[n].lab
    BY <1>2 DEF MachinesInLab
  <2>2. QED
    BY <1>1, <1>2, <1>3, <2>1 DEF RecipeOfOneLab, DispatchInv
<1>5. MachineNamed' /\ WipKeepsPace' /\ CheckInAssigned'
  BY <1>1 DEF DispatchInv, MachineNamed, WipKeepsPace, CheckInAssigned, Assigned,
         Reached
<1>6. ASSUME NEW q \in Planners
      PROVE  PlanSound(q)'
  <2>1. CASE q = p
    BY <1>1, <2>1 DEF PlanSound
  <2>2. CASE q # p
    <3>1. q.lab # p.lab
      BY <2>2 DEF OnePlannerPerLab
    <3>2. ASSUME NEW row \in Row, row.lab = q.lab, Fits(row)
          PROVE  Fits(row)'
      <4>1. row.recipe \in RecipeIds /\ row.machine \in recipes[row.recipe].machines
            /\ machines[row.machine].lab = q.lab
        BY <3>2 DEF Fits
      <4>2. \A m \in recipes[row.recipe].machines : machines[m].lab = q.lab
        BY <4>1 DEF DispatchInv, RecipeOfOneLab
      <4>3. recipes[row.recipe] # NoRecipe
        BY <4>1 DEF NoRecipe
      <4>4. row.recipe # r
        BY <1>2, <3>1, <4>2, <4>3 DEF MachinesInLab
      <4>5. QED
        BY <1>1, <1>3, <3>2, <4>1, <4>4 DEF Fits
    <3>3. QED
      BY <1>1, <3>2, OthersSound DEF Undisturbed, DispatchInv, OfLab
  <2>3. QED
    BY <2>1, <2>2
<1>7. QED
  BY <1>4, <1>5, <1>6 DEF DispatchInv

(* A run changes its WIP's status only to leave the chain.                 *)
LEMMA RunsSound ==
  ASSUME ActionsLeaveChain, TypeInv, TypeInv', DispatchInv, NEW w \in Wips, RunStep(w)
  PROVE  DispatchInv'
<1>0. PICK status \in WipStatus, exec \in ExecRow :
        /\ Run(w, status, exec)
        /\ exec.on => execs[w].on \/ wips[w] = "dispatched"
        /\ status = wips[w] \/ status \in Beyond
  BY RunWrites DEF ActionsLeaveChain
<1>1. UNCHANGED <<dispatches, machines, recipes, sess>>
  BY <1>0 DEF Run
<1>2. /\ \A v \in Wips : wips'[v] = wips[v] \/ wips'[v] \in Beyond
      /\ \A v \in Wips : execs'[v].on => execs[v].on \/ wips[v] = "dispatched"
  BY <1>0 DEF Run, TypeInv
<1>3. ASSUME NEW row \in Row, Paced(row)
      PROVE  Paced(row)'
  <2>1. row.wip \in Wips
    BY DEF Row
  <2>2. CASE wips'[row.wip] = wips[row.wip]
    BY <1>3, <2>2 DEF Paced, Reached
  <2>3. CASE wips'[row.wip] \in Beyond
    BY <2>3, RankFacts DEF Paced, Reached, Beyond, ChainStatuses
  <2>4. QED
    BY <1>2, <2>1, <2>2, <2>3
<1>4. WipKeepsPace'
  <2>0. RowsTyped /\ RowsTyped'
    BY DEF TypeInv
  <2>1. ASSUME NEW d \in DispatchIds, dispatches'[d] \in Row
        PROVE  Paced(dispatches[d])'
    <3>1. PICK row \in Row : row = dispatches[d] /\ dispatches'[d] = row
      BY <1>1, <2>1
    <3>2. Paced(row)
      BY <2>0, <3>1, PaceByRow DEF DispatchInv
    <3>3. Paced(row)'
      BY <1>3, <3>2
    <3>4. QED
      BY <3>1, <3>3 DEF Paced, Reached
  <2>2. QED
    BY <2>0, <2>1, PaceByRowNext
<1>5. CheckInAssigned'
  <2>1. \A v \in Wips : wips'[v] = "dispatched" => wips[v] = "dispatched"
    BY <1>2 DEF Beyond
  <2>2. QED
    BY <1>1, <1>2, <2>1 DEF CheckInAssigned, Assigned, DispatchInv
<1>6. RecipeOfOneLab' /\ MachineNamed'
  BY <1>1 DEF DispatchInv, RecipeOfOneLab, MachineNamed
<1>7. ASSUME NEW q \in Planners
      PROVE  PlanSound(q)'
  <2>1. \A row \in Row : Fits(row) => Fits(row)'
    BY <1>1 DEF Fits
  <2>2. QED
    BY <1>1, <1>2, <2>1, OthersSound DEF Undisturbed, DispatchInv, OfLab
<1>8. QED
  BY <1>4, <1>5, <1>6, <1>7 DEF DispatchInv

(* Every step keeps the invariant.                                         *)
LEMMA DispatchStep ==
  ASSUME OnePlannerPerLab, ActionsLeaveChain, TypeInv, DispatchInv, [Next]_vars
  PROVE  DispatchInv'
<1>1. TypeInv'
  BY StepTypes
<1>2. CASE UNCHANGED vars
  <2>1. \A row \in Row : Fits(row) => Fits(row)'
    BY <1>2 DEF vars, Fits
  <2>2. \A q \in Planners : PlanSound(q)'
    BY <1>1, <1>2, <2>1, OthersSound DEF vars, Undisturbed, DispatchInv, OfLab
  <2>3. RecipeOfOneLab' /\ MachineNamed' /\ WipKeepsPace' /\ CheckInAssigned'
    BY <1>2 DEF vars, DispatchInv, RecipeOfOneLab, MachineNamed, WipKeepsPace, CheckInAssigned, Assigned,
         Reached
  <2>4. QED
    BY <2>2, <2>3 DEF DispatchInv
<1>3. CASE Next
  BY <1>1, <1>3, HandlersSound, CommitSound, MachinesSound, RecipesSound, RunsSound DEF Next, RunStep
<1>4. QED
  BY <1>2, <1>3

(* With one planner per laboratory, and no WIP action that moves a WIP     *)
(* along the chain, the invariant holds in every reachable state.          *)
LEMMA DispatchInvariant ==
  ASSUME OnePlannerPerLab, ActionsLeaveChain
  PROVE  Spec => [](TypeInv /\ DispatchInv)
<1>1. Init => DispatchInv
  <2> SUFFICES ASSUME Init PROVE DispatchInv
    OBVIOUS
  <2>1. \A d \in DispatchIds : dispatches[d].status = "absent"
    BY DEF Init, NoDispatch
  <2>2. \A w \in Wips : wips[w] # "dispatched" /\ ~execs[w].on
    BY DEF Init, NewExec
  <2>3. QED
    BY <2>1, <2>2 DEF Init, DispatchInv, RecipeOfOneLab, MachineNamed, PlanSound, WipKeepsPace,
                      CheckInAssigned, NoRecipe
<1>2. DispatchInv /\ TypeInv /\ [Next]_vars => DispatchInv'
  BY DispatchStep
<1>3. QED
  BY <1>1, <1>2, TypeInvariant, PTL DEF Spec

(* A WIP is never behind its dispatches, whatever the planners of other    *)
(* laboratories, the runs and the reviews of aborts do between the reading *)
(* and the commit of a request.                                            *)
THEOREM WipsKeepPace ==
  ASSUME OnePlannerPerLab, ActionsLeaveChain
  PROVE  Spec => []WipKeepsPace
<1>1. DispatchInv => WipKeepsPace
  BY DEF DispatchInv
<1>2. QED
  BY <1>1, DispatchInvariant, PTL

(* What has been checked in, or may be, has been assigned a machine of its *)
(* own laboratory: the gate that check_in puts before the machine cannot   *)
(* be passed by a plan made before the WIP was run or ended by a review.   *)
THEOREM CheckedInWasAssigned ==
  ASSUME OnePlannerPerLab, ActionsLeaveChain
  PROVE  Spec => []CheckInAssigned
<1>1. DispatchInv => CheckInAssigned
  BY DEF DispatchInv
<1>2. QED
  BY <1>1, DispatchInvariant, PTL

(* A dispatch that a commit assigns was planned so, and its machine and    *)
(* recipe fit.                                                             *)
LEMMA AssignedByCommit ==
  ASSUME TypeInv, DispatchInv, NEW p \in Planners, Commit(p), NEW d \in DispatchIds,
         dispatches[d].status # "waiting_load", dispatches'[d].status = "waiting_load"
  PROVE  Fits(dispatches'[d]) /\ UNCHANGED <<machines, recipes>>
<1>1. UNCHANGED <<machines, recipes>>
  BY Commits
<1>2. PICK plan, moves, inserts :
        plan = sess[p].plan /\ moves = sess[p].moves /\ inserts = sess[p].inserts
  OBVIOUS
<1>3. Typed(plan, moves, inserts) /\ Sound(p, plan, moves, inserts) /\ RowsTyped
  BY <1>2, Commits DEF DispatchInv, PlanSound, TypeInv
<1>4. /\ inserts => \A e \in DOMAIN plan : dispatches[e] = NoDispatch
      /\ dispatches' = [e \in DispatchIds |->
                          IF e \in DOMAIN plan THEN Merged(dispatches[e], plan[e]) ELSE dispatches[e]]
  BY <1>2, Commits
<1>5. d \in DOMAIN plan /\ dispatches'[d] = Merged(dispatches[d], plan[d])
  BY <1>4
<1>6. Merged(dispatches[d], plan[d]) = Planned(plan, inserts, d)
  BY <1>3, <1>4, <1>5, PlannedRows
<1>7. Planned(plan, inserts, d).status = "waiting_load" => Fits(Planned(plan, inserts, d))
  BY <1>3, <1>5 DEF Sound
<1>8. QED
  BY <1>1, <1>5, <1>6, <1>7

(* When an assignment is committed its machine and recipe still fit: the   *)
(* check that assign made on rows it does not lock has not become stale.   *)
THEOREM AssignmentsFit ==
  ASSUME OnePlannerPerLab, ActionsLeaveChain
  PROVE  Spec => AssignedFits
<1> DEFINE Fit(d) ==
      dispatches[d].status # "waiting_load" /\ dispatches'[d].status = "waiting_load" =>
        LET row == dispatches'[d]
        IN /\ row.item \in machines[row.machine].items
           /\ machines[row.machine].lab = row.lab
           /\ recipes[row.recipe].item = row.item
           /\ recipes[row.recipe].machines = {} \/ row.machine \in recipes[row.recipe].machines
<1>1. TypeInv /\ DispatchInv /\ [Next]_vars => [\A d \in DispatchIds : Fit(d)]_vars
  <2> SUFFICES ASSUME TypeInv, DispatchInv, [Next]_vars, NEW d \in DispatchIds
               PROVE  Fit(d)
    OBVIOUS
  <2>1. CASE \E p \in Planners : Commit(p)
    BY <2>1, AssignedByCommit DEF Fits
  <2>2. CASE UNCHANGED dispatches
    BY <2>2
  <2>3. [Next]_vars => UNCHANGED dispatches \/ \E p \in Planners : Commit(p)
    <3>1. ASSUME NEW p \in Planners, Create(p) \/ Suggest(p) \/ Replan(p) \/ Assign(p)
          PROVE  UNCHANGED dispatches
      BY <3>1 DEF Create, Suggest, Replan, Scheduled, Assign, Prepare
    <3>2. ASSUME NEW p \in Planners,
                 \/ CreateMachine(p) \/ UpdateMachine(p) \/ UpdateStatus(p)
                 \/ CreateRecipe(p) \/ UpdateRecipe(p)
          PROVE  UNCHANGED dispatches
      BY <3>2 DEF CreateMachine, UpdateMachine, UpdateStatus, CreateRecipe, UpdateRecipe
    <3>3. ASSUME NEW w \in Wips, RunStep(w)
          PROVE  UNCHANGED dispatches
      BY <3>3 DEF RunStep, CheckIn, Unload, ConfirmResult, RequestAbort, ApproveAbort, RejectAbort,
                  WipAction, Run
    <3>4. QED
      BY <3>1, <3>2, <3>3 DEF Next, RunStep, vars
  <2>4. QED
    BY <2>1, <2>2, <2>3
<1> HIDE DEF Fit
<1>2. Spec => [][\A d \in DispatchIds : Fit(d)]_vars
  BY <1>1, DispatchInvariant, PTL DEF Spec
<1>3. QED
  BY <1>2 DEF AssignedFits, Fit

=============================================================================
