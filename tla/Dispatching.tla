---------------------------- MODULE Dispatching ------------------------------
(***************************************************************************)
(* Dispatches, machines and recipes (backend/app/modules/dispatches,       *)
(* machines, recipes) and what they do to the WIPs.                        *)
(*                                                                         *)
(* A request on dispatches is two steps: the handler reads and checks,     *)
(* then commits.  Its ORM session writes the columns that differ from the  *)
(* copies it read, so a commit merges into rows that others may have       *)
(* changed meanwhile.  Machines and recipes change one row at a time, in   *)
(* one step.  So do the runs, whose own overlap is ExperimentRun's.        *)
(***************************************************************************)
EXTENDS Naturals

CONSTANTS
  Labs, Wips, DispatchIds, MachineIds, RecipeIds,
  WipLab,        \* the laboratory of a WIP
  ItemKinds,     \* experiment items
  Planners,      \* who may manage dispatches: records of a role and a lab
  Statuses,      \* statuses of a machine that are told apart
  WipActions     \* the WIP actions that callers use

NoLab == "no lab"
None  == "none"

ASSUME PlannersAssumption ==
  /\ NoLab \notin Labs /\ None \notin MachineIds \cup RecipeIds \cup Wips \cup ItemKinds
  /\ WipLab \in [Wips -> Labs]
  /\ Planners \subseteq [role : {"engineer", "supervisor", "admin"}, lab : Labs \cup {NoLab}]

(* The wips.status that each WIP action writes.                            *)
ActionStatus ==
  [send_to_schedule |-> "waiting_schedule", mark_scheduled |-> "scheduled",
   mark_dispatched |-> "dispatched", start |-> "running", resume |-> "running",
   pause |-> "paused", complete |-> "completed", terminate |-> "terminated"]

ASSUME ActionsAssumption == WipActions \subseteq DOMAIN ActionStatus

VARIABLES
  wips,        \* wips.status
  execs,       \* rows of `wip_execution`; one that is absent reads like a new one
  dispatches,  \* rows of `dispatches`
  machines,    \* rows of `machines`
  recipes,     \* rows of `recipes`
  sess         \* requests under way: what they will write

vars == <<wips, execs, dispatches, machines, recipes, sess>>

-----------------------------------------------------------------------------
DispatchStatuses == {"absent", "pending", "scheduling", "waiting_load"}

(* _WIP_CHAIN, and what lies beyond it.                                    *)
Chain == <<"created", "waiting_schedule", "scheduled", "dispatched">>
Beyond == {"running", "paused", "completed", "terminated"}
Rank(status) == CHOOSE n \in DOMAIN Chain : Chain[n] = status
InChain(status) == \E n \in DOMAIN Chain : Chain[n] = status

NoDispatch == [wip |-> None, item |-> None, lab |-> NoLab, status |-> "absent",
               suggested |-> None, machine |-> None, recipe |-> None]
NoMachine  == [lab |-> NoLab, items |-> {}, status |-> None]
NoRecipe   == [item |-> None, machines |-> {}]

(* ensure_exec.  "running" stands for unloaded and waiting_confirm too,    *)
(* "ended" for completed and terminated; `on` says that check_in_at is     *)
(* set, `abort` that a request waits for its review.                       *)
NewExec == [status |-> "waiting_load", on |-> FALSE, abort |-> FALSE]

Idle == [plan |-> <<>>, moves |-> <<>>, inserts |-> FALSE]

-----------------------------------------------------------------------------
(* LabScope.                                                               *)
SeesAll(p) == p.role = "admin"
RestrictedWithoutLab(p) == ~SeesAll(p) /\ p.lab = NoLab
CanAccess(p, lab) == SeesAll(p) \/ (p.lab # NoLab /\ lab = p.lab)

(* Mutant of Listed: without the filter by laboratory.                     *)
ListedAll(p, statuses) == {d \in DispatchIds : dispatches[d].status \in statuses}

(* list_by_statuses and list_machines, filtered by laboratory.             *)
Listed(p, statuses) ==
  {d \in DispatchIds : /\ dispatches[d].status \in statuses
                       /\ ~RestrictedWithoutLab(p) /\ CanAccess(p, dispatches[d].lab)}
MachinesListed(p) ==
  {m \in MachineIds : /\ machines[m] # NoMachine
                      /\ ~RestrictedWithoutLab(p) /\ CanAccess(p, machines[m].lab)}

MachinesInLab(lab) == {m \in MachineIds : machines[m] # NoMachine /\ machines[m].lab = lab}

RecipeVisible(p, r) ==
  recipes[r] # NoRecipe /\ (SeesAll(p) \/ recipes[r].machines \cap MachinesInLab(p.lab) # {})

(* DispatchService._require, MachineService._require.                      *)
Visible(p, d) == dispatches[d] # NoDispatch /\ CanAccess(p, dispatches[d].lab)
VisibleMachine(p, m) == machines[m] # NoMachine /\ CanAccess(p, machines[m].lab)

(* Mutant of InScope: one machine of the caller's laboratory is enough.    *)
InScopeSome(p, ms) == SeesAll(p) \/ ms \cap MachinesInLab(p.lab) # {}

(* _ensure_machines_in_scope.                                              *)
InScope(p, ms) == SeesAll(p) \/ (ms # {} /\ ms \subseteq MachinesInLab(p.lab))

-----------------------------------------------------------------------------
(* The columns of `new` that differ from the copy `old`.                   *)
Changed(old, new) == [f \in {g \in DOMAIN new : new[g] # old[g]} |-> new[f]]

(* Mutant of Move: the target is written wherever the WIP is.              *)
MoveAlways(ws, target) == [w \in ws |-> target]

(* _sync_wip_status: forward along the chain only.                         *)
Move(ws, target) ==
  [w \in {v \in ws : InChain(wips[v]) /\ Rank(wips[v]) < Rank(target)} |-> target]

(* _match_machine: the first machine of the list that supports the item,   *)
(* in whatever order the database returns it; None if there is none.       *)
Matches(p, item) ==
  LET them == {m \in MachinesListed(p) : item \in machines[m].items}
  IN IF them = {} THEN {None} ELSE them

Prepare(p, plan, moves, inserts) ==
  /\ sess[p] = Idle
  /\ sess' = [sess EXCEPT ![p] = [plan |-> plan, moves |-> moves, inserts |-> inserts]]
  /\ UNCHANGED <<wips, execs, dispatches, machines, recipes>>

(* DispatchService.create: a WIP may have several.                         *)
Create(p) ==
  \E d \in DispatchIds, w \in Wips, item \in ItemKinds :
    /\ dispatches[d] = NoDispatch
    /\ CanAccess(p, WipLab[w])
    /\ Prepare(p, [e \in {d} |-> [NoDispatch EXCEPT !.wip = w, !.item = item, !.lab = WipLab[w],
                                          !.status = "pending"]],
               Move({w}, "waiting_schedule"), TRUE)

(* suggest, replan: every dispatch of the given statuses gets a machine.   *)
Scheduled(p, statuses) ==
  LET ds == Listed(p, statuses)
  IN /\ ds # {}
     /\ \E match \in [ItemKinds -> MachineIds \cup {None}] :
          /\ \A item \in ItemKinds : match[item] \in Matches(p, item)
          /\ Prepare(p, [d \in ds |-> Changed(dispatches[d],
                                       [status |-> "scheduling",
                                        suggested |-> match[dispatches[d].item]])],
                     Move({dispatches[d].wip : d \in ds}, "scheduled"), FALSE)

Suggest(p) == Scheduled(p, {"pending"})
Replan(p) == Scheduled(p, {"pending", "scheduling"})

(* assign: the planner may choose another machine than the suggested one;  *)
(* a WIP that has left the chain refuses.                                  *)
Assign(p) ==
  \E d \in DispatchIds, m \in MachineIds, r \in RecipeIds :
    LET row == dispatches[d]
    IN /\ Visible(p, d) /\ row.status = "scheduling"
       /\ VisibleMachine(p, m)
       /\ row.item \in machines[m].items
       /\ recipes[r] # NoRecipe /\ recipes[r].item = row.item
       /\ recipes[r].machines = {} \/ m \in recipes[r].machines
       /\ InChain(wips[row.wip])
       /\ Prepare(p, [e \in {d} |-> Changed(row, [status |-> "waiting_load", machine |-> m, recipe |-> r])],
                  Move({row.wip}, "dispatched"), FALSE)

(* Mutant of Merged: the row becomes what the request writes.              *)
Overwritten(row, new) == new

(* The UPDATE of a flush: the values that are written, the others stay.    *)
Merged(row, new) == [f \in DOMAIN row |-> IF f \in DOMAIN new THEN new[f] ELSE row[f]]

(* dispatch_id is unique: an INSERT of one that was taken meanwhile fails, *)
(* and the request with it.                                                *)
Commit(p) ==
  LET plan == sess[p].plan
      taken == sess[p].inserts /\ \E d \in DOMAIN plan : dispatches[d] # NoDispatch
  IN /\ sess[p] # Idle
     /\ sess' = [sess EXCEPT ![p] = Idle]
     /\ IF taken THEN UNCHANGED <<wips, dispatches>>
        ELSE /\ dispatches' = [d \in DispatchIds |-> IF d \in DOMAIN plan
                                                     THEN Merged(dispatches[d], plan[d])
                                                     ELSE dispatches[d]]
             /\ wips' = Merged(wips, sess[p].moves)
     /\ UNCHANGED <<execs, machines, recipes>>

-----------------------------------------------------------------------------
(* MachineService.create.                                                  *)
CreateMachine(p) ==
  \E m \in MachineIds, lab \in Labs, items \in SUBSET ItemKinds, status \in Statuses :
    /\ sess[p] = Idle /\ machines[m] = NoMachine /\ CanAccess(p, lab)
    /\ machines' = [machines EXCEPT ![m] = [lab |-> lab, items |-> items, status |-> status]]
    /\ UNCHANGED <<wips, execs, dispatches, recipes, sess>>

(* MachineService.update, with a status or without.                        *)
UpdateMachine(p) ==
  \E m \in MachineIds, lab \in Labs, items \in SUBSET ItemKinds :
    \E status \in Statuses \cup {machines[m].status} :
      /\ sess[p] = Idle /\ VisibleMachine(p, m) /\ CanAccess(p, lab)
      /\ machines' = [machines EXCEPT ![m] = [lab |-> lab, items |-> items, status |-> status]]
      /\ UNCHANGED <<wips, execs, dispatches, recipes, sess>>

(* MachineService.update_status.                                           *)
UpdateStatus(p) ==
  \E m \in MachineIds, status \in Statuses :
    /\ sess[p] = Idle /\ VisibleMachine(p, m)
    /\ machines' = [machines EXCEPT ![m].status = status]
    /\ UNCHANGED <<wips, execs, dispatches, recipes, sess>>

(* RecipeService.create.                                                   *)
CreateRecipe(p) ==
  \E r \in RecipeIds, item \in ItemKinds, ms \in SUBSET MachineIds :
    /\ sess[p] = Idle /\ recipes[r] = NoRecipe /\ InScope(p, ms)
    /\ recipes' = [recipes EXCEPT ![r] = [item |-> item, machines |-> ms]]
    /\ UNCHANGED <<wips, execs, dispatches, machines, sess>>

(* RecipeService.update.                                                   *)
UpdateRecipe(p) ==
  \E r \in RecipeIds, item \in ItemKinds, ms \in SUBSET MachineIds :
    /\ sess[p] = Idle /\ RecipeVisible(p, r) /\ InScope(p, ms)
    /\ recipes' = [recipes EXCEPT ![r] = [item |-> item, machines |-> ms]]
    /\ UNCHANGED <<wips, execs, dispatches, machines, sess>>

-----------------------------------------------------------------------------
(* The runs (module ExperimentRun): what they do to wips.status.  Only     *)
(* check_in looks at it; all the others ask the execution row alone.       *)
Run(w, status, exec) ==
  /\ wips' = [wips EXCEPT ![w] = status]
  /\ execs' = [execs EXCEPT ![w] = exec]
  /\ UNCHANGED <<dispatches, machines, recipes, sess>>

CheckIn(w) ==
  /\ wips[w] = "dispatched" /\ execs[w].status = "waiting_load"
  /\ Run(w, "running", [execs[w] EXCEPT !.status = "running", !.on = TRUE])

(* check_out, upload_result and the machine that reports its end.          *)
Unload(w) ==
  /\ execs[w].status = "running"
  /\ Run(w, "running", execs[w])

ConfirmResult(w) ==
  /\ execs[w].status = "running"
  /\ Run(w, "completed", [execs[w] EXCEPT !.status = "ended"])

RequestAbort(w) ==
  /\ execs[w].status # "ended" /\ ~execs[w].abort
  /\ Run(w, wips[w], [execs[w] EXCEPT !.abort = TRUE])

(* review_abort, for a WIP that may never have been dispatched.            *)
ApproveAbort(w) ==
  /\ execs[w].abort
  /\ Run(w, "terminated", [execs[w] EXCEPT !.status = "ended", !.abort = FALSE])

RejectAbort(w) ==
  /\ execs[w].abort
  /\ Run(w, "running", [execs[w] EXCEPT !.status = "running", !.abort = FALSE])

(* handle_wip_action, from any status; whether the route of the sample     *)
(* lets it complete is SampleFlow's.                                       *)
WipAction(w, action) == Run(w, ActionStatus[action], execs[w])

Init ==
  /\ wips \in [Wips -> {"created", "waiting_schedule"}]
  /\ execs = [w \in Wips |-> NewExec]
  /\ dispatches = [d \in DispatchIds |-> NoDispatch]
  /\ machines = [m \in MachineIds |-> NoMachine]
  /\ recipes = [r \in RecipeIds |-> NoRecipe]
  /\ sess = [p \in Planners |-> Idle]

Next ==
  \/ \E p \in Planners :
       \/ Create(p) \/ Suggest(p) \/ Replan(p) \/ Assign(p) \/ Commit(p)
       \/ CreateMachine(p) \/ UpdateMachine(p) \/ UpdateStatus(p)
       \/ CreateRecipe(p) \/ UpdateRecipe(p)
  \/ \E w \in Wips :
       \/ CheckIn(w) \/ Unload(w) \/ ConfirmResult(w)
       \/ RequestAbort(w) \/ ApproveAbort(w) \/ RejectAbort(w)
       \/ \E action \in WipActions : WipAction(w, action)

Spec == Init /\ [][Next]_vars

-----------------------------------------------------------------------------
(* Types.                                                                  *)
TypeOK ==
  /\ wips \in [Wips -> {Chain[n] : n \in DOMAIN Chain} \cup Beyond]
  /\ execs \in [Wips -> [status : {"waiting_load", "running", "ended"},
                          on : BOOLEAN, abort : BOOLEAN]]
  /\ \A d \in DispatchIds :
       /\ DOMAIN dispatches[d] = DOMAIN NoDispatch
       /\ dispatches[d].status \in DispatchStatuses
       /\ dispatches[d].wip \in Wips \cup {None}
       /\ {dispatches[d].suggested, dispatches[d].machine} \subseteq MachineIds \cup {None}
  /\ machines \in [MachineIds -> [lab : Labs \cup {NoLab}, items : SUBSET ItemKinds,
                                  status : Statuses \cup {None}]]
  /\ recipes \in [RecipeIds -> [item : ItemKinds \cup {None}, machines : SUBSET MachineIds]]

Reached(w, status) == InChain(wips[w]) => Rank(wips[w]) >= Rank(status)

(* With one planner per laboratory a WIP is never behind its dispatches,   *)
(* whatever the planners of other laboratories do at the same time:        *)
(* "Forward-only: never regresses".  A handler works on copies of rows,    *)
(* so this rests on every query being confined to the laboratory.          *)
WipKeepsPace ==
  \A d \in DispatchIds :
    LET row == dispatches[d]
    IN /\ row.status = "pending" => Reached(row.wip, "waiting_schedule")
       /\ row.status = "scheduling" => Reached(row.wip, "scheduled")
       /\ row.status = "waiting_load" => Reached(row.wip, "dispatched")

(* The WIP has been assigned a machine of its own laboratory.              *)
Assigned(w) ==
  \E d \in DispatchIds : /\ dispatches[d].wip = w /\ dispatches[d].status = "waiting_load"
                         /\ machines[dispatches[d].machine].lab = WipLab[w]

(* The gate of check_in: what has been checked in, or may be, has been     *)
(* assigned a machine of its own laboratory, whatever reviews of aborts    *)
(* and WIP actions did to it before and although its planner plans on      *)
(* copies.  It is not a gate of `running`: a rejected abort request makes  *)
(* a WIP run that was never assigned, and so does the action `start`.      *)
CheckInAssigned == \A w \in Wips : wips[w] = "dispatched" \/ execs[w].on => Assigned(w)

(* When an assignment is committed its machine and recipe still fit,       *)
(* although assign checked them earlier, on rows it does not lock.         *)
AssignedFits ==
  [][\A d \in DispatchIds :
       dispatches[d].status # "waiting_load" /\ dispatches'[d].status = "waiting_load" =>
         LET row == dispatches'[d]
         IN /\ row.item \in machines[row.machine].items
            /\ machines[row.machine].lab = row.lab
            /\ recipes[row.recipe].item = row.item
            /\ recipes[row.recipe].machines = {} \/ row.machine \in recipes[row.recipe].machines
    ]_vars

=============================================================================
