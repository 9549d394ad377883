---------------------------- MODULE SampleRoute ------------------------------
(***************************************************************************)
(* The route of a sample: the experiments of its order items, as           *)
(* confirm_delivery writes them into samples.experiment_item               *)
(* (backend/app/repos/order_repo.py), and what wip_service reads out of    *)
(* it: which WIPs may be created next, which one may be completed, where   *)
(* the sample goes afterwards, and which item a caller of                  *)
(* /api/wips/dependency/next is given (backend/app/services).              *)
(*                                                                         *)
(* The text "G1#2|Lab:Exp、..." is a sequence of steps here.  Names are    *)
(* numbers: laboratories and experiments sort as their names do, order     *)
(* items as their ids do.  A WIP is a number too, its place in the order   *)
(* of creation.                                                            *)
(***************************************************************************)
EXTENDS Integers, Sequences, FiniteSets, SequencesExt

CONSTANTS
  Items,   \* the approved items of an order, by id
  Room,    \* how many steps fit into the 100 characters of the column
  Ragged   \* TRUE: what is left of the first one that does not has a name

CutExp == 0   \* an experiment whose name lost its end

ASSUME ItemsAssumption ==
  Items \in Seq([sample : Nat, lab : Nat \ {0}, exp : Nat \ {0}, group : Nat, target : Nat])

ASSUME RoomAssumption == Room \in Nat /\ Ragged \in BOOLEAN

ItemIds == DOMAIN Items

ItemsOf(s) == {i \in ItemIds : Items[i].sample = s}

(* The smallest of a set of numbers, 0 for the empty set.                  *)
First(S) == IF S = {} THEN 0 ELSE CHOOSE n \in S : \A m \in S : n <= m

-----------------------------------------------------------------------------
(* The members of a set in order.                                          *)
Ordered(S, Less(_, _)) ==
  [n \in 1..Cardinality(S) |-> CHOOSE j \in S : Cardinality({i \in S : Less(i, j)}) = n - 1]

Ascending(S) == Ordered(S, <)

(* The items of an order by their target.                                  *)
ByTarget(S) ==
  Ordered(S, LAMBDA i, j : \/ Items[i].target < Items[j].target
                           \/ Items[i].target = Items[j].target /\ i < j)

(* The parts of the summary without repetitions: "if part not in           *)
(* experiment_parts".                                                      *)
Distinct(seq) ==
  LET firsts == Ascending({k \in DOMAIN seq : \A j \in 1..(k - 1) : seq[j] # seq[k]})
  IN [n \in DOMAIN firsts |-> seq[firsts[n]]]

(* The order in which the items of a new sample are written: the one       *)
(* claimed first, if any, otherwise by target.                             *)
DeliveryOrder(s, claimed) ==
  LET chosen == First(ItemsOf(s) \cap claimed)
  IN IF chosen # 0 THEN <<chosen>> \o Ascending(ItemsOf(s) \ {chosen}) ELSE ByTarget(ItemsOf(s))

(* Mutant of Step: every item is a group of its own.                       *)
StepAlone(i) == [lab |-> Items[i].lab, exp |-> Items[i].exp, group |-> i,
                 target |-> Items[i].target]

Step(i) == [lab |-> Items[i].lab, exp |-> Items[i].exp, group |-> Items[i].group,
            target |-> Items[i].target]

(* Mutant of Truncated: one step too few, even when there is room.         *)
CutEarly(parts) == SubSeq(parts, 1, IF Len(parts) < Room THEN Len(parts) ELSE Room - 1)

(* _truncate_text to the column's length, as it is read back.              *)
Truncated(parts) ==
  IF Len(parts) <= Room THEN parts
  ELSE SubSeq(parts, 1, Room)
         \o (IF Ragged THEN <<[parts[Room + 1] EXCEPT !.exp = CutExp]>> ELSE <<>>)

(* The experiment_item of a new sample.                                    *)
RouteOf(s, claimed) ==
  LET ids == DeliveryOrder(s, claimed)
  IN Truncated(Distinct([k \in DOMAIN ids |-> Step(ids[k])]))

FirstLab(s, claimed) == Items[DeliveryOrder(s, claimed)[1]].lab

-----------------------------------------------------------------------------
(* Rows of WIPs: `table` is all of them, `mine` those of one sample.       *)
SameExperiment(step, wip) == step.lab = wip.lab /\ step.exp = wip.exp

(* The steps with their WIPs, 0 for none: each takes the oldest that is    *)
(* left, so the n-th step of an experiment has its n-th WIP.               *)
Slots(route, table, mine) ==
  [k \in DOMAIN route |->
     LET them    == {w \in mine : SameExperiment(route[k], table[w])}
         earlier == {j \in 1..(k - 1) : SameExperiment(route[j], route[k])}
     IN First({w \in them : Cardinality({v \in them : v < w}) = Cardinality(earlier)})]

Completed(slots, table, k) == slots[k] # 0 /\ table[slots[k]].status = "completed"

(* Of the steps at `places`: the first one that is not completed, and      *)
(* those of its laboratory that follow it directly.                        *)
Segment(route, slots, table, places) ==
  LET open == First({k \in places : ~Completed(slots, table, k)})
  IN IF open = 0 THEN {}
     ELSE {k \in places : k >= open /\ \A j \in open..k : route[j].lab = route[open].lab}

(* get_completable_wip_slots_for_current_segment: WIPs.                    *)
Completable(route, table, mine) ==
  LET slots == Slots(route, table, mine)
      segment == Segment(route, slots, table, DOMAIN route)
  IN IF segment = {} \/ slots[First(segment)] = 0 THEN {}
     ELSE {slots[k] : k \in {j \in segment : slots[j] # 0 /\ ~Completed(slots, table, j)}}

(* get_creatable_wip_slots_for_current_segment: steps.                     *)
Creatable(route, slots, table, places) ==
  {k \in Segment(route, slots, table, places) : slots[k] = 0}

(* experiment_target_order.                                                *)
Before(a, b) ==
  \/ a.target < b.target
  \/ a.target = b.target /\ a.lab < b.lab
  \/ a.target = b.target /\ a.lab = b.lab /\ a.exp < b.exp

(* build_grouped_wip_slots: the groups in the order in which the route     *)
(* names them, each sorted; they share the WIPs that are left.             *)
Grouping(route) ==
  LET Group(k) == First({j \in DOMAIN route : route[j].group = route[k].group})
  IN Ordered(DOMAIN route,
       LAMBDA j, k : \/ Group(j) < Group(k)
                     \/ /\ Group(j) = Group(k)
                        /\ \/ Before(route[j], route[k])
                           \/ ~Before(route[k], route[j]) /\ j < k)

GroupedRoute(route) == LET places == Grouping(route) IN [n \in DOMAIN places |-> route[places[n]]]

(* get_creatable_wip_slots_by_group: places in the grouped route.          *)
CreatableByGroup(route, table, mine) ==
  LET whole == GroupedRoute(route)
      slots == Slots(whole, table, mine)
  IN UNION {Creatable(whole, slots, table, {j \in DOMAIN whole : whole[j].group = whole[k].group}) :
              k \in DOMAIN whole}

(* validate_wip_create_items_in_order: every experiment asked for takes a  *)
(* creatable step, and those taken in a group are its first ones.  A       *)
(* request names an experiment once.                                       *)
CreateInOrder(route, table, mine, wanted) ==
  LET whole == GroupedRoute(route)
      open  == CreatableByGroup(route, table, mine)
      Match(x) == First({k \in open : SameExperiment(whole[k], x)})
      taken == {Match(x) : x \in wanted}
  IN \/ route = <<>>
     \/ /\ 0 \notin taken
        /\ \A k \in taken, j \in open :
             whole[j].group = whole[k].group /\ j < k => j \in taken

-----------------------------------------------------------------------------
(* find_current_experiment_index.                                          *)
CurrentStep(route, wip) == First({k \in DOMAIN route : SameExperiment(route[k], wip)})

(* find_wip_experiment_index_from_slots, then the above: the step a WIP    *)
(* stands for, 0 if none does.                                             *)
StepOf(route, table, mine, w) ==
  LET slots == Slots(route, table, mine)
  IN IF w \in ToSet(slots) THEN First({k \in DOMAIN slots : slots[k] = w})
     ELSE CurrentStep(route, table[w])

(* validate_wip_can_complete_in_order.                                     *)
CompleteInOrder(route, table, mine, w) ==
  \/ w \notin ToSet(Slots(route, table, mine))
  \/ table[w].status = "completed"
  \/ w \in Completable(route, table, mine)

(* Mutant of StatusAfter: the status of a transfer, not of a sample.       *)
StatusOfTransfer(route, k, lab) ==
  IF k # 0 /\ k + 1 \in DOMAIN route /\ route[k + 1].lab # lab THEN "transferring" ELSE "split"

(* complete_wip_sample_flow: the sample's status after step k in lab.      *)
StatusAfter(route, k, lab) ==
  IF k # 0 /\ k + 1 \in DOMAIN route /\ route[k + 1].lab # lab THEN "pending_transfer"
  ELSE "split"

-----------------------------------------------------------------------------
(* is_dependency_item_completed.                                           *)
ItemDone(i, table, mine) ==
  \E w \in mine : SameExperiment(Items[i], table[w]) /\ table[w].status = "completed"

(* select_next_dependency_candidates: the first open item of each group.   *)
NextCandidates(s, table, mine) ==
  LET open == {i \in ItemsOf(s) : ~ItemDone(i, table, mine)}
      Sooner(i, j) == \/ Items[i].target < Items[j].target
                      \/ Items[i].target = Items[j].target /\ i <= j
  IN {i \in open : \A j \in open : Items[j].group = Items[i].group => Sooner(i, j)}

(* A row of `machines` is [lab, items, load] here: the experiments it      *)
(* supports, as parse_supported_items reads them, and its utilization.     *)
Supports(machine, i) == Items[i].exp \in machine.items

(* list_machines_for_dependency_candidates.                                *)
CandidateMachines(candidates, machines) ==
  {m \in machines : \E i \in candidates : m.lab = Items[i].lab}

MissingUtilization == 1000000

(* machine_utilization_score: the lowest of the item's laboratory.         *)
Utilization(i, machines) ==
  LET able == {m \in machines : m.lab = Items[i].lab /\ Supports(m, i)}
  IN IF able = {} THEN MissingUtilization ELSE First({m.load : m \in able})

Preferred(i, j, machines) ==
  LET a == Utilization(i, machines)
      b == Utilization(j, machines)
  IN \/ a < b
     \/ a = b /\ Items[i].target < Items[j].target
     \/ a = b /\ Items[i].target = Items[j].target /\ i <= j

(* claim_order_item_dependency_check: nothing if it is claimed by now.     *)
Claimable(i, claimed) == i \notin claimed

(* claim_next_dependency_experiment: the preferred candidate, unless it    *)
(* was unclaimed when it was read and is claimed when it is updated.       *)
Chosen(candidates, found, claimed, machines) ==
  LET usable == {i \in candidates : i \in found \/ Claimable(i, claimed)}
      read == CandidateMachines(candidates, machines)
  IN IF usable = {} THEN 0 ELSE CHOOSE i \in usable : \A j \in usable : Preferred(i, j, read)

=============================================================================
