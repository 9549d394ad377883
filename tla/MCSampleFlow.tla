---------------------------- MODULE MCSampleFlow -----------------------------
(* Small instances of SampleFlow for TLC.                                  *)
EXTENDS SampleFlow

OneSample == {1}
TwoLabs   == {1, 2}
ThreeLabs == {1, 2, 3}

Engineers(labs) == {[role |-> "engineer", lab |-> l] : l \in labs}
TwoEngineers   == Engineers(TwoLabs)
ThreeEngineers == Engineers(ThreeLabs)

OneSession  == {1}
TwoSessions == {1, 2}

Item(lab, exp, group, target) ==
  [sample |-> 1, lab |-> lab, exp |-> exp, group |-> group, target |-> target]

Chain    == <<Item(1, 1, 1, 1), Item(2, 2, 1, 2)>>

(* Two groups whose work ends in lab 3, whatever is done first.            *)
Ending   == <<Item(1, 1, 1, 1), Item(2, 2, 1, 2), Item(3, 3, 1, 3), Item(3, 4, 2, 1)>>

(* Of every experiment its laboratory has one machine, or none.            *)
MachineFor(i) == [lab |-> Items[i].lab, items |-> {Items[i].exp}, load |-> 1]
NoMachines == {{}}
AnyMachines == {{MachineFor(i) : i \in equipped} : equipped \in SUBSET ItemIds}

PageOperations == {"deliver", "next", "receive", "outbound", "pickup", "split",
                   "completed", "transfer", "send", "cancel"}
(* The runs may be aborted too.                                            *)
OverlapOperations == PageOperations \cup {"terminated"}
(* What no page offers as well; the runs' ends are left to WipActions.     *)
ApiOperations == {"deliver", "receive", "inbound", "outbound", "pickup", "split", "generate",
                  "send_to_schedule", "start", "complete", "complete_others", "transfer",
                  "transfer_wip", "send", "cancel"}

NoActions == {}
RunActions == {"send_to_schedule", "start", "complete"}
=============================================================================
