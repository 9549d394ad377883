---------------------------- MODULE MCDispatching ----------------------------
(* A small instance of Dispatching for TLC.                                *)
EXTENDS Dispatching, TLC

CONSTANTS l1, l2, w1, d1, d2, m1, m2, r1, x, y

TwoLabs == {l1, l2}

(* One planner per laboratory.                                             *)
TwoPlanners == {[role |-> "engineer", lab |-> l] : l \in TwoLabs}

(* A WIP of the one laboratory, which the other's planner must not touch.  *)
OneWip        == {w1}
LabOfWip      == w1 :> l1
TwoDispatches == {d1, d2}
TwoMachines   == {m1, m2}
OneRecipe     == {r1}
TwoItems      == {x, y}
OneStatus     == {"idle"}

(* The WIP actions that take a WIP off the planners' chain.                *)
Leaving == {"start", "resume", "pause", "complete", "terminate"}

(* Dispatches, machines and experiments are alike.                         *)
Alike == {f @@ g @@ h : f \in Permutations(TwoDispatches), g \in Permutations(TwoMachines),
                        h \in Permutations(TwoItems)}

=============================================================================
