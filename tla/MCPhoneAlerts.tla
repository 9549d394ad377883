---------------------------- MODULE MCPhoneAlerts ----------------------------
(* A small instance of PhoneAlerts for TLC.                                *)
EXTENDS PhoneAlerts, TLC

CONSTANTS i1, k1, e1, s1

OneIssue  == {i1}
OneWorker == {k1}
Two       == {e1, s1}

(* An engineer and a supervisor.                                           *)
Teams == i1 :> [n \in 0..2 |-> CASE n = 0 -> {e1} [] n = 1 -> {s1} [] OTHER -> {}]

=============================================================================
