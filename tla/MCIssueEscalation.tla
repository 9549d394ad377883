-------------------------- MODULE MCIssueEscalation --------------------------
(* Small instances of IssueEscalation for TLC.                             *)
EXTENDS IssueEscalation, TLC

CONSTANTS i1, i2, k1

TwoIssues  == {i1, i2}
OneWorker  == {k1}

(* The lab of i1 has people at every level, that of i2 no supervisor.      *)
OneLabStaffed == i1 :> Levels @@ i2 :> {0, 2}

=============================================================================
