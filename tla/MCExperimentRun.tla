--------------------------- MODULE MCExperimentRun ---------------------------
(* Small instances of ExperimentRun for TLC.                               *)
EXTENDS ExperimentRun, TLC

CONSTANTS s1, s2, w1, w2

NoSession   == {}
Session1    == {s1}
Session2    == {s2}
TwoSessions == {s1, s2}
OneWip      == {w1}
TwoWips     == {w1, w2}

(* Sessions with the same role are interchangeable, and so are WIPs.       *)
SymmetricBoth == Permutations(TwoSessions) \cup Permutations(TwoWips)

AllRequests == Operations \ {"tick"}

(* The requests that write the columns a result or an abort leaves traces  *)
(* in, and what brings a WIP there.                                        *)
ResultRequests == {"dispatch", "check_in", "upload_result", "confirm_result",
                   "request_abort", "approve_abort", "reject_abort", "machine_completion"}

(* With what frees the machine.  Nobody sets the progress by hand: that    *)
(* could hold the automatic progress back for ever.                        *)
WorkRequests == ResultRequests \cup {"check_out"}

(* From the dispatch of a WIP to the confirmation of its result.           *)
ConfirmRequests == {"dispatch", "check_in", "upload_result", "verify_data", "confirm_result"}

NoWipActions    == {}
OneWipAction    == {"mark_dispatched"}

=============================================================================
