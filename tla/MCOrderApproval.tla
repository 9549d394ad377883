--------------------------- MODULE MCOrderApproval ---------------------------
(* Small instances of OrderApproval for TLC.                               *)
EXTENDS OrderApproval, TLC

CONSTANTS o1, o2, a, b, s1, alice, dept

TwoOrders   == {o1, o2}
TwoLabs     == {a, b}
OneSession  == {s1}

(* One item, or one in each laboratory.                                    *)
OneOrTwoItems == {<<a>>, <<a, b>>}

(* The supervisors of either laboratory, and one of both.                  *)
AnySupervisor == {{a}, {b}, {a, b}}

(* Both orders are of one department, one of them is of Alice.             *)
UserAndDepartment == {alice, dept}
TheirScopes       == o1 :> {alice, dept} @@ o2 :> {dept}
TheirLimits       == alice :> 1 @@ dept :> 2

=============================================================================
