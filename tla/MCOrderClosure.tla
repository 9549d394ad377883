--------------------------- MODULE MCOrderClosure ----------------------------
(* Small instances of OrderClosure for TLC.                                *)
EXTENDS OrderClosure

CONSTANTS labA, labB, c1, c2

TwoLabs == {labA, labB}
OneLab  == {labA}

Chain    == <<labA, labB>>   \* two labs, one after the other
OneStop  == <<labA>>

OneCloser  == {c1}
TwoClosers == {c1, c2}
NoActions  == {}
BothActions == {"ready_for_pickup", "close"}

=============================================================================
