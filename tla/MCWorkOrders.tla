---------------------------- MODULE MCWorkOrders ----------------------------
(* Two work orders, one bulk request and the sweep.                        *)
EXTENDS WorkOrders

CONSTANTS w1, w2, b1

InOrder == {<<w1, w2>>}
Mixed == [w \in {w1, w2} |->
            IF w = w1 THEN {"ASSIGN", "START_WORK", "HOLD", "CLOSE", "REOPEN"}
            ELSE {"SUBMIT", "ACCEPT", "START_WORK"}]
=============================================================================
