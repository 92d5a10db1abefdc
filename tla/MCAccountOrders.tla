--------------------------- MODULE MCAccountOrders ---------------------------
(***************************************************************************)
(* An instance of AccountOrders for TLC: three tasks of one account, one   *)
(* of another, and a single slot - so tasks wait for their predecessor,    *)
(* for the slot, and for both.  A call may be repeated once after a        *)
(* requote (twice in the code).                                            *)
(***************************************************************************)
EXTENDS AccountOrders, TLC

CONSTANTS a1, a2, a3, b1, ka, kb

Keyed == [t \in Tasks |-> IF t = b1 THEN kb ELSE ka]
OneRepeat == 1
=============================================================================
