--------------------------- MODULE MCPartnerPayout ---------------------------
(***************************************************************************)
(* An instance of PartnerPayout for TLC: commissions of two units and one, *)
(* and two calls that ask for a withdrawal.                                *)
(***************************************************************************)
EXTENDS PartnerPayout

CONSTANTS r1, r2

TwoAndOne == [s \in Sales |-> IF s = 1 THEN 2 ELSE 1]
=============================================================================
