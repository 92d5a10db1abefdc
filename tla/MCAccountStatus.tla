--------------------------- MODULE MCAccountStatus ---------------------------
(***************************************************************************)
(* An instance of AccountStatus for TLC: two syncs and the evaluations of   *)
(* both sources overlap, and an operator steps in.                         *)
(***************************************************************************)
EXTENDS AccountStatus, TLC

CONSTANTS s1, s2
=============================================================================
