--------------------------- MODULE MCMasterStream ---------------------------
(***************************************************************************)
(* An instance of MasterStream for TLC: two positions, so that a list may   *)
(* lose one or both, and a socket that once delivers an empty list.        *)
(***************************************************************************)
EXTENDS MasterStream, TLC

CONSTANTS p1, p2
=============================================================================
