---------------------------- MODULE MCCopyAccess ----------------------------
(***************************************************************************)
(* An instance of CopyAccess for TLC: one renewal and one call that fails. *)
(* Two rows are enough for the two calls that confirm a checkout.          *)
(***************************************************************************)
EXTENDS CopyAccess
=============================================================================
