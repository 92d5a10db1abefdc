----------------------------- MODULE MCTradeSync -----------------------------
(***************************************************************************)
(* An instance of TradeSync for TLC: one trade, two refreshes that share   *)
(* the lock, and a full sync that takes none.                              *)
(***************************************************************************)
EXTENDS TradeSync, TLC

CONSTANTS t1, refresh1, refresh2, full
=============================================================================
