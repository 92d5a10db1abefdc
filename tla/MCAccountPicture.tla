-------------------------- MODULE MCAccountPicture --------------------------
(***************************************************************************)
(* An instance of AccountPicture for TLC: a stop loss and a take profit    *)
(* are set and removed again, in any order.                                *)
(***************************************************************************)
EXTENDS AccountPicture, TLC

CONSTANTS setStop, setTake, dropStop, dropTake

LevelOf == setStop :> "stopLoss" @@ setTake :> "takeProfit" @@ dropStop :> "stopLoss" @@ dropTake :> "takeProfit"
ValueOf == setStop :> 1 @@ setTake :> 1 @@ dropStop :> 0 @@ dropTake :> 0
=============================================================================
