-------------------------- MODULE MCBackgroundJobs --------------------------
(***************************************************************************)
(* An instance of BackgroundJobs for TLC: a live job and one that is not,  *)
(* and two runners with names of their own.                                *)
(***************************************************************************)
EXTENDS BackgroundJobs, TLC

CONSTANTS live, sync, r1, r2

LiveOnce == [j \in Jobs |-> IF j = live THEN 1 ELSE 0]
OwnNames == r1 :> "r1" @@ r2 :> "r2"
=============================================================================
