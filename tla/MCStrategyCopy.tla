--------------------------- MODULE MCStrategyCopy ---------------------------
(***************************************************************************)
(* Instances of StrategyCopy for TLC.  The worker's own runs overlap a job *)
(* that repeats the OPEN and two runs that repeat the CLOSE.  A second run *)
(* that repeats the OPEN is the operator's.                                *)
(***************************************************************************)
EXTENDS StrategyCopy, TLC

CONSTANTS job, operator, again

OnceEach == job :> "open" @@ again :> "close"
OpenTwice == job :> "open" @@ operator :> "open"
=============================================================================
