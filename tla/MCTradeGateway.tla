--------------------------- MODULE MCTradeGateway ---------------------------
(***************************************************************************)
(* Instances of TradeGateway for TLC.  Requests are independent of each    *)
(* other, so one request with two calls - the panel sends it, and sends it *)
(* again - meets every interleaving of a request.                          *)
(***************************************************************************)
EXTENDS TradeGateway, TLC

CONSTANTS r1, c1, c2, i1, i2

OneRequest == [c \in Calls |-> r1]

\* The two calls are served by two instances (they run at the same time), or
\* by the same one (the guard of the instance sees both).
TwoInstances == [c \in Calls |-> IF c = c1 THEN i1 ELSE i2]
OneInstance  == [c \in Calls |-> i1]

\* Workers are interchangeable in every safety property.
Symmetry == Permutations(Workers)
=============================================================================
