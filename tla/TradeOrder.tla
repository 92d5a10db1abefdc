----------------------------- MODULE TradeOrder -----------------------------
(***************************************************************************)
(* What the trade gateway promises, without its tables, lanes and workers: *)
(* a request is sent to the broker at most once, and whatever a call is    *)
(* told about it is true and stays true.                                   *)
(***************************************************************************)
CONSTANTS Requests, Calls, ReqOf

VARIABLES
  order,  \* the fate of each request at the broker
  told    \* what each call answered

orderVars == <<order, told>>

OInit ==
  /\ order = [r \in Requests |-> "open"]
  /\ told = [c \in Calls |-> "none"]

\* open: may still be sent; dead: never sent and never will be; sent: on its way.
Becomes(now, later) ==
  \/ later = now
  \/ now = "open" /\ later \in {"sent", "dead"}
  \/ now = "sent" /\ later \in {"placed", "refused"}

\* Which answers the fate of the order allows.
True(answer, fate) ==
  /\ answer = "ok" => fate = "placed"
  /\ answer = "not_sent" => fate = "dead"
  /\ answer = "refused" => fate \in {"refused", "dead"}

\* One step of the system: orders move on, calls are answered, once.
ONext ==
  /\ \A r \in Requests : Becomes(order[r], order'[r])
  /\ \A c \in Calls :
       \/ told'[c] = told[c]
       \/ told[c] = "none" /\ True(told'[c], order'[ReqOf[c]])

OSpec == OInit /\ [][ONext]_orderVars
=============================================================================
