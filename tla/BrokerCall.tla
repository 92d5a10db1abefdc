----------------------------- MODULE BrokerCall -----------------------------
(***************************************************************************)
(* One order call of the broker adapter (executeOrder and withSessionRetry *)
(* in Api2TradeBrokerAdapter.ts, requestWithExecutionFallback and request  *)
(* in api2TradeClient.ts): the session is made ready, the order is sent,   *)
(* and on some errors it is sent again - to the fallback endpoint, after a *)
(* reconnect, after a requote.  TradeGateway counts one such call as one   *)
(* order on its way to the broker; this module says when that is right.    *)
(*                                                                         *)
(* What the code does next is read off the words of an error.  A set of    *)
(* hints stands for the words that are in it.                              *)
(***************************************************************************)
EXTENDS Naturals

CONSTANTS
  MaxRepeats,   \* repeats after a requote, the length of REPEAT_PAUSES_MS
  HasFallback,  \* the client has an API key: a second endpoint can be asked
  Unclear       \* an error answer may hide an order that ran: a proxy's 502 / 504

ASSUME CallAssumption == MaxRepeats \in Nat /\ HasFallback \in BOOLEAN /\ Unclear \in BOOLEAN

VARIABLES
  step,      \* where the call is
  attempt,   \* the loop of executeOrder
  second,    \* withSessionRetry is at its second operation
  endpoint,  \* the endpoint in use
  sent,      \* the order has left once
  current,   \* the request the call waits for: "flying", or what the broker did with it
  late,      \* requests given up while they were flying
  executed,  \* orders the broker executed
  outcome    \* how the call ended

retry    == <<attempt, second, endpoint>>
request  == <<sent, current, late, executed>>
callVars == <<step, retry, request, outcome>>

\* The words that are looked for: the endpoint is unknown, the session is gone,
\* the trade server says to ask again.  The last one comes with a return code.
Hints == {"missing", "session", "again"}

CallInit ==
  /\ step = "start"
  /\ attempt = 0
  /\ second = FALSE
  /\ endpoint = "main"
  /\ sent = FALSE
  /\ current = "none"
  /\ late = 0
  /\ executed = 0
  /\ outcome = "none"

\* The call ends, and what it counted goes with it.
End(result) ==
  /\ step' = "end"
  /\ outcome' = result
  /\ attempt' = 0
  /\ second' = FALSE
  /\ endpoint' = "main"

Goto(next) == step' = next /\ UNCHANGED outcome

\* openTrade and its like: a switch that is off or a bad request ends the call
\* before the broker is asked.
Start ==
  /\ step = "start"
  /\ End("refused") \/ (Goto("session") /\ UNCHANGED retry)
  /\ UNCHANGED request

\* asExecutionError and interpretExecution, then the loop of executeOrder: an
\* error with a return code that allows it is tried again, any other ends the
\* call.  BROKER_ERROR and BROKER_PROVIDER_TIMEOUT mean "uncertain".
LastError(hints) ==
  \/ /\ "again" \in hints
     /\ attempt < MaxRepeats
     /\ attempt' = attempt + 1
     /\ second' = FALSE
     /\ endpoint' = "main"
     /\ Goto("session")
  \/ /\ "again" \notin hints \/ attempt = MaxRepeats
     /\ End("refused")
  \/ End("uncertain")

\* resolveReadyProviderAccountId, or ensureApi2TradeSession after an error.
SessionReady ==
  /\ step \in {"session", "recover"}
  /\ Goto("post")
  /\ second' = (step = "recover")
  /\ endpoint' = "main"
  /\ UNCHANGED <<attempt, request>>

SessionFails ==
  /\ step \in {"session", "recover"}
  /\ \E hints \in SUBSET {"again"} : LastError(hints)
  /\ UNCHANGED request

\* The order leaves for the bridge.
Send ==
  /\ step = "post"
  /\ Goto("asking")
  /\ sent' = TRUE
  /\ current' = "flying"
  /\ UNCHANGED <<retry, late, executed>>

\* The broker executes or declines the order.
BrokerActs ==
  /\ current = "flying"
  /\ \/ current' = "done" /\ executed' = executed + 1
     \/ current' = "declined" /\ UNCHANGED executed
  /\ UNCHANGED <<step, retry, sent, late, outcome>>

\* A request nobody waits for arrives at the broker after all, or never.
LateActs ==
  /\ late > 0
  /\ late' = late - 1
  /\ executed' = executed + 1 \/ UNCHANGED executed
  /\ UNCHANGED <<step, retry, sent, current, outcome>>

\* The call no longer waits for the request it sent.
GiveUp ==
  /\ late' = IF current = "flying" THEN late + 1 ELSE late
  /\ current' = "none"
  /\ UNCHANGED <<sent, executed>>

\* A ticket, or a return code that means done.
AnswerDone ==
  /\ step = "asking"
  /\ current = "done"
  /\ End("ok")
  /\ GiveUp

FallsBack(hints) == "missing" \in hints /\ HasFallback /\ endpoint = "main"

Recovers(hints) == "session" \in hints /\ ~second

\* An error answer, from the inside out: the fallback endpoint, one reconnect,
\* the loop of executeOrder.
Failed(hints) ==
  \/ /\ FallsBack(hints)
     /\ Goto("post")
     /\ endpoint' = "fallback"
     /\ UNCHANGED <<attempt, second>>
  \/ /\ ~FallsBack(hints)
     /\ Recovers(hints)
     /\ Goto("recover")
     /\ UNCHANGED retry
  \/ /\ ~FallsBack(hints)
     /\ ~Recovers(hints)
     /\ LastError(hints)

\* What may have become of an order that is answered with an error.
BehindError == IF Unclear THEN {"flying", "done", "declined"} ELSE {"declined"}

AnswerError ==
  /\ step = "asking"
  /\ current \in BehindError
  /\ \E hints \in SUBSET Hints : Failed(hints)
  /\ GiveUp

\* Mutant of NoAnswer: a time-out is reported like a refusal.
NoAnswerRefused ==
  /\ step = "asking"
  /\ End("refused")
  /\ GiveUp

\* A time-out, a broken connection, a body that cannot be read: the order may
\* exist, so it is not sent again.
NoAnswer ==
  /\ step = "asking"
  /\ End("uncertain")
  /\ GiveUp

Advance ==
  Start \/ SessionReady \/ SessionFails \/ Send \/ AnswerDone \/ AnswerError \/ NoAnswer

CallNext == Advance \/ BrokerActs \/ LateActs

CallSpec == CallInit /\ [][CallNext]_callVars

-----------------------------------------------------------------------------
\* Every variable has its type.
CallTypeOK ==
  /\ step \in {"start", "session", "post", "asking", "recover", "end"}
  /\ attempt \in 0..MaxRepeats
  /\ second \in BOOLEAN
  /\ endpoint \in {"main", "fallback"}
  /\ sent \in BOOLEAN
  /\ current \in {"none", "flying", "done", "declined"}
  /\ late \in Nat
  /\ executed \in Nat
  /\ outcome \in {"none", "ok", "refused", "uncertain"}

OnTheWay == late + (IF current = "flying" THEN 1 ELSE 0)

\* However often an order is sent - fallback endpoint, reconnect, requote - one
\* order at most exists at the broker or is still on its way to it ("An answer
\* that never came is never repeated: the order may exist").
OneOrder == executed + OnTheWay <= 1

\* "The broker said no" (Api2TradeBrokerAdapter.ts:194): a call that ends in a
\* refusal leaves no order behind, executed or on its way.
RefusedMeansNone == outcome = "refused" => executed = 0 /\ late = 0

-----------------------------------------------------------------------------
(* Refinement of TradeOrder: one request, answered to one caller.          *)

Fate ==
  IF executed > 0 THEN "placed"
  ELSE IF outcome = "refused" THEN (IF sent THEN "refused" ELSE "dead")
  ELSE IF sent THEN "sent" ELSE "open"

Promise == INSTANCE TradeOrder WITH
  Requests <- {"order"}, Calls <- {"call"}, ReqOf <- [c \in {"call"} |-> "order"],
  order <- [r \in {"order"} |-> Fate], told <- [c \in {"call"} |-> outcome]

\* The call is what TradeGateway takes it for: one order, and a true answer.
ImplementsTradeOrder == Promise!OSpec
=============================================================================
