---------------------------- MODULE PartnerPayout ----------------------------
(***************************************************************************)
(* What a partner earns on the sales of the traders he brought, and how it *)
(* leaves the platform: a paid order creates a commission, an admin        *)
(* approves it, the partner asks for a withdrawal that reserves shares of  *)
(* his commissions, an admin decides, and a refund takes a commission back *)
(* (src/lib/services/billingService.ts, partnerWithdrawalService.ts, the   *)
(* routes above them and the indexes of migration 034).                    *)
(*                                                                         *)
(* One partner and one currency.  Amounts are whole units: the code rounds *)
(* to cents and compares with a tolerance below one.  Every database call  *)
(* is an action of its own, except that the reads of one call which come   *)
(* side by side are one.  What the order gives access to is left out.      *)
(***************************************************************************)
EXTENDS FiniteSets, Functions, Naturals

CONSTANTS
  Sales,       \* payment orders, numbered in the order they were created
  Value,       \* the commission on each sale
  Visited,     \* bound: sales whose trader returns to the page behind the checkout
  Refunded,    \* bound: sales that may be refunded
  Requests     \* calls that ask for a withdrawal

ASSUME PayoutAssumption ==
  /\ Sales \subseteq Nat /\ IsFiniteSet(Sales) /\ IsFiniteSet(Requests)
  /\ Value \in [Sales -> Nat \ {0}]
  /\ Visited \subseteq Sales /\ Refunded \subseteq Sales

Calls == {"webhook", "page"}

VARIABLES
  order,        \* payment_orders.status
  call,         \* the two calls that may confirm a checkout
  refund,       \* how far charge.refunded is, and what it has read
  commission,   \* partner_commissions.status
  approving,    \* sales whose commission an admin's call has read as PENDING
  request,      \* partner_withdrawal_requests.status
  amount,       \* the amount of each request
  share,        \* partner_withdrawal_allocations
  asking,       \* how far the call that creates each request is
  settling,     \* commissions a payout has still to look at
  torn          \* history: a call of several steps was cut off or overtaken

saleVars == <<order, call, refund>>
payVars == <<request, amount, share, asking, settling>>
vars == <<saleVars, commission, approving, payVars, torn>>

NoShares == [s \in Sales |-> 0]
Idle == [at |-> "new"]

Init ==
  /\ order = [s \in Sales |-> "PENDING"]
  /\ call = [s \in Sales |-> [c \in Calls |-> "new"]]
  /\ refund = [s \in Sales |-> Idle]
  /\ commission = [s \in Sales |-> "NONE"]
  /\ approving = {}
  /\ request = [r \in Requests |-> "NONE"]
  /\ amount = [r \in Requests |-> 0]
  /\ share = [r \in Requests |-> NoShares]
  /\ asking = [r \in Requests |-> Idle]
  /\ settling = [r \in Requests |-> {}]
  /\ torn = FALSE

-----------------------------------------------------------------------------
(* Allocations.                                                            *)

Total(shares) == SumFunctionOnSet(shares, Sales)
Taken(s, states) ==
  SumFunctionOnSet([r \in Requests |-> share[r][s]], {r \in Requests : request[r] \in states})

\* The partial unique index of migration 034.
Active(r) == request[r] \in {"PENDING_REVIEW", "APPROVED"}
\* Mutant of OneActive: the database has no such index.
NoIndex == TRUE
OneActive == \A r \in Requests : ~Active(r)

\* What is left of each approved commission (getAllocationUsage).
Monus(a, b) == IF a > b THEN a - b ELSE 0
Left(approved) ==
  [s \in Sales |->
     IF s \in approved
       THEN Monus(Value[s], Taken(s, {"PENDING_REVIEW", "APPROVED", "PAID"}))
       ELSE 0]

\* The oldest commissions are used up first.
Shares(left, wanted) ==
  [s \in Sales |->
     LET before == SumFunctionOnSet(left, {t \in Sales : t < s})
         rest == Monus(wanted, before)
     IN  IF rest < left[s] THEN rest ELSE left[s]]

\* Calls that are between what they read and the last thing they write.
Underway == {r \in Requests : asking[r].at \in {"listing", "counted", "inserted"}}

-----------------------------------------------------------------------------
(* A sale.                                                                 *)

\* checkout.session.completed, or the page the trader returns to, which asks
\* Stripe only while the order it has read is PENDING or PAID.
Confirm(s, c) ==
  /\ call[s][c] = "new"
  /\ c = "page" => s \in Visited /\ order[s] \in {"PENDING", "PAID"}
  /\ call' = [call EXCEPT ![s][c] = "complete"]
  /\ UNCHANGED <<order, refund, commission, approving, payVars, torn>>

\* markOrderPaid: whatever is not PAID becomes PAID.
MarkPaid(s, c) ==
  /\ call[s][c] = "complete"
  /\ order' = [order EXCEPT ![s] = "PAID"]
  /\ call' = [call EXCEPT ![s][c] = "paid"]
  /\ UNCHANGED <<refund, commission, approving, payVars, torn>>

\* maybeCreatePartnerCommission: once per order, by a unique index.
Earn(s, c) ==
  /\ call[s][c] = "paid"
  /\ commission' = [commission EXCEPT ![s] = IF @ = "NONE" THEN "PENDING" ELSE @]
  /\ call' = [call EXCEPT ![s][c] = "done"]
  /\ UNCHANGED <<order, refund, approving, payVars, torn>>

\* The call fails: the webhook records that and answers 200, the page gives up.
ConfirmFails(s, c) ==
  /\ call[s][c] \in {"complete", "paid"}
  /\ call' = [call EXCEPT ![s][c] = "done"]
  /\ UNCHANGED <<order, refund, commission, approving, payVars, torn>>

\* The admin's route that approves a commission looks first ...
Look(s) ==
  /\ commission[s] = "PENDING" /\ s \notin approving
  /\ approving' = approving \cup {s}
  /\ UNCHANGED <<saleVars, commission, payVars, torn>>

\* ... and then writes, whatever is there by now.
Approve(s) ==
  /\ s \in approving
  /\ approving' = approving \ {s}
  /\ commission' = [commission EXCEPT ![s] = "APPROVED"]
  /\ torn' = (torn \/ commission[s] # "PENDING")
  /\ UNCHANGED <<saleVars, payVars>>

-----------------------------------------------------------------------------
(* A refund (handleStripeChargeRefunded).                                  *)

At(s, step, status) == refund' = [refund EXCEPT ![s] = [at |-> step, read |-> status]]

Refund(s) ==
  /\ order[s] = "PAID" /\ refund[s].at = "new" /\ s \in Refunded
  /\ order' = [order EXCEPT ![s] = "REFUNDED"]
  /\ At(s, "marked", "NONE")
  /\ UNCHANGED <<call, commission, approving, payVars, torn>>

\* Only a commission that is PENDING or APPROVED is looked at any further.
ReadCommission(s) ==
  /\ refund[s].at = "marked"
  /\ IF commission[s] \in {"PENDING", "APPROVED"}
       THEN At(s, "listed", commission[s])
       ELSE At(s, "done", "NONE")
  /\ UNCHANGED <<order, call, commission, approving, payVars, torn>>

\* Mutant of Reserved: nobody looks for allocations.
ReservedNever(s) == FALSE

\* Any allocation counts, that of a rejected request too.
Reserved(s) == \E r \in Requests : share[r][s] > 0

CheckReserved(s) ==
  /\ refund[s].at = "listed"
  /\ IF refund[s].read = "APPROVED" /\ Reserved(s)
       THEN At(s, "done", "NONE")
       ELSE At(s, "free", refund[s].read)
  /\ UNCHANGED <<order, call, commission, approving, payVars, torn>>

\* The write compares the status with the one that was read.
Reverse(s) ==
  /\ refund[s].at = "free"
  /\ commission' =
       [commission EXCEPT ![s] = IF @ = refund[s].read THEN "REVERSED" ELSE @]
  /\ torn' = (torn \/ Underway # {})
  /\ At(s, "done", "NONE")
  /\ UNCHANGED <<order, call, approving, payVars>>

\* The reversal fails, which is only logged.
ReversalFails(s) ==
  /\ refund[s].at \in {"marked", "listed", "free"}
  /\ At(s, "done", "NONE")
  /\ UNCHANGED <<order, call, commission, approving, payVars, torn>>

-----------------------------------------------------------------------------
(* A withdrawal (createPartnerWithdrawal).                                 *)

Goes(r, step) == asking' = [asking EXCEPT ![r] = step]

\* No other request may be active.
Ask(r) ==
  /\ asking[r].at = "new" /\ OneActive
  /\ Goes(r, [at |-> "asked"])
  /\ UNCHANGED <<saleVars, commission, approving, request, amount, share, settling, torn>>

List(r) ==
  /\ asking[r].at = "asked"
  /\ Goes(r, [at |-> "listing",
              approved |-> {s \in Sales : commission[s] = "APPROVED"}])
  /\ UNCHANGED <<saleVars, commission, approving, request, amount, share, settling, torn>>

\* What is wanted has to be there.
Count(r) ==
  /\ asking[r].at = "listing"
  /\ LET left == Left(asking[r].approved)
     IN  \/ \E wanted \in 1 .. Total(left) :
              /\ Goes(r, [at |-> "counted", shares |-> Shares(left, wanted)])
              /\ amount' = [amount EXCEPT ![r] = wanted]
         \/ Goes(r, [at |-> "done"]) /\ UNCHANGED amount
  /\ UNCHANGED <<saleVars, commission, approving, request, share, settling, torn>>

Insert(r) ==
  /\ asking[r].at = "counted"
  /\ IF OneActive
       THEN /\ request' = [request EXCEPT ![r] = "PENDING_REVIEW"]
            /\ Goes(r, [asking[r] EXCEPT !.at = "inserted"])
       ELSE /\ Goes(r, [at |-> "done"])
            /\ UNCHANGED request
  /\ UNCHANGED <<saleVars, commission, approving, amount, share, settling, torn>>

Allocate(r) ==
  /\ asking[r].at = "inserted"
  /\ Goes(r, [at |-> "done"])
  /\ share' = [share EXCEPT ![r] = asking[r].shares]
  /\ torn' = (torn \/ \E s \in Sales : refund[s].at = "free" /\ asking[r].shares[s] > 0)
  /\ UNCHANGED <<saleVars, commission, approving, request, amount, settling>>

\* The shares cannot be stored: the request is deleted.
TakeBack(r) ==
  /\ asking[r].at = "inserted"
  /\ Goes(r, [at |-> "done"])
  /\ request' = [request EXCEPT ![r] = "NONE"]
  /\ UNCHANGED <<saleVars, commission, approving, amount, share, settling, torn>>

\* The server dies, or neither write succeeds: a request without shares stays.
Die(r) ==
  /\ asking[r].at = "inserted"
  /\ Goes(r, [at |-> "done"])
  /\ torn' = TRUE
  /\ UNCHANGED <<saleVars, commission, approving, request, amount, share, settling>>

-----------------------------------------------------------------------------
(* The admin's decision (transitionPartnerWithdrawal).  Its write compares *)
(* the status with the one that was read, so it is one action.             *)

validateWithdrawalTransition(current, next) ==
  \/ current = "PENDING_REVIEW" /\ next \in {"APPROVED", "REJECTED"}
  \/ current = "APPROVED" /\ next \in {"PAID", "REJECTED"}

Decide(r, next) ==
  /\ validateWithdrawalTransition(request[r], next)
  /\ request' = [request EXCEPT ![r] = next]
  /\ settling' = [settling EXCEPT ![r] =
       IF next = "PAID" THEN {s \in Sales : share[r][s] > 0} ELSE @]
  /\ torn' = (torn \/ (next = "PAID" /\ Underway # {}))
  /\ UNCHANGED <<saleVars, commission, approving, amount, share, asking>>

\* Mutant of Settled: allocations of requests that are not paid count too.
SettledByAny(s) == Taken(s, {"PENDING_REVIEW", "APPROVED", "PAID", "REJECTED"})

\* What has been paid of a commission.
Settled(s) == Taken(s, {"PAID"})

\* After a payout each of its commissions is PAID once all of it has been paid.
Settle(r, s) ==
  /\ s \in settling[r]
  /\ settling' = [settling EXCEPT ![r] = @ \ {s}]
  /\ commission' = [commission EXCEPT ![s] = IF Settled(s) >= Value[s] THEN "PAID" ELSE @]
  /\ UNCHANGED <<saleVars, approving, request, amount, share, asking, torn>>

\* The call ends before it has looked at all of them.
SettleEnds(r) ==
  /\ settling[r] # {}
  /\ settling' = [settling EXCEPT ![r] = {}]
  /\ UNCHANGED <<saleVars, commission, approving, request, amount, share, asking, torn>>

-----------------------------------------------------------------------------
SaleStep(s) ==
  \/ \E c \in Calls : Confirm(s, c) \/ MarkPaid(s, c) \/ Earn(s, c) \/ ConfirmFails(s, c)
  \/ Look(s) \/ Approve(s)
  \/ Refund(s) \/ ReadCommission(s) \/ CheckReserved(s) \/ Reverse(s) \/ ReversalFails(s)

RequestStep(r) ==
  \/ Ask(r) \/ List(r) \/ Count(r) \/ Insert(r) \/ Allocate(r) \/ TakeBack(r) \/ Die(r)
  \/ \E next \in {"APPROVED", "PAID", "REJECTED"} : Decide(r, next)
  \/ \E s \in Sales : Settle(r, s)
  \/ SettleEnds(r)

Next == (\E s \in Sales : SaleStep(s)) \/ (\E r \in Requests : RequestStep(r))

Spec == Init /\ [][Next]_vars

-----------------------------------------------------------------------------
TypeOK ==
  /\ order \in [Sales -> {"PENDING", "PAID", "REFUNDED"}]
  /\ call \in [Sales -> [Calls -> {"new", "complete", "paid", "done"}]]
  /\ refund \in [Sales -> {Idle} \cup [at : {"marked", "done"}, read : {"NONE"}]
                     \cup [at : {"listed", "free"}, read : {"PENDING", "APPROVED"}]]
  /\ commission \in [Sales -> {"NONE", "PENDING", "APPROVED", "PAID", "REVERSED"}]
  /\ approving \subseteq Sales
  /\ request \in [Requests -> {"NONE", "PENDING_REVIEW", "APPROVED", "PAID", "REJECTED"}]
  /\ amount \in [Requests -> Nat]
  /\ share \in [Requests -> [Sales -> Nat]]
  /\ asking \in [Requests -> [at : {"new", "asked", "done"}]
                        \cup [at : {"listing"}, approved : SUBSET Sales]
                        \cup [at : {"counted", "inserted"}, shares : [Sales -> Nat]]]
  /\ settling \in [Requests -> SUBSET Sales]
  /\ torn \in BOOLEAN

\* No more is paid out than was earned: as long as no call was cut off or
\* overtaken between its reads and its last write, every payout consists of
\* shares of commissions, and no commission is paid out beyond its value,
\* although two requests may be created at the same time.
PaysWhatWasEarned ==
  ~torn =>
    /\ \A r \in Requests : request[r] = "PAID" => amount[r] = Total(share[r])
    /\ \A s \in Sales : Taken(s, {"PAID"}) <= Value[s]

\* A commission that a refund took back is in no request that may still be
\* paid, or has been, as long as no call was cut off or overtaken.
ReversedIsNotPaid ==
  ~torn => \A s \in Sales :
             commission[s] = "REVERSED" =>
               Taken(s, {"PENDING_REVIEW", "APPROVED", "PAID"}) = 0

\* A commission is called PAID only when payouts have covered all of it: what
\* is only reserved, or was rejected, does not count.
PaidMeansCovered ==
  \A s \in Sales : commission[s] = "PAID" => Taken(s, {"PAID"}) >= Value[s]

\* billingService.ts:1520 "A refunded sale no longer earns the partner a
\* commission": once a refund is handled its commission is reversed, paid, or
\* reserved by a request that has not been rejected.  The code does not keep
\* this: the shares of a rejected request count as reserved, a reversal that
\* failed is never repeated, and an approval in between stops it.
RefundTakesBack ==
  ~torn => \A s \in Sales :
             refund[s].at = "done" /\ commission[s] \in {"PENDING", "APPROVED"} =>
               Taken(s, {"PENDING_REVIEW", "APPROVED", "PAID"}) > 0

\* A refunded order stays refunded.  The code does not keep this: a page that
\* read the order before the refund marks it PAID again.
RefundedStays ==
  [][\A s \in Sales : order[s] = "REFUNDED" => order'[s] = "REFUNDED"]_vars
=============================================================================
