----------------------------- MODULE CopyAccess -----------------------------
(***************************************************************************)
(* Access to a strategy that is paid by the month: the order, the          *)
(* entitlement with its period, and the follower whose status decides      *)
(* whether orders are copied (src/lib/services/billingService.ts, the      *)
(* Stripe webhook, updateMySubscription and followStrategy of              *)
(* copyTradingService.ts).                                                 *)
(*                                                                         *)
(* One trader, one strategy, one account.  The checkout is confirmed by    *)
(* Stripe's event and by the page the trader comes back to; expiry, the    *)
(* repair that runs behind every summary, and the trader himself write the *)
(* same rows.  A call's database calls are actions of their own.           *)
(*                                                                         *)
(* Time is counted in months.  Stripe delivers an event, and every call    *)
(* ends, within the month it began in.                                     *)
(***************************************************************************)
EXTENDS Naturals, Sequences

CONSTANTS
  Months,     \* bound: the last month
  MaxRows,    \* bound: the latest entitlement rows of the order, the older are forgotten
  MaxFaults   \* bound: calls that fail or die on their way

ASSUME AccessAssumption == Months \in Nat /\ MaxRows \in Nat \ {0} /\ MaxFaults \in Nat

VARIABLES
  now,        \* months since the start
  ready,      \* the strategy is live and the account connected
  stripe,     \* the subscription at Stripe, and the end of what is paid there
  events,     \* Stripe's events that are not delivered yet
  order,      \* payment_orders.status
  rows,       \* copy_account_entitlements of the order
  follower,   \* copy_strategy_followers.status
  call,       \* how far each call is, and what it has read
  stopped,    \* history: the trader has paused or left, and not come back
  faults,     \* history: calls and updates that failed
  missed      \* history: a renewal was not written, or a confirmation broke off

failures == <<faults, missed>>
accessVars == <<now, ready, stripe, events, order, rows, follower, call, stopped, failures>>
access == <<order, rows, follower>>
world == <<now, ready, stripe, stopped>>

\* The calls that write access: two that confirm the checkout, and one each of
\* expireStaleEntitlements, customer.subscription.deleted, the repair and the
\* trader's request to follow.
Confirming == {"webhook", "page"}
Revoking == {"expiry", "deleted"}
Calls == Confirming \cup Revoking \cup {"repair", "follow"}

NoCall == [at |-> "idle", read |-> "none"]

InitAccess ==
  /\ now = 0
  /\ ready \in BOOLEAN
  /\ stripe = [is |-> "open", until |-> 0]
  /\ events = {}
  /\ order = "PENDING"
  /\ rows = <<>>
  /\ follower = "none"
  /\ call = [c \in Calls |-> NoCall]
  /\ stopped = FALSE
  /\ faults = 0
  /\ missed = FALSE

At(c, at) == call[c].at = at
Goto(c, at, read) == call' = [call EXCEPT ![c] = [at |-> at, read |-> read]]
Leave(c) == call' = [call EXCEPT ![c] = NoCall]

\* Something fails, and it is missed where nobody tries it again.
Fails(misses) ==
  /\ faults < MaxFaults
  /\ faults' = faults + 1
  /\ missed' = (missed \/ misses)

OnRows(Touched(_), New(_)) ==
  rows' = [i \in DOMAIN rows |-> IF Touched(rows[i]) THEN New(rows[i]) ELSE rows[i]]

-----------------------------------------------------------------------------
(* Stripe, and time.                                                       *)

\* The trader pays the checkout, and Stripe renews by itself.
Pay ==
  /\ stripe.is = "open" \/ (stripe.is = "live" /\ stripe.until <= now)
  /\ stripe' = [is |-> "live", until |-> now + 1]
  /\ events' = events \cup {"invoice"} \cup IF stripe.is = "open" THEN {"completed"} ELSE {}
  /\ UNCHANGED <<now, ready, stopped, access, call, failures>>

\* The subscription is cancelled, or a renewal is not paid.
Cancel ==
  /\ stripe.is = "live"
  /\ stripe' = [stripe EXCEPT !.is = "gone"]
  /\ events' = events \cup {"deleted"}
  /\ UNCHANGED <<now, ready, stopped, access, call, failures>>

Month ==
  /\ now < Months
  /\ events = {} /\ \A c \in Calls : At(c, "idle")
  /\ stripe.is = "live" => now < stripe.until
  /\ now' = now + 1
  /\ UNCHANGED <<ready, stripe, events, stopped, access, call, failures>>

\* The account is connected.
Connect ==
  /\ ~ready
  /\ ready' = TRUE
  /\ UNCHANGED <<now, stripe, events, stopped, access, call, failures>>

-----------------------------------------------------------------------------
(* The checkout is confirmed.                                              *)

\* Mutant of Reconcilable: an order that is PAID needs nothing any more.
ReconcilablePending == order = "PENDING"
\* The webhook records an event before it handles it, and never handles it
\* again; the page asks Stripe whenever its order is PENDING or PAID.
Reconcilable == order \in {"PENDING", "PAID"}

Confirm(c) ==
  /\ At(c, "idle")
  /\ IF c = "webhook" THEN "completed" \in events ELSE stripe.is # "open" /\ Reconcilable
  /\ events' = IF c = "webhook" THEN events \ {"completed"} ELSE events
  /\ Goto(c, "order", "none")
  /\ UNCHANGED <<world, access, failures>>

\* markOrderPaid: an error of this update is not looked at.
MarkPaid(c) ==
  /\ At(c, "order")
  /\ \/ order' = "PAID" /\ UNCHANGED failures
     \/ Fails(FALSE) /\ UNCHANGED order
  /\ Goto(c, "entitlement", "none")
  /\ UNCHANGED <<world, events, rows, follower>>

\* ensurePaidOrderProvisioned: a read of one row that finds two is an error
\* nobody looks at, and counts as none.
ReadRow(c) ==
  /\ At(c, "entitlement")
  /\ Goto(c, "grant", IF Len(rows) = 1 THEN rows[1].status ELSE "none")
  /\ UNCHANGED <<world, events, access, failures>>

Grant(c) ==
  /\ At(c, "grant")
  /\ IF call[c].read = "none"
       THEN rows' = Append(IF Len(rows) = MaxRows THEN Tail(rows) ELSE rows,
                           [status |-> "ACTIVE", until |-> now + 1, linked |-> FALSE])
       ELSE IF call[c].read = "ACTIVE" THEN UNCHANGED rows
       ELSE rows' = [rows EXCEPT ![1] = [@ EXCEPT !.status = "ACTIVE", !.until = now + 1]]
  /\ Goto(c, "follower", "none")
  /\ UNCHANGED <<world, events, order, follower, failures>>

\* ensureActiveCopyFollowerForPaidOrder, whoever stopped the follower.
Activate(c) ==
  /\ At(c, "follower")
  /\ follower' = IF ready THEN "ACTIVE" ELSE follower
  /\ IF c \in Confirming THEN Goto(c, "link", "none") ELSE Leave(c)
  /\ UNCHANGED <<world, events, order, rows, failures>>

\* The rows of the order get the subscription's id, by which Stripe's later
\* events find them.
Link(c) ==
  /\ At(c, "link")
  /\ OnRows(LAMBDA r : TRUE, LAMBDA r : [r EXCEPT !.linked = TRUE])
  /\ Leave(c)
  /\ UNCHANGED <<world, events, order, follower, failures>>

\* A call fails or dies on its way: the webhook answers 200 all the same.
Break(c) ==
  /\ ~At(c, "idle")
  /\ Fails(c \in Confirming)
  /\ Leave(c)
  /\ UNCHANGED <<world, events, access>>

-----------------------------------------------------------------------------
(* Renewal, expiry, cancellation.                                          *)

\* invoice.paid: an update without a read.  Its error is not looked at.
Renew ==
  /\ "invoice" \in events
  /\ events' = events \ {"invoice"}
  /\ \/ /\ OnRows(LAMBDA r : r.linked /\ r.status \in {"ACTIVE", "EXPIRED"},
                  LAMBDA r : [r EXCEPT !.status = "ACTIVE", !.until = stripe.until])
        /\ UNCHANGED failures
     \/ Fails(TRUE) /\ UNCHANGED rows
  /\ UNCHANGED <<world, order, follower, call>>

Stale(r) == r.status = "ACTIVE" /\ r.until <= now
Cancelled(r) == r.status = "ACTIVE" /\ r.linked

ListedRows(c) ==
  \E i \in DOMAIN rows : IF c = "expiry" THEN Stale(rows[i]) ELSE Cancelled(rows[i])

\* expireStaleEntitlements runs behind any checkout and before anybody follows
\* a strategy; customer.subscription.deleted is delivered once.
List(c) ==
  /\ c \in Revoking
  /\ At(c, "idle")
  /\ c = "deleted" => "deleted" \in events
  /\ events' = IF c = "deleted" THEN events \ {"deleted"} ELSE events
  /\ Goto(c, "close", IF ListedRows(c) THEN "some" ELSE "none")
  /\ UNCHANGED <<world, access, failures>>

\* Mutant of Expires: what was listed is closed by its id.
ExpiresListed(c, r) == r.status = "ACTIVE" /\ call[c].read = "some"
\* What expiry closes is looked at again by the update itself.
Expires(c, r) == Stale(r)

Close(c) ==
  /\ At(c, "close")
  /\ IF c = "expiry"
       THEN OnRows(LAMBDA r : Expires(c, r), LAMBDA r : [r EXCEPT !.status = "EXPIRED"])
       ELSE OnRows(Cancelled, LAMBDA r : [r EXCEPT !.status = "CANCELLED"])
  /\ IF call[c].read = "some" THEN Goto(c, "revoke", "none") ELSE Leave(c)
  /\ UNCHANGED <<world, events, order, follower, failures>>

Revoke(c) ==
  /\ At(c, "revoke")
  /\ follower' = IF follower = "none" THEN "none" ELSE "REVOKED"
  /\ Leave(c)
  /\ UNCHANGED <<world, events, order, rows, failures>>

-----------------------------------------------------------------------------
(* The trader.                                                             *)

\* activateVerifiedPaidCopyFollowers runs behind a summary of his access and
\* goes on with the orders that it read as PAID.
Repair ==
  /\ At("repair", "idle")
  /\ order = "PAID"
  /\ Goto("repair", "follower", "none")
  /\ UNCHANGED <<world, events, access, failures>>

\* POST .../follow asks for an entitlement that runs.
Follow ==
  /\ At("follow", "idle")
  /\ \E i \in DOMAIN rows : rows[i].status = "ACTIVE" /\ rows[i].until > now
  /\ ready
  /\ stopped' = FALSE
  /\ Goto("follow", "follower", "none")
  /\ UNCHANGED <<now, ready, stripe, events, access, failures>>

\* updateMySubscription asks for none.
Patch(status) ==
  /\ follower # "none"
  /\ follower' = status
  /\ stopped' = (status # "ACTIVE")
  /\ UNCHANGED <<now, ready, stripe, events, order, rows, call, failures>>

-----------------------------------------------------------------------------
CallStep(c) ==
  \/ MarkPaid(c) \/ ReadRow(c) \/ Grant(c) \/ Activate(c) \/ Link(c)
  \/ Close(c) \/ Revoke(c)

NextAccess ==
  \/ Pay \/ Cancel \/ Month \/ Connect \/ Renew \/ Repair \/ Follow
  \/ \E c \in Confirming : Confirm(c)
  \/ \E c \in Revoking : List(c)
  \/ \E c \in Calls : CallStep(c) \/ Break(c)
  \/ \E status \in {"ACTIVE", "PAUSED", "REVOKED"} : Patch(status)

AccessSpec == InitAccess /\ [][NextAccess]_accessVars

\* The payment has arrived: the order is paid, an entitlement is active, and the
\* follower is copied.
Arrived ==
  order = "PAID" /\ follower = "ACTIVE" /\ \E i \in DOMAIN rows : rows[i].status = "ACTIVE"

\* A call that has begun goes on.  The page the trader comes back to asks every
\* five seconds, and he leaves it open until his payment has arrived.  Nothing is
\* assumed of Stripe's events, of time, or of what else the trader does.
FairAccessSpec ==
  /\ AccessSpec
  /\ \A c \in Calls : WF_accessVars(CallStep(c))
  /\ WF_accessVars(Confirm("page") /\ ~Arrived)

-----------------------------------------------------------------------------
\* Every variable has its type.
AccessTypeOK ==
  /\ now \in 0..Months /\ ready \in BOOLEAN /\ stopped \in BOOLEAN
  /\ faults \in 0..MaxFaults /\ missed \in BOOLEAN
  /\ stripe \in [is : {"open", "live", "gone"}, until : 0..Months + 1]
  /\ events \subseteq {"completed", "invoice", "deleted"}
  /\ order \in {"PENDING", "PAID"}
  /\ Len(rows) <= MaxRows
  /\ \A i \in DOMAIN rows :
       rows[i] \in [status : {"ACTIVE", "EXPIRED", "CANCELLED"}, until : 0..Months + 1, linked : BOOLEAN]
  /\ follower \in {"none", "ACTIVE", "PAUSED", "REVOKED"}
  /\ \A c \in Calls : call[c].at \in {"idle", "order", "entitlement", "grant", "follower", "link", "close", "revoke"}

\* Stripe has delivered what it has to say of payments, and it is handled.
Delivered == events \cap {"completed", "invoice"} = {} /\ At("webhook", "idle")

\* The strategy has its entitlement, for the month that is paid at Stripe.
PaidUp == rows # <<>> /\ \A i \in DOMAIN rows : rows[i].status = "ACTIVE" /\ rows[i].until >= stripe.until

\* "Successful payment is authoritative" (billingService.ts:1406): while a month
\* that is paid at Stripe runs, and Stripe's events are handled, the entitlement is
\* active and runs as long.
PaymentIsAuthoritative == Delivered /\ stripe.is = "live" /\ now < stripe.until => PaidUp

\* However expiry, a renewal that is late, confirmations of the checkout that
\* overlap, the repair, the trader and calls that fail meet: the month paid at
\* Stripe has its entitlement, unless the renewal's one update or a call that
\* confirms the checkout has failed itself.
PaidIsActive == ~missed => PaymentIsAuthoritative

\* A payment arrives: whichever call, update or event fails, once a checkout is
\* paid and the account connected, the order becomes PAID, has an active entitlement
\* and its follower is activated; or the subscription is cancelled or the trader
\* stops copying before.  It is not asked to stay so.
PaymentArrives == <>(stripe.is = "live" /\ ready) => <>(Arrived \/ stripe.is = "gone" \/ stopped)

\* "This path is idempotent" (billingService.ts:2235): confirmed twice, the
\* checkout still is one entitlement.
OneEntitlement == Len(rows) <= 1

\* "Traders can pause or revoke at any time. No copying occurs without
\* status=ACTIVE" (docs/COPY_TRADING_ARCHITECTURE.md:93): a follower the trader
\* has stopped stays stopped until he asks for it again.
StopHolds == [][stopped /\ stopped' /\ follower # "ACTIVE" => follower' # "ACTIVE"]_accessVars

\* "deleted => cancel + revoke follower" (docs/WSA_ARCHITECTURE_ANALYSIS.md:702):
\* a follower is not activated when every entitlement has been cancelled.
CancelledStays ==
  [][rows # <<>> /\ (\A i \in DOMAIN rows : rows[i].status = "CANCELLED") /\ follower = "REVOKED"
       => follower' # "ACTIVE"]_accessVars
=============================================================================
