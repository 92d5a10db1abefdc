# WSA Global trading: specifications and proofs

TLA+ modules for the parts of this repository in which the order of steps
decides what happens to an order, an account or money: the trade gateway between
the web panel and the broker, the broker adapter and the queues it is called
from, the two copy engines and the streams that feed them, the job queue, the
syncs that write trades and account status, paid access and partner payouts.
They are read beside the code: `PROJECT.json` maps every definition to the lines
it stands for and lists the runs, the findings, the hazards and the theorems.

Paths below are relative to the repository's `src/`.

## The system and its parts

| Part | State it keeps | Operations | Interacts through | What is hard |
|---|---|---|---|---|
| Web order service (`lib/services/webTradeService.ts`, `lib/trade/webTradeGuard.ts`) | per instance: requests on their way, remembered successes, rate counters | `runOrder`, `sendThroughGateway`, `sendOverDirectLane` | HTTP from the panel, table `trade_commands`, direct lane | repeated requests, several instances, answers that never come |
| Command queue (`lib/gateway/gatewayQueue.ts`, `gatewayStore.ts`, migrations 060 / 062) | rows PENDING, RUNNING, DONE, FAILED, EXPIRED | enqueue, claim, abandon, reserve, record, sweep | database | a call that fails may have committed; claim against abandon; sweep against a slow worker |
| Gateway worker (`lib/gateway/gatewayWorker.ts`) | chains per account, `directSeen`, account pictures, refresh queue | claim loops, `runDirect`, `runCommand`, `storeAnswer`, refresh, housekeeping | database, direct lane, adapter | two workers, restart with orders on the way, stale pictures |
| Direct lane (`lib/gateway/directLaneClient.ts`, `directLaneServer.ts`) | lane marked down, requests in flight | `sendDirect`, `handle` | HTTP | lost and late requests, what an HTTP status says of an order |
| `KeyedChains` (`lib/copy/keyedChains.ts`) | tail per key, slot counter, waiting list | `run`, `acquire`, `release`, `idle` | promises | continuations that run after newer work was queued |
| Broker adapter (`lib/broker/Api2TradeBrokerAdapter.ts`, `api2TradeClient.ts`, `tradeRetcodes.ts`) | sessions per account, caches | orders, reads, session preparation | HTTP bridge | nested retries around something that must not be repeated |
| Self-copy (`lib/copy/selfCopyEngine.ts`, `selfCopyStore.ts`) | `self_copy_trade_links`, activity rows | open, modify, close, recovery | adapter, database, copy worker | reservation, retry of failed attempts, claims of closes, wrong lists |
| Copy worker (`scripts/wsa-copy-worker.ts`, `lib/copy/streamPump.ts`, `masterEvents.ts`, `lib/broker/api2TradeLiveSource.ts`) | streams, first sight of positions, known positions, buffered events | discovery, pumps, reconcile, dispatch | chains, engine, bridge | streams replaced while their chains run, lists in flight |
| Background jobs (`lib/services/backgroundJobService.ts`, `lib/workers/jobProcessor.ts`, `scripts/wsa-background-worker.ts`, migration 012) | job rows with a lease | enqueue, claim in batches, process, finalise, release stale, cancel, requeue | database | lease against owner, orders that may not be repeated blindly |
| Operational lock (`lib/services/operationalLockService.ts`, migration 053) | lock rows, a map in the process | acquire, release | database | expiry under its holder, fallback |
| Strategies (`lib/services/copyTradingService.ts`) | `copy_trade_links`, executions | run an event, retry, close linked, archive | copy worker, jobs, operators, adapter | the same event run in two processes |
| Broker sync (`lib/services/brokerSyncService.ts`) | stored trades, status of an account | refresh, full sync | broker reads, lock, risk engine | overlapping syncs that write what they read a while ago |
| Risk engine, account lifecycle (`lib/services/riskEvaluationService.ts`, `tradingAccountLifecycleService.ts`, `scripts/wsa-risk-worker.ts`) | status of an account, `risk_restricted_at` | evaluate, restrict, lift, stale scan, operator | database | five writers of one status |
| Billing (`lib/services/billingService.ts`, the Stripe webhook) | orders, entitlements, followers | confirm, renew, expire, cancel, repair, refund | Stripe events, the page behind the checkout | events and pages that do the same thing at the same time |
| Partners (`lib/services/partnerWithdrawalService.ts`, migration 034) | commissions, requests, allocations | earn, approve, withdraw, decide, pay, reverse | billing, admins | money reserved, reversed and paid side by side |
| Evaluations, marketplace, academy, CRM, reports, AI, authentication, pages | database rows | request / response | Supabase, external services | mostly arithmetic and record keeping |

What makes each part correct:

- **Order path**: a request id is one order at most; nobody is told something
  false about it; the stored history agrees with the broker; every call and
  every row ends.
- **KeyedChains and adapter**: calls of an account run in the order they were
  queued, the slot counter is exact, `idle()` means idle, and a call that goes
  wrong neither blocks its account nor becomes a second order.
- **Self-copy**: one copy per route and position, a retry only when nothing was
  sent, nothing of a copy is closed before the source closes it, and it is not
  left behind when the source does.
- **Account picture**: a modification never undoes what another one has set, and
  the panel sees in the end what the broker has.
- **Master stream**: a CLOSE is stored only of a position that is gone, nothing
  of a position is stored after it, and every CLOSE is copied.
- **Strategies**: one order per event, one run closes a copy at a time, a copy
  that is open is never recorded as something else, a claim ends.
- **Jobs**: a job has one runner per lease, the last claim decides, a live
  execution is never repeated blindly, every job ends.
- **Sync and status**: no open trade is hidden, a result is not overwritten, the
  rows catch up; an operator's restriction holds, a broken rule restricts.
- **Access and payouts**: access does not end early, a payment arrives; no more
  is paid than was earned, a reversed commission is not paid, what counts as paid
  is covered by a payout.

## Modules

```
TradeOrder <--- refined by --- TradeGateway          (MCTradeGateway, TradeGatewayProofs)
     ^                              | relies on
     +---- refined by --- BrokerCall --+
                                       +-- AccountOrders  (MCAccountOrders, AccountOrdersProofs)
                          KeyedChains -+
AccountPicture    the gateway's picture of an account (AccountProofs)
MasterStream ---> StrategyCopy      events, and what their runs do
                                    (MasterStreamProofs, StrategyCopyProofs)
SelfCopy                            a stream of its own and the copies (SelfCopyProofs)
BackgroundJobs -> StrategyCopy      jobs that repeat a run (BackgroundJobsProofs)
TradeSync ------> AccountStatus     the rows, and the status a sync ends with
                                    (both in AccountProofs)
PartnerPayout, CopyAccess           two uses of the same payment orders
                                    (PartnerPayoutProofs; AccountProofs)
```

Every module but `TradeOrder`, `KeyedChains` and `BrokerCall` has an `MC` module
that gives its constants values. `AccountProofs` extends four modules that
do not step together: three of them name their specifications for it (`PictureSpec`,
`StatusSpec`, `AccessSpec`).

An arrow between modules that are not composed means that the second takes what
the first may do as an action of its environment that may happen at any time.

### TradeOrder
The promise, without tables, lanes and workers: the fate of a request is open,
then dead or sent, then placed or refused; an answer has to fit the fate and is
given once. `TradeGateway` and `BrokerCall` both implement it.

### TradeGateway
One action per await-free piece of the order path. `pc` is where a call is in
`runOrder`; `status`, `errorCode` and `age` are its row, with the clock folded
into three ages (fresh, past `expires_at`, RUNNING for more than
`LOST_AFTER_MS`); `wire`, `waiting`, `reply` and `entry` are the direct lane and
a worker's `directSeen`; `tasks` are commands a worker holds; `inflight`,
`placed` and `verdict` belong to the broker. What fails is a disjunct of its
action: an insert that commits without its answer, a claim whose reply is lost,
an abandon that closed the row although it failed, a store that never succeeds,
a request that reaches the worker after its caller has gone. A crash clears the
worker's memory and leaves rows and orders as they are.

An error is one of four answers: `ok`, `refused`, `not_sent`, `uncertain` (the
codes of `UNCERTAIN_TRADE_CODES`). Gates, rate limits and the choice of a route
only read and may decide anything. Commands of an account run in chains; since
one request is followed here, a queued command may start at any time, which
covers every order the chains allow. `SweepPurge` deletes a finished row only
when nobody asks for it any more: the panel repeats an id for 90 s
(`RETRY_ID_MS`), rows are kept for three days.

### KeyedChains, BrokerCall, AccountOrders
`KeyedChains` has a step per callback: a task is new, queued, waits for a slot,
is granted one, runs, has released it, its promise resolves, its key is
forgotten. `turn` and `calls` are history variables: the code keeps no numbers,
the order property needs them. One call of `idle()` may start at any moment.

`BrokerCall` is `executeOrder` around `withSessionRetry` around
`requestWithExecutionFallback`. `late` counts requests nobody waits for any
more, which may still arrive at the broker. `HasFallback` is whether a second
endpoint is configured, `Unclear` whether an HTTP error can hide an order that
ran. Error texts are folded into the three things that are looked for in them.
Sessions shared by concurrent calls are not modelled.

`AccountOrders` puts the call into the chain: one task of an account is followed
into its call, whose retries and time-outs decide how long it keeps its slot;
the others end when they like. It adds no variables.

### SelfCopy
One route and one source position. A stream has its chain for a name (`pc` of a
stream), a recovery its worker (`pc` of a process). `link` is the row of
`self_copy_trade_links`; its `code` is whether the failure counts as certain,
`old` whether a CLOSING row is older than `STALE_CLOSING_MS`, `copied` the lot
it says the copy has. The source position has `size` and is halved now and then;
a list that shows it smaller than the one before is a MODIFY with both volumes,
which closes the same share of the recorded lot and writes what is left. Volumes
are counted in steps of the smallest lot and rounded as `roundToStep` does.
Lists come from the live source and may miss the position; streams end and are
replaced, with or without first sight being forgotten; a worker crashes. Every
database call may fail before or after it took effect. The route has a fixed
lot; the spellings of a symbol that are tried one after the other count as one
order; stop loss and take profit are a call that may fail; the two confirming
lists of a recovery are assumed not to miss an open position both times. Of the
activity only the failures a person has to put right are kept.

Three constants stand for what the code does not rule out. `Drained`: the pause
before a failed stream is opened again outlasts the copies on their way in its
chain. `Broken`: a connection may break after an order has left. `Torn`: a worker
may die between a partial close and its record. The run has TRUE, FALSE, FALSE;
the findings show the other values.

### AccountPicture
The refresh of one watched account (due, asked, seen, saved), the recent picture
in the worker's memory, and MODIFY commands, each of which sets one level of a
position and sends the other along, from the picture if no order has ended since
it was asked for, else from a read. The clock is folded into the order of these
things; a picture may be too old at any moment. `LateOrders` is whether an order
that timed out may act after it counts as ended.

### MasterStream
`applySnapshot` over lists by REST and by the socket, events buffered while a
read is in flight, outdated lists, the confirmation of an empty list; the pump's
step, its stop and its failure; one chain per position with `storeMasterEvent`.
It assumes that a list by the socket shows what is current but for a passing
empty one (`Glitches`), and that the pause before a failed stream is opened again
outlasts the step and the chains it had. `Changed` bounds which positions the
master changes.

### StrategyCopy
`executeCopyForEvent` for one position of the master and one follower, over the
events OPEN, MODIFY (adding volume or changing levels) and CLOSE. The worker runs
each once and in order; `Repeats` are the runs of jobs, operators and of the
archiving of a strategy (`Archives`), in other processes at any time. A link row
per event that opens something. A success may name no ticket
(`evaluateExecutionResponse` takes it all the same): the order is then `unnamed`,
its row is written OPEN with `follower_position_id` null, and every later CLOSE
and MODIFY passes it by with an activity row (`unmappedLinks`). Eligibility and
lots are left out: a run may end before it reserves. `MaxFaults` bounds failing writes, `MaxOrders` orders per
event, `MaxCrashes` runs that die.

### BackgroundJobs
Rows with status, attempts, owner and lease; a claim takes up to `Limit` rows, a
runner works through its batch, a release takes stale leases away without
telling the runner. Priorities, back-off and the time a job takes are open.
`Prompt` assumes that no lease goes stale before its runner has begun the job.

### TradeSync, AccountStatus
`TradeSync` has the trades of an account at the broker and in the database.
A refresh takes the operational lock, a full sync does not; both read the two
lists side by side and write row by row. Prices and profits are folded into
open, closed and closed by a guess; the history asked for is taken to reach back
to every trade. `unguarded` records that two syncs overlapped.

`AccountStatus` has the status and `risk_restricted_at`, and what each writer
remembers of them: syncs, the evaluation of the poll and of a sync, the operator,
the scan for stale accounts. An admin who deactivates and reactivates an account
is left out. Rules are kinds that are broken or not.

### PartnerPayout, CopyAccess
`PartnerPayout`: one partner, whole units of one currency; order, commission,
request, allocation and payout, database call by database call. The webhook and
the page behind the checkout confirm the same sale; `Visited` and `Refunded` bound
which sales have a page and a refund. A status an admin gives a commission by hand
is left out, and so is an update of the payout whose error the code does not look at.

`CopyAccess`: one trader, one strategy, paid by the month: order, entitlement
rows and the follower that decides whether copying happens. Time is counted in
months; Stripe's events and all calls end within the month they begin in. Rows
of one order beyond `MaxRows` are not told apart; `MaxFaults` bounds calls that
fail or die. `missed` is history: a call failed that was to carry a payment into
the rows, so that Stripe's month and that of the rows may differ from then on.

## Runs

| Run | Instance | Checks | States |
|---|---|---|---|
| GatewaySafety | 1 request, 2 calls on 2 instances, 2 workers, direct lane, 1 crash | AtMostOnce, TruthfulAnswers, TruthfulRows, SentOnlyReserved, ImplementsTradeOrder | 1.55 million |
| GatewayLiveness | 1 request, 2 calls on 1 instance, 1 worker, all three routes | EveryCallAnswered, EveryRowCloses | 180 000 |
| Orders | 4 tasks on 2 accounts, 1 slot, one followed into its call with 1 repeat at each layer and a fallback | InOrder, SlotsExact, IdleMeansDone, EveryTaskEnds, ImplementsTradeOrder | 608 000 |
| CopySafety | 1 worker, 2 streams, the source halved twice, 1 missed list or crash | OneCopy, RetryIsSafe, TruthfulLink, NeverClosedEarly, CopiesAreClosed | 642 000 |
| Picture | 4 commands that set and remove both levels | LevelsKept, PanelCatchesUp | 216 000 |
| Stream | 2 positions, one of them changed, 1 empty list by the socket, 1 failure, 1 insert without an answer | CloseIsReal, CloseIsLast, ClosesAreCopied | 149 000 |
| Strategy | the worker's runs, a job that repeats the OPEN and one that repeats the CLOSE, 1 failing write, 1 crash | OneOrder, OneCloser, PositionsRecorded, ClaimsEnd | 563 000 |
| Jobs | 2 runners, a live and an ordinary job, 2 attempts, 1 crash, 1 requeue | OneAtATime, LastClaimDecides, NoBlindRetry, EveryJobEnds | 245 000 |
| Sync | 1 trade, 2 refreshes, 1 full sync | NoTradeHidden, ResultsStay, RowsCatchUp | 94 000 |
| Status | 2 syncs, both sources of evaluations, an operator, the stale scan | OperatorHolds, BreachRestricts | 1.19 million |
| Payout | 2 sales, 2 requests, a page and a refund for one sale | PaysWhatWasEarned, ReversedIsNotPaid, PaidMeansCovered | 1.21 million |
| Access | 1 renewal, 2 rows, 1 failing call | PaidIsActive, PaymentArrives | 833 000 |

Every property has a mutant of a mapped definition that breaks it
(`PROJECT.json`); NeverClosedEarly has one for each of its parts.

The bounds and why they are enough:

- Requests share nothing but the account's chain, so one request is enough; two
  calls are the panel's click and its repetition, and each call may use the
  lane twice. With two instances both calls run at the same time; with one, the
  guard sees both. Two workers meet every race of claim, reservation and
  restart; they are interchangeable, so the safety run uses symmetry (the
  liveness run has one worker and does not).
- `GatewayLiveness` has no crash: a lost reply of a claim or of a reservation
  leaves the same abandoned RUNNING rows a crash leaves.
- Three tasks on one key are needed for a key to be forgotten while two newer
  ones are queued; the other key competes for the slot.
- In `SelfCopy` one wrong list makes a second OPEN of the same position, two
  streams make two chains, two partial closes are what a stale lot needs to do
  harm. The safety properties were also checked with two faults (1.96 million).
- Four commands set and remove both levels, so each may undo each. One trade is
  enough in `TradeSync`: rows are written one by one and share nothing but the
  lock. Two syncs and two evaluations are the readers of one status that write
  later; one intervention is the one whose restriction must hold.
- Two positions make the empty list of two (which is confirmed) and of one
  (which the socket may not decide). A job, a repetition and the worker are three
  runs of which two are about the same event. Two requests compete for the
  commissions of two sales; one refund meets both. One renewal is one month that
  ends and one that was paid for.

Fairness. `TradeGateway`: a waiting call goes on because each wait has a
deadline, the clock ticks, and the housekeeping loop sweeps; nothing is assumed
of network, broker, worker or command. `AccountOrders`: the event loop runs due
continuations, each request of a call has a time limit, and a task ends with its
call. `SelfCopy`: streams are opened and runs go on; a recovery is started again
and again by the pump; a list of positions and the claim of a copy are strongly
fair - bridge and database do not fail for ever. That a close succeeds is not
assumed: `CopiesAreClosed` allows the recorded failure that tells the person.
`AccountPicture`: the loop ticks and reads while somebody looks; reading and
saving are strongly fair. `MasterStream`: the pump steps and streams are opened
again; a read that is tried again is answered in the end, and its list arrives.
`StrategyCopy`: a run that began goes on or dies. `BackgroundJobs`: runners claim,
begin and finalise, leases go stale, the release runs; that a runner ends its
job is not assumed of one that died. `TradeSync`: a read ends or fails, rows are
written. `AccountStatus`: the poll runs again and again, syncs and evaluations
end. `CopyAccess`: a call that began goes on, and until the payment has arrived
once the page behind the checkout asks every five seconds, as it does while it is
open (`billing/return/page.tsx:51-57`; for the strategy's products its answer does
not become final, `billingService.ts:2178`). Stripe's event is not assumed to
arrive, and nothing is assumed of the repair or of what the trader does later.
`PaymentArrives` therefore asks for one activation, and for none if the
subscription was cancelled or the trader stopped copying first.
`PartnerPayout` states none: an admin may never decide.

`CHECK_DEADLOCK FALSE` stands where all requests, calls or trades of an instance
may be done; `Status` has an account that goes on for ever.

## Findings

Places where the code does not do what a comment or a document beside it says;
`PROJECT.json` quotes the lines. None has a run of its own: each is the named
property in the run's instance with one constant changed, or stated in the module
and checked there by hand.

| Property | Module and setting | What happens |
|---|---|---|
| NothingWasSent | TradeGateway, `DirectLane = FALSE`, one call | a failed insert is reported as not sent, but it may have committed |
| NeverPlacedTwice | TradeGateway, `LocalBridge = TRUE` | on the web server's own bridge a repeated uncertain order runs again |
| RefusedMeansNone | BrokerCall, `Unclear = TRUE` | a proxy's error counts as the broker's refusal |
| RetryIsSafe | SelfCopy, `Broken = TRUE` | a broken connection counts as a failure that sent nothing |
| OneCopy | SelfCopy, `Drained = FALSE` | two chains both repeat the same failed copy |
| NeverClosedEarly | SelfCopy, `Torn = TRUE` | a partial close that was not recorded lets the next one close the whole copy |
| (a disjunct of Take) | SelfCopy | an OPEN whose settings cannot be read ends without an activity row |
| LevelsKept | AccountPicture, `LateOrders = TRUE` | a late order is undone by the next modification |
| OneOrder | StrategyCopy, `RepeatOf <- OpenTwice`, `Repeats = {job, operator}` | a job and an operator both retake a failed copy |
| OneCloser | StrategyCopy, an archive beside a repeated CLOSE | a failed MODIFY gives a claimed copy back |
| OneAtATime | BackgroundJobs, three runners, two with one `NameOf` | a runner whose lease is gone ends the job its namesake works on, and a third claims it |
| NoBlindRetry | BackgroundJobs, `Prompt = FALSE` | a job that was failed as uncertain is begun all the same |
| ResultsStay, NoTradeHidden | TradeSync, without `~unguarded` | a full sync overlaps a refresh |
| HealthyIsReleased | AccountStatus | a sync writes back a restriction that was lifted meanwhile |
| (a source of Enforce) | AccountStatus | the poll takes the profit of the day for zero |
| RefundTakesBack, RefundedStays | PartnerPayout, the run's instance | a refund leaves the commission, or is undone by the page |
| ClosesFindAll | StrategyCopy, the run's instance | a success without a ticket is recorded OPEN with none, and no CLOSE finds the position |
| StopHolds, CancelledStays, OneEntitlement | CopyAccess, the run's instance | the repair ends a pause and a cancellation; two rows for one order |
| PaymentIsAuthoritative | CopyAccess, the run's instance | a renewal whose update failed, or that finds no row yet, leaves a paid month EXPIRED |

## Proofs

Eight modules, 43 theorems: every invariant, action property and refinement that
a run checks is stated by one. A theorem holds for every
value of the constants that the assumptions of its module allow; where it needs
a condition more, the condition is in its statement, and a finding shows what
happens without it.

`TradeGatewayProofs` (1136 obligations). `TypeCorrect` needs only the module's
assumption. Safety rests on an inductive invariant `Inv`: AtMostOnce alone is
not inductive, since a second order could come from a second task, a row that is
claimed again, or an order sent under a row that was closed as not sent. `Inv`
therefore adds who may still send: a worker holds a request only under a row
that is RUNNING or was given up as lost (`Reserved`), in at most one task
(`Single`), and the broker has seen nothing of a request that nobody has taken
or whose task still waits (`OneOrder`). To that come the answers: what a worker
is about to store, what is stored, remembered by a worker, on its way back and
told to a call is true of the broker (`TaskTrue`, `RowTrue`, `EntriesTrue`,
`RepliesTrue`, `ToldTrue`); truth is stable because a closed request cannot be
sent any more. From it follow `AtMostOnce`,
`TruthfulAnswers`, `TruthfulRows` and the step-by-step refinement of
`TradeOrder`. These four assume `~LocalBridge`: finding `NeverPlacedTwice` shows
that they do not hold with it. `FinishedIsFinal` and `SentOnlyReserved` hold with it as well.

`AccountOrdersProofs` (821), in three parts. Of the chains, `SInv` says that the
counter is the number of tasks that hold a slot, that the waiting list holds
tasks that wait, each once, and that nobody waits while a slot is free. `OInv`
explains the order by `turn`: the entry of a key is its task that was queued
last, a key without an entry has only resolved tasks, and a task is chained to
the last one queued before it. `IdleMeansDone` follows because an unresolved task
is always behind a tail that is in the map. Of the call, for any number of
repeats and with or without a fallback endpoint, `CInv` says that before a
request is sent again nothing of the call was executed or is on its way, that
while it waits there is exactly the request it waits for, and that after the end
there is what the answer says. With `~Unclear` that gives one order, certain
refusals and the refinement of `TradeOrder`; finding `RefusedMeansNone` shows why
the assumption is needed. The third part carries both over to the composition: a
step of it is a step of the chains and of the call, or leaves one alone.
`OrdersFollowOneAnother` is what only the composition can say: while the
call sends, every earlier task of its account has ended and no later one has begun.

`TradeGateway` takes from `BrokerCall` that one call of the adapter is one order
with a truthful verdict: the contract that refinement states.

`SelfCopyProofs` (2335). `CInv` is about the link: who stands where between the
reservation and the record of a copy (`Stages`, `Closing`), which order belongs to
the ticket (`Ticket`, `ClosedHasTicket`), and that no chain of the position works
beside another one (`Alone`). It needs
`SoleWorker`, `Drained` and `~Broken`; each of the last two has a finding.
`RInv` needs nothing: a recovery that is about to close has seen that the source
is gone (`Confirmed`), which is the first half of `NeverClosedEarly`. The second,
on partial closes, follows from `ShareInv`: the volumes in a chain descend
(`Descends`); while no MODIFY has failed the recorded lot, and what a MODIFY
will leave, are enough for every volume a later one may begin with (`Enough`); and the
broker has at least what is recorded or about to be (`AllRecorded`). The arithmetic is
`ShareLeaves`: of a lot that is enough, the rounded share leaves enough. It needs
`~Torn`, as the finding shows, and that Size divides Lot: with Size = 3 and
Lot = 4 TLC finds that rounding to the nearest step closes half a step more.

`StrategyCopyProofs` (2774). `BInv` adds to the types that the ticket in a row or
in a run's hands is that of an order placed for that row's event, and which
events of the worker have had their turn (`Scheduled`). By `OrderInv` an
event has one run that may still place its order, that run knows what was placed,
and a row that failed has lost one of its two runs for good; `SightInv` says where
each position is to be found - about to be written, open in its row, with the
ticket the broker's answer named or with none if it named none, or with a
run that closes it (`ClosedHasTicket`: whatever was claimed had a ticket); `CloserInv` that a CLOSE and its repetition cannot both have
claimed the ticket. `RepeatedOnce` allows an OPEN or MODIFY one run beside the worker's,
`ClosedTwiceAtMost` the same for a CLOSE without an archive; with more the findings
`OneOrder` and `OneCloser` begin.

`MasterStreamProofs` (1192). `SInv` says what each list that is on its way or held
back still shows of the positions (`ReadTrue`, `HeldTrue`), that the events of a
position - buffered, taken, in its chain and copied - continue one another
without a repetition (`Ordered`), and that a CLOSE among them is the last and
the position gone (`AllSealed`). `PassingOnce`: one empty list may pass on the
socket, none by REST - a single one by REST closes the only position there is, as
`applySnapshot` is written. `StreamCopiesOnce` does without.

`BackgroundJobsProofs` (597). `JInv`: a lease is lost by going stale and in no
other way (`LeaseKept`, `StaleClaims`), a runner has one copy of a job and that copy
is the claim of the row whenever the row is in the runner's name (`OwnCopies`), and
what was given up as uncertain stays FAILED until it is asked for (`BlindFailed`).
`DistinctNames` is needed because `updateClaimed` asks for the name and the status
alone (finding `OneAtATime`); `Prompt` as in finding `NoBlindRetry`.

`AccountProofs` (1346). *TradeSync*: while no two syncs overlap, each list a sync
holds is the past of the broker's (`ListsTrue`), the rows are of trades that exist
(`RowsAreTrades`), and a trade that is missing in a list was closed before it
(`Missing`, `ClosedSince`). *AccountPicture*: `LInv` says that a read no order
has outlived shows what the broker has unless an order acted and has not ended
(`ReadTrue`), the same of the remembered picture, and therefore of the level that
is sent along (`SendsTrue`); it needs `~LateOrders`. *AccountStatus*: while an
operator's restriction is held, all that the syncs and evaluations remember of the
row says restricted and not by the engine (`Holds`). *CopyAccess*:
`PaidIsActive` compares the rows with the month paid at Stripe, which no row
stores, and alone is not inductive. `AccessInv` adds why the two agree: a row that
does not run as long as what is paid has the subscription's id and a renewal on its
way (`GoodRows`); a row without the id was made in this month and a confirmation is
about to link it (`Linking`); while there is no row at all, the checkout's event is
on its way or being handled (`Provisioning`); a call that found a row still has one
(`CallsKnown`); and a paid month ends no later than the next one begins.

`PartnerPayoutProofs` (1802). What is earned, asked and paid are sums over sets of
commissions, and sums are recursive. The theorem modules' induction takes an
operator as a parameter, which no prover here instantiates; instead the proof takes a
smallest counterexample among the subsets of a finite set (`WFMin` over the strict
subset relation) and shows that the library's `SumFunctionOnSet` unfolds, in any
order of its elements (`SumSplit`), and is monotone (`SumBelow`). With it
`SharesAddUp` proves of the allocation itself that the shares it cuts add up to the
amount wanted and that none is above what is left of its commission. Over the
steps, `PInv` says that the index keeps one active request (`ActiveOnce`), that
shares are written after the request (`InOrder`) and that what is called PAID is
covered, whatever happened. The other two speak of histories in which no call was
cut off or overtaken (`torn`), as the properties do: by `RInv` a commission that is
not approved, or that a refund took back or found free, has no shares (`Unearned`,
`Reversed`, `FoundFree`); by `HInv` the shares a call has counted or a request has
stored add up to its amount and fit beside what has been paid (`Counted`,
`Stored`, `Within`).

Proved and not run: the types of each module, `FinishedIsFinal`, `OneOrder` and
`RefusedMeansNone` of `BrokerCall`, `CopiedOnce` of `MasterStream`,
`AttemptsBounded` of `BackgroundJobs` and `OrdersFollowOneAnother`.

Only model-checked: liveness, in all modules, since fairness and ENABLED are out of
the prover's reach.

## Not modelled, and the plan

Left out on purpose: cryptography of the direct lane, parsing and formatting,
user interface, request / response services over the database without
interleavings of their own (academy, CRM, reports, marketplace, AI,
authentication). Arithmetic - lot scaling, the rules of risk and evaluations,
rebates, statistics - appears only as far as a property needs a number.
`PROJECT.json` gives the reason per component.

Next, in this order:

1. What `NeverClosedEarly` becomes where the volumes do not divide: a bound of half
   a step per MODIFY.
2. An abstract specification of a copy (reserved, opened, closed), which
   `SelfCopy` and `StrategyCopy` both implement under their conditions.
3. The table of return codes and lot scaling as operators, with lemmas on their
   bounds.
4. Several positions on one route for the gate on open copies; sessions shared by
   concurrent calls.
5. Platform subscriptions and bot licences.
