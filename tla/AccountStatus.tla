---------------------------- MODULE AccountStatus ----------------------------
(***************************************************************************)
(* The status of one broker account: written by full syncs, by the risk    *)
(* engine, by an operator and by the scan for stale accounts, each from    *)
(* what it read of the row a while ago (src/lib/services/                  *)
(* brokerSyncService.ts, riskEvaluationService.ts,                         *)
(* tradingAccountLifecycleService.ts).                                     *)
(*                                                                         *)
(* Rules and values are abstracted to the kinds of rule with the action    *)
(* RESTRICT that the account breaks, which may change at any time.         *)
(***************************************************************************)

CONSTANTS
  AccountSyncs,  \* calls of syncTradingAccount
  Kinds,         \* kinds of rule: "equity" (drawdown, open trades), "daily" (loss of the day)
  Interventions  \* bound: the statuses an operator sets, each once

Live == {"CONNECTED", "RESTRICTED"}
Statuses == Live \cup {"SYNCING", "DISCONNECTED", "INACTIVE"}
Sources == {"poll", "sync"}  \* who asks the engine: the risk worker; a sync or refresh that ended well

ASSUME StatusAssumption ==
  Interventions \subseteq Statuses /\ Kinds \subseteq {"equity", "daily"}

VARIABLES
  status,     \* trading_accounts.status
  byRisk,     \* risk_restricted_at is set
  breached,   \* the kinds of rule the account breaks
  syncing,    \* what each sync has read of the row, and how far it is
  eval,       \* what the evaluation of each source has read; bound: one at a time
  operator,   \* the statuses the operator has not set yet
  held        \* history: restricted by the operator in a quiet moment, and still

statusVars == <<status, byRisk, breached, syncing, eval, operator, held>>

NotSyncing == [found |-> "nothing", at |-> "idle"]

InitStatus ==
  /\ status \in {"SYNCING", "CONNECTED"}
  /\ byRisk = FALSE
  /\ breached = {}
  /\ syncing = [s \in AccountSyncs |-> NotSyncing]
  /\ eval = [e \in Sources |-> {}]
  /\ operator = Interventions
  /\ held = FALSE

\* History only: what an operator restricted stays so until the status changes.
Holding == held' = (held /\ status' = "RESTRICTED")

\* The account crosses the threshold of a rule, one way or the other.
Moves ==
  /\ \E k \in Kinds : breached' = IF k \in breached THEN breached \ {k} ELSE breached \cup {k}
  /\ UNCHANGED <<status, byRisk, syncing, eval, operator>> /\ Holding

\* Nothing that has read the row is still to write it, and the engine holds
\* no restriction.
Quiet == /\ \A s \in AccountSyncs : syncing[s] = NotSyncing
         /\ \A e \in Sources : eval[e] = {}
         /\ ~byRisk

\* PATCH /api/admin/accounts/.../status: the status only, whoever had set it.
Operator ==
  /\ \E to \in operator :
       /\ status' = to
       /\ operator' = operator \ {to}
       /\ held' = (to = "RESTRICTED" /\ Quiet)
  /\ UNCHANGED <<byRisk, breached, syncing, eval>>

-----------------------------------------------------------------------------
(* syncTradingAccount                                                      *)

Load(s) ==
  /\ syncing[s] = NotSyncing
  /\ syncing' = [syncing EXCEPT ![s] = [found |-> status, at |-> "loaded"]]
  /\ UNCHANGED <<status, byRisk, breached, eval, operator>> /\ Holding

\* A live account stays selectable while it is synced, another one is SYNCING.
Announce(s) ==
  /\ syncing[s].at = "loaded"
  /\ syncing' = [syncing EXCEPT ![s].at = "asking"]
  /\ status' = IF syncing[s].found \in Live THEN status ELSE "SYNCING"
  /\ UNCHANGED <<byRisk, breached, eval, operator>> /\ Holding

\* The account is synced: RESTRICTED if it was that when the sync began.
SyncFinishes(s) ==
  /\ syncing[s].at = "asking"
  /\ syncing' = [syncing EXCEPT ![s] = NotSyncing]
  /\ status' = IF syncing[s].found = "RESTRICTED" THEN "RESTRICTED" ELSE "CONNECTED"
  /\ UNCHANGED <<byRisk, breached, eval, operator>> /\ Holding

\* markFailed: a live account survives a failure that passes.
SyncFails(s) ==
  /\ syncing[s].at = "asking"
  /\ syncing' = [syncing EXCEPT ![s] = NotSyncing]
  /\ \/ syncing[s].found \in Live /\ UNCHANGED status
     \/ status' = "DISCONNECTED"
  /\ UNCHANGED <<byRisk, breached, eval, operator>> /\ Holding

-----------------------------------------------------------------------------
(* The risk engine                                                         *)

\* The worker polls what it found live when it listed the accounts, and passes
\* no loss of the day; a sync or a refresh passes what the database holds.
Sees(e) == IF e = "poll" THEN breached \ {"daily"} ELSE breached

Evaluate(e) ==
  /\ eval[e] = {}
  /\ eval' = [eval EXCEPT ![e] = {[found |-> status, byRisk |-> byRisk, restrict |-> Sees(e) # {}]}]
  /\ UNCHANGED <<status, byRisk, breached, syncing, operator>> /\ Holding

\* Mutant of Restricts: what the engine has restricted once is left alone.
RestrictsOnce(r) == r.restrict /\ r.found # "RESTRICTED" /\ ~r.byRisk

Restricts(r) == r.restrict /\ r.found # "RESTRICTED"

\* Mutant of Lifts: whoever has restricted the account.
LiftsAny(r) == ~r.restrict /\ r.found = "RESTRICTED"

\* Only what it finds restricted by the engine is lifted.
Lifts(r) == ~r.restrict /\ r.found = "RESTRICTED" /\ r.byRisk

Enforce(e) ==
  /\ \E r \in eval[e] :
       CASE Restricts(r) -> status' = "RESTRICTED" /\ byRisk' = TRUE
         [] Lifts(r)     -> status' = "CONNECTED" /\ byRisk' = FALSE
         [] OTHER        -> UNCHANGED <<status, byRisk>>
  /\ eval' = [eval EXCEPT ![e] = {}]
  /\ UNCHANGED <<breached, syncing, operator>> /\ Holding

\* expireStaleTradingAccounts: a live account has been silent for too long, or
\* was never synced.  The update asks for the status once more.
Expire ==
  /\ status \in Live
  /\ status' \in {"INACTIVE", "SYNCING"}
  /\ UNCHANGED <<byRisk, breached, syncing, eval, operator>> /\ Holding

NextStatus ==
  \/ Moves \/ Operator \/ Expire
  \/ \E s \in AccountSyncs : Load(s) \/ Announce(s) \/ SyncFinishes(s) \/ SyncFails(s)
  \/ \E e \in Sources : Evaluate(e) \/ Enforce(e)

StatusSpec == InitStatus /\ [][NextStatus]_statusVars

\* The worker comes round to a live account.
Poll == status \in Live /\ Evaluate("poll")

\* What is asked of the broker or the database is answered or fails.  Nobody
\* has to sync.
StatusFairness ==
  /\ SF_statusVars(Poll)
  /\ \A s \in AccountSyncs : WF_statusVars(Announce(s)) /\ WF_statusVars(SyncFinishes(s) \/ SyncFails(s))
  /\ \A e \in Sources : WF_statusVars(Enforce(e))

FairStatusSpec == StatusSpec /\ StatusFairness

-----------------------------------------------------------------------------
\* A restriction an operator set in a quiet moment is not turned into CONNECTED,
\* whatever syncs and evaluations of a healthy account follow.
OperatorHolds == [][held /\ operator' = operator => status' # "CONNECTED"]_statusVars

\* A breach the worker can see and that lasts restricts an account that stays
\* live, again and again, whatever syncs and operators write over its status
\* from what they read before.
BreachRestricts ==
  <>[]("equity" \in breached /\ status \in Live) => []<>(status = "RESTRICTED")

\* The engine "flips the account CONNECTED <-> RESTRICTED": where no operator
\* restricts, an account without a breach does not stay restricted.
HealthyIsReleased ==
  <>[](breached = {} /\ status \in Live) => []<>(status = "CONNECTED")
=============================================================================
