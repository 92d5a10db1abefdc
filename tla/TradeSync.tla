------------------------------ MODULE TradeSync ------------------------------
(***************************************************************************)
(* The stored trades of one broker account, written by syncs that overlap  *)
(* (src/lib/services/brokerSyncService.ts) and kept apart, some of them,   *)
(* by an operational lock (operationalLockService.ts, migration 053).      *)
(*                                                                         *)
(* A sync reads the open trades and the history of the broker side by side *)
(* and writes what differs, row by row; no write compares what it          *)
(* overwrites.  A trade is open or closed: prices, volumes and profits     *)
(* follow that, except that a trade found in neither list is closed with a *)
(* profit of zero.  The history asked for is taken to reach back to every  *)
(* trade.  What a sync does to the status of its account is in             *)
(* AccountStatus.                                                          *)
(***************************************************************************)
EXTENDS FiniteSets

CONSTANTS
  Trades,
  Refreshes,     \* calls of refreshAccountTrades: they take the operational lock
  FullSyncs,     \* calls of syncTradingAccount: they do not
  Nobody         \* no owner of the lock

Syncs == Refreshes \cup FullSyncs

ASSUME SyncAssumption == Nobody \notin Syncs /\ Refreshes \cap FullSyncs = {} /\ "unread" \notin Trades

VARIABLES
  broker,     \* the trades at the broker
  stored,     \* the rows of trades; "guessed" is closed with a profit of zero
  sync,       \* how far each sync is, and what it has read
  lock,       \* the owner of the lock account-sync:<account>
  unguarded   \* history: two syncs were in progress that no lock kept apart

vars == <<broker, stored, sync, lock, unguarded>>

Unread == {"unread"}
Idle == [at |-> "idle"]

Init ==
  /\ broker = [t \in Trades |-> "none"]
  /\ stored = [t \in Trades |-> "none"]
  /\ sync = [s \in Syncs |-> Idle]
  /\ lock = Nobody
  /\ unguarded = FALSE

-----------------------------------------------------------------------------
\* A trade opens and closes.
BrokerMoves(t) ==
  /\ \/ broker[t] = "none" /\ broker' = [broker EXCEPT ![t] = "open"]
     \/ broker[t] = "open" /\ broker' = [broker EXCEPT ![t] = "closed"]
  /\ UNCHANGED <<stored, sync, lock, unguarded>>

-----------------------------------------------------------------------------
(* A sync.                                                                 *)

Busy(s) == sync[s].at # "idle"

\* What a sync knows when it has read the account row.
Fresh == [at |-> "reading", open |-> Unread, history |-> Unread, known |-> {}]

\* Mutant of Acquire: a lock that is held is taken over.
AcquireHeld(s) == lock' = s

\* try_acquire_operational_lock
Acquire(s) ==
  /\ lock = Nobody
  /\ lock' = s

\* refreshAccountTrades: without the lock the caller gets the cached summary.
RefreshTrades(s) ==
  /\ s \in Refreshes /\ ~Busy(s)
  /\ Acquire(s)
  /\ sync' = [sync EXCEPT ![s] = Fresh]
  /\ unguarded' = (unguarded \/ \E f \in FullSyncs : Busy(f))
  /\ UNCHANGED <<broker, stored>>

\* syncTradingAccount takes no lock.
StartFull(s) ==
  /\ s \in FullSyncs /\ ~Busy(s)
  /\ sync' = [sync EXCEPT ![s] = Fresh]
  /\ unguarded' = (unguarded \/ \E r \in Syncs : Busy(r))
  /\ UNCHANGED <<broker, stored, lock>>

\* The lease of the lock ends before its sync does, or the lock function cannot
\* be reached and the fallback knows nothing of other processes.
LockLapses ==
  /\ lock # Nobody
  /\ lock' = Nobody
  /\ unguarded' = TRUE
  /\ UNCHANGED <<broker, stored, sync>>

\* fetchOpenTrades and fetchTradeHistory, in either order.
ReadOpen(s) ==
  /\ sync[s].at = "reading" /\ sync[s].open = Unread
  /\ sync' = [sync EXCEPT ![s].open = {t \in Trades : broker[t] = "open"}]
  /\ UNCHANGED <<broker, stored, lock, unguarded>>

ReadHistory(s) ==
  /\ sync[s].at = "reading" /\ sync[s].history = Unread
  /\ sync' = [sync EXCEPT ![s].history = {t \in Trades : broker[t] = "closed"}]
  /\ UNCHANGED <<broker, stored, lock, unguarded>>

\* dedupeTradeRows: a closed version wins over an open one.
RowOf(s, t) == IF t \in sync[s].history THEN "closed" ELSE "open"
Listed(s) == sync[s].open \cup sync[s].history

\* persistBrokerSnapshotAndTrades reads the stored rows of the trades listed.
ReadStored(s) ==
  /\ sync[s].at = "reading" /\ Unread \notin {sync[s].open, sync[s].history}
  /\ sync' = [sync EXCEPT ![s].at = "known",
                          ![s].known = {t \in Listed(s) : stored[t] = RowOf(s, t)}]
  /\ UNCHANGED <<broker, stored, lock, unguarded>>

\* Mutant of WriteRow: a row that exists is left as it is.
WriteNewRow(s, t) ==
  /\ sync[s].at = "known" /\ t \in Listed(s) \ sync[s].known
  /\ stored' = [stored EXCEPT ![t] = IF @ = "none" THEN RowOf(s, t) ELSE @]
  /\ sync' = [sync EXCEPT ![s].known = @ \cup {t}]
  /\ UNCHANGED <<broker, lock, unguarded>>

\* A new trade is inserted and one the broker changed is updated, whatever has
\* become of its row since it was read.
WriteRow(s, t) ==
  /\ sync[s].at = "known" /\ t \in Listed(s) \ sync[s].known
  /\ stored' = [stored EXCEPT ![t] = RowOf(s, t)]
  /\ sync' = [sync EXCEPT ![s].known = @ \cup {t}]
  /\ UNCHANGED <<broker, lock, unguarded>>

\* The rows still open are read that the open trades lack ...
ListMissing(s) ==
  /\ sync[s].at = "known" /\ Listed(s) \subseteq sync[s].known
  /\ sync' = [sync EXCEPT ![s].at = "closing",
                          ![s].known = {t \in Trades : stored[t] = "open"} \ sync[s].open]
  /\ UNCHANGED <<broker, stored, lock, unguarded>>

\* Mutant of CloseMissing: every row the open trades lack is closed.
CloseAllMissing(s, t) ==
  /\ sync[s].at = "closing" /\ t \notin sync[s].open /\ stored[t] # "none"
  /\ stored' = [stored EXCEPT ![t] = "guessed"]
  /\ sync' = [sync EXCEPT ![s].known = @ \ {t}]
  /\ UNCHANGED <<broker, lock, unguarded>>

\* ... and each that is open yet is closed, with what the history says of it or
\* with a profit of zero.
CloseMissing(s, t) ==
  /\ sync[s].at = "closing" /\ t \in sync[s].known
  /\ stored' = [stored EXCEPT ![t] =
       IF @ # "open" THEN @ ELSE IF t \in sync[s].history THEN "closed" ELSE "guessed"]
  /\ sync' = [sync EXCEPT ![s].known = @ \ {t}]
  /\ UNCHANGED <<broker, lock, unguarded>>

\* release_operational_lock: only the owner's row is deleted.
Unlock(s) == lock' = IF lock = s THEN Nobody ELSE lock

\* The sync ends, or fails on the way; either way it gives back its lock.
Finish(s) ==
  /\ sync[s].at = "closing" /\ sync[s].known = {}
  /\ sync' = [sync EXCEPT ![s] = Idle]
  /\ Unlock(s)
  /\ UNCHANGED <<broker, stored, unguarded>>

Fail(s) ==
  /\ Busy(s)
  /\ sync' = [sync EXCEPT ![s] = Idle]
  /\ Unlock(s)
  /\ UNCHANGED <<broker, stored, unguarded>>

Next ==
  \/ \E t \in Trades : BrokerMoves(t)
  \/ LockLapses
  \/ \E s \in Syncs : \/ RefreshTrades(s) \/ StartFull(s) \/ ReadOpen(s) \/ ReadHistory(s)
                      \/ ReadStored(s) \/ ListMissing(s) \/ Finish(s) \/ Fail(s)
                      \/ \E t \in Trades : WriteRow(s, t) \/ CloseMissing(s, t)

Spec == Init /\ [][Next]_vars

\* What is asked of the broker or the database is answered or fails.  Nobody
\* has to sync.
Fairness ==
  \A s \in Syncs :
    /\ WF_vars(ReadOpen(s) \/ Fail(s)) /\ WF_vars(ReadHistory(s) \/ Fail(s))
    /\ WF_vars(ReadStored(s)) /\ WF_vars(ListMissing(s)) /\ WF_vars(Finish(s))
    /\ \A t \in Trades : WF_vars(WriteRow(s, t)) /\ WF_vars(CloseMissing(s, t))

FairSpec == Spec /\ Fairness

-----------------------------------------------------------------------------
\* A closed row is a trade that is closed at the broker - as long as no two
\* syncs ran side by side, although a sync reads its lists at different moments.
NoTradeHidden ==
  ~unguarded => \A t \in Trades : stored[t] \in {"closed", "guessed"} => broker[t] = "closed"

\* "Operational locks prevent duplicate broker syncs": as long as they do, the
\* result a trade was closed with is never replaced, reopened or guessed over.
ResultsStay ==
  [][~unguarded' => \A t \in Trades : stored[t] = "closed" => stored'[t] = "closed"]_vars

\* The risk worker's refreshes go on succeeding now and then.
RefreshesSucceed == []<><<\E r \in Refreshes : Finish(r)>>_vars

\* However syncs overlapped, failed and overwrote each other, once the broker
\* is quiet the rows become and stay what the broker has.
RowsCatchUp == RefreshesSucceed => <>[](stored = broker)
=============================================================================
