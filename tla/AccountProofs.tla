---------------------------- MODULE AccountProofs ----------------------------
(***************************************************************************)
(* Theorems about what the platform keeps of one broker account: the rows  *)
(* of its trades (TradeSync), its status (AccountStatus), the picture of   *)
(* its position (AccountPicture) and the access to a strategy that is paid *)
(* for it (CopyAccess).  The modules do not step together: each of them    *)
(* has variables and a specification of its own.                           *)
(***************************************************************************)
EXTENDS TradeSync, AccountStatus, AccountPicture, CopyAccess, TLAPS

-----------------------------------------------------------------------------
(* TradeSync, for any number of trades and of syncs of either kind.        *)

Lists == SUBSET Trades
SyncRecords == [at : {"reading", "known", "closing"}, open : Lists \cup {Unread},
                history : Lists \cup {Unread}, known : Lists]

TypeOK ==
  /\ broker \in [Trades -> {"none", "open", "closed"}]
  /\ stored \in [Trades -> {"none", "open", "closed", "guessed"}]
  /\ sync \in [Syncs -> {Idle} \cup SyncRecords]
  /\ lock \in Syncs \cup {Nobody}
  /\ unguarded \in BOOLEAN

HasOpen(s) == Busy(s) /\ sync[s].open # Unread
HasHistory(s) == Busy(s) /\ sync[s].history # Unread

\* What a sync has read was so, and a trade does not go back: one that was open
\* is not "none" again, one that was closed is closed.
ListsTrue ==
  \A s \in Syncs :
    /\ HasOpen(s) => \A t \in sync[s].open : broker[t] # "none"
    /\ HasHistory(s) => \A t \in sync[s].history : broker[t] = "closed"
    /\ Busy(s) /\ sync[s].at # "reading" => HasOpen(s) /\ HasHistory(s)
    /\ Busy(s) /\ sync[s].at = "closing" => sync[s].known \cap sync[s].open = {}

\* A row is that of a trade the broker has had.
RowsAreTrades == \A t \in Trades : stored[t] # "none" => broker[t] # "none"

\* The lock keeps syncs apart, until one ran beside another without it.
Apart ==
  ~unguarded =>
    /\ \A s, q \in Syncs : Busy(s) /\ Busy(q) => s = q
    /\ \A r \in Refreshes : Busy(r) => lock = r

\* A trade with a row that the open trades lack is closed.
Missing ==
  ~unguarded => \A s \in Syncs : HasOpen(s) =>
    \A t \in Trades : stored[t] # "none" /\ t \notin sync[s].open => broker[t] = "closed"

\* A trade listed as open whose row is closed has been closed by this sync, from
\* the history.
ClosedSince ==
  ~unguarded => \A s \in Syncs : HasOpen(s) =>
    \A t \in sync[s].open : stored[t] \in {"closed", "guessed"} => HasHistory(s) /\ t \in sync[s].history

TInv == TypeOK /\ ListsTrue /\ RowsAreTrades /\ Apart /\ Missing /\ ClosedSince /\ NoTradeHidden

-----------------------------------------------------------------------------
LEMMA UnreadIsNoList == Unread \notin Lists
  BY SyncAssumption DEF SyncAssumption, Unread, Lists

LEMMA SyncSets == Refreshes \subseteq Syncs /\ FullSyncs \subseteq Syncs /\ Nobody \notin Syncs /\ Refreshes \cap FullSyncs = {}
  BY SyncAssumption DEF SyncAssumption, Syncs

LEMMA BusySync ==
  ASSUME TypeOK, NEW s \in Syncs
  PROVE  /\ Busy(s) => sync[s] \in SyncRecords
         /\ sync[s].at \in {"reading", "known", "closing"} => Busy(s)
         /\ ~Busy(s) => sync[s] = Idle
  BY DEF TypeOK, Busy, Idle, SyncRecords

\* What a step of sync s leaves of the others.
Alone(s) == \A q \in Syncs \ {s} : sync'[q] = sync[q]

\* A step of a sync that writes no row.
ReadStep(s) ==
  /\ Alone(s) /\ sync' \in [Syncs -> {Idle} \cup SyncRecords]
  /\ UNCHANGED <<broker, stored, unguarded>> /\ lock' \in {lock, IF lock = s THEN Nobody ELSE lock}
  /\ Busy(s)
  /\ lock' # lock => ~Busy(s)'
  /\ Busy(s)' /\ sync'[s].open # Unread =>
       \/ HasOpen(s) /\ sync'[s].open = sync[s].open
       \/ sync'[s].open = {t \in Trades : broker[t] = "open"}
  /\ Busy(s)' /\ sync'[s].history # Unread =>
       \/ HasHistory(s) /\ sync'[s].history = sync[s].history
       \/ sync'[s].history = {t \in Trades : broker[t] = "closed"}
  /\ Busy(s)' /\ HasHistory(s) => sync'[s].history = sync[s].history
  /\ Busy(s)' /\ sync'[s].at # "reading" => sync'[s].open # Unread /\ sync'[s].history # Unread
  /\ Busy(s)' /\ sync'[s].at = "closing" => sync'[s].known \cap sync'[s].open = {}

LEMMA ReadKeeps ==
  ASSUME TInv, NEW s \in Syncs, ReadStep(s)
  PROVE  TInv'
<1> USE DEF TInv
<1>1. TypeOK'
  BY DEF ReadStep, TypeOK
<1>2. ASSUME NEW q \in Syncs
      PROVE  /\ HasOpen(q)' => \A t \in sync'[q].open : broker[t] # "none"
             /\ HasHistory(q)' => \A t \in sync'[q].history : broker[t] = "closed"
             /\ Busy(q)' /\ sync'[q].at # "reading" => HasOpen(q)' /\ HasHistory(q)'
             /\ Busy(q)' /\ sync'[q].at = "closing" => sync'[q].known \cap sync'[q].open = {}
  <2>1. CASE q = s
    BY <2>1 DEF ReadStep, ListsTrue, HasOpen, HasHistory
  <2>2. CASE q # s
    <3>1. sync'[q] = sync[q]
      BY <2>2 DEF ReadStep, Alone
    <3> QED BY <3>1 DEF ListsTrue, HasOpen, HasHistory, Busy
  <2> QED BY <2>1, <2>2
<1>3. ListsTrue' /\ RowsAreTrades' /\ NoTradeHidden'
  BY <1>2 DEF ReadStep, ListsTrue, RowsAreTrades, NoTradeHidden
<1>4. Apart'
  <2>1. \A q \in Syncs : Busy(q)' => Busy(q)
    BY DEF ReadStep, Alone, Busy
  <2>2. \A r \in Refreshes : Busy(r)' => lock' = r \/ unguarded
    BY <2>1, SyncSets DEF ReadStep, Apart
  <2> QED BY <2>1, <2>2 DEF Apart, ReadStep
<1>5. ASSUME ~unguarded, NEW q \in Syncs, HasOpen(q)', NEW t
      PROVE  /\ t \in Trades /\ stored[t] # "none" /\ t \notin sync'[q].open => broker[t] = "closed"
             /\ t \in sync'[q].open /\ stored[t] \in {"closed", "guessed"} => HasHistory(q)' /\ t \in sync'[q].history
  <2>2. CASE q # s
    <3>1. sync'[q] = sync[q]
      BY <2>2 DEF ReadStep, Alone
    <3> QED BY <1>5, <3>1 DEF Missing, ClosedSince, HasOpen, HasHistory, Busy
  <2>3. CASE q = s /\ HasOpen(s) /\ sync'[s].open = sync[s].open
    <3>1. t \in sync[s].open /\ stored[t] \in {"closed", "guessed"} => HasHistory(s) /\ t \in sync[s].history
      BY <1>5, <2>3 DEF ClosedSince
    <3>2. HasHistory(s) => sync[s].history # Unread
      BY DEF HasHistory
    <3>3. Busy(s)'
      BY <1>5, <2>3 DEF HasOpen
    <3> QED BY <1>5, <2>3, <3>1, <3>2, <3>3 DEF Missing, ReadStep, HasHistory
  <2>4. CASE q = s /\ sync'[s].open = {x \in Trades : broker[x] = "open"}
    BY <1>5, <2>4 DEF RowsAreTrades, NoTradeHidden, TypeOK
  <2> QED BY <1>5, <2>2, <2>3, <2>4 DEF ReadStep, HasOpen
<1>6. Missing' /\ ClosedSince'
  BY <1>5 DEF Missing, ClosedSince, ReadStep
<1> QED BY <1>1, <1>3, <1>4, <1>6

\* A sync gets a new record: the other syncs keep theirs.
LEMMA NewRecord ==
  ASSUME TypeOK, NEW s \in Syncs, NEW rec \in {Idle} \cup SyncRecords, sync' = [sync EXCEPT ![s] = rec]
  PROVE  Alone(s) /\ sync' \in [Syncs -> {Idle} \cup SyncRecords] /\ sync'[s] = rec
  BY DEF TypeOK, Alone

LEMMA KeepsReadOpen == ASSUME TInv, NEW s \in Syncs, ReadOpen(s) PROVE TInv'
<1> DEFINE seen == {t \in Trades : broker[t] = "open"}
           rec == [sync[s] EXCEPT !.open = seen]
<1>1. Busy(s) /\ sync[s] \in SyncRecords /\ sync[s].at = "reading"
  BY BusySync DEF TInv, ReadOpen
<1>2. rec \in SyncRecords /\ rec.open = seen /\ rec.at = "reading" /\ rec.history = sync[s].history
  BY <1>1 DEF SyncRecords, Lists
<1>3. sync' = [sync EXCEPT ![s] = rec]
  BY DEF ReadOpen, TInv, TypeOK
<1>4. Alone(s) /\ sync' \in [Syncs -> {Idle} \cup SyncRecords] /\ sync'[s] = rec
  BY <1>2, <1>3, NewRecord DEF TInv
<1>5. ReadStep(s)
  BY <1>1, <1>2, <1>4 DEF ReadStep, ReadOpen, Busy, HasHistory
<1> QED BY <1>5, ReadKeeps

LEMMA KeepsReadHistory == ASSUME TInv, NEW s \in Syncs, ReadHistory(s) PROVE TInv'
<1> DEFINE seen == {t \in Trades : broker[t] = "closed"}
           rec == [sync[s] EXCEPT !.history = seen]
<1>1. Busy(s) /\ sync[s] \in SyncRecords /\ sync[s].at = "reading" /\ sync[s].history = Unread
  BY BusySync DEF TInv, ReadHistory
<1>2. rec \in SyncRecords /\ rec.open = sync[s].open /\ rec.at = "reading" /\ rec.history = seen
  BY <1>1 DEF SyncRecords, Lists
<1>3. sync' = [sync EXCEPT ![s] = rec]
  BY DEF ReadHistory, TInv, TypeOK
<1>4. Alone(s) /\ sync' \in [Syncs -> {Idle} \cup SyncRecords] /\ sync'[s] = rec
  BY <1>2, <1>3, NewRecord DEF TInv
<1>5. ReadStep(s)
  BY <1>1, <1>2, <1>4 DEF ReadStep, ReadHistory, Busy, HasHistory, HasOpen
<1> QED BY <1>5, ReadKeeps

LEMMA KeepsReadStored == ASSUME TInv, NEW s \in Syncs, ReadStored(s) PROVE TInv'
<1> DEFINE known == {t \in Listed(s) : stored[t] = RowOf(s, t)}
           rec == [sync[s] EXCEPT !.at = "known", !.known = known]
<1>1. Busy(s) /\ sync[s] \in SyncRecords /\ sync[s].history # Unread /\ sync[s].open # Unread
  BY BusySync DEF TInv, ReadStored
<1>2. known \in Lists
  BY <1>1 DEF SyncRecords, Lists, Listed
<1>3. rec \in SyncRecords /\ rec.open = sync[s].open /\ rec.at = "known" /\ rec.history = sync[s].history
  BY <1>1, <1>2 DEF SyncRecords
<1>4. sync' = [sync EXCEPT ![s] = rec]
  BY DEF ReadStored, TInv, TypeOK
<1>5. Alone(s) /\ sync' \in [Syncs -> {Idle} \cup SyncRecords] /\ sync'[s] = rec
  BY <1>3, <1>4, NewRecord DEF TInv
<1>6. ReadStep(s)
  BY <1>1, <1>3, <1>5 DEF ReadStep, ReadStored, Busy, HasHistory, HasOpen
<1> QED BY <1>6, ReadKeeps

LEMMA KeepsListMissing == ASSUME TInv, NEW s \in Syncs, ListMissing(s) PROVE TInv'
<1> DEFINE missing == {t \in Trades : stored[t] = "open"} \ sync[s].open
           rec == [sync[s] EXCEPT !.at = "closing", !.known = missing]
<1>1. Busy(s) /\ sync[s] \in SyncRecords /\ HasOpen(s) /\ HasHistory(s)
  BY BusySync DEF TInv, ListMissing, ListsTrue
<1>2. missing \in Lists
  BY DEF Lists
<1>3. rec \in SyncRecords /\ rec.open = sync[s].open /\ rec.at = "closing" /\ rec.history = sync[s].history /\ rec.known = missing
  BY <1>1, <1>2 DEF SyncRecords
<1>4. sync' = [sync EXCEPT ![s] = rec]
  BY DEF ListMissing, TInv, TypeOK
<1>5. Alone(s) /\ sync' \in [Syncs -> {Idle} \cup SyncRecords] /\ sync'[s] = rec
  BY <1>3, <1>4, NewRecord DEF TInv
<1>6. ReadStep(s)
  BY <1>1, <1>3, <1>5 DEF ReadStep, ListMissing, Busy, HasHistory, HasOpen
<1> QED BY <1>6, ReadKeeps

\* A sync ends, and gives back its lock.
LEMMA KeepsEnding == ASSUME TInv, NEW s \in Syncs, Finish(s) \/ Fail(s) PROVE TInv'
<1>1. Busy(s)
  BY BusySync DEF TInv, Finish, Fail
<1>2. Alone(s) /\ sync' \in [Syncs -> {Idle} \cup SyncRecords] /\ sync'[s] = Idle
  BY NewRecord DEF TInv, Finish, Fail
<1>3. ReadStep(s)
  BY <1>1, <1>2 DEF ReadStep, Finish, Fail, Unlock, Busy, Idle
<1> QED BY <1>3, ReadKeeps

-----------------------------------------------------------------------------
LEMMA KeepsBrokerMoves == ASSUME TInv, NEW t \in Trades, BrokerMoves(t) PROVE TInv'
<1> USE DEF TInv
<1>1. \A x \in Trades : /\ broker[x] # "none" => broker'[x] # "none"
                        /\ broker[x] = "closed" => broker'[x] = "closed"
  BY DEF BrokerMoves, TypeOK
<1>2. UNCHANGED <<stored, sync, lock, unguarded>>
  BY DEF BrokerMoves
<1>3. TypeOK'
  BY <1>2 DEF TypeOK, BrokerMoves
<1>4. \A s \in Syncs : /\ HasOpen(s) => sync[s].open \subseteq Trades
                       /\ HasHistory(s) => sync[s].history \subseteq Trades
  BY BusySync DEF HasOpen, HasHistory, SyncRecords, Lists
<1>5. ListsTrue'
  BY <1>1, <1>2, <1>4 DEF ListsTrue, HasOpen, HasHistory, Busy
<1>6. RowsAreTrades' /\ NoTradeHidden' /\ Apart'
  BY <1>1, <1>2 DEF RowsAreTrades, NoTradeHidden, Apart, Busy
<1>7. Missing' /\ ClosedSince'
  BY <1>1, <1>2 DEF Missing, ClosedSince, HasOpen, HasHistory, Busy
<1> QED BY <1>3, <1>5, <1>6, <1>7

LEMMA KeepsLockLapses == ASSUME TInv, LockLapses PROVE TInv'
<1> USE DEF TInv
<1>1. UNCHANGED <<broker, stored, sync>> /\ lock' = Nobody /\ unguarded'
  BY DEF LockLapses
<1>2. TypeOK' /\ ListsTrue' /\ RowsAreTrades'
  BY <1>1 DEF LockLapses, TypeOK, ListsTrue, RowsAreTrades, HasOpen, HasHistory, Busy
<1> QED BY <1>1, <1>2 DEF Apart, Missing, ClosedSince, NoTradeHidden

LEMMA KeepsStart == ASSUME TInv, NEW s \in Syncs, RefreshTrades(s) \/ StartFull(s) PROVE TInv'
<1> USE DEF TInv
<1>1. /\ ~Busy(s) /\ UNCHANGED <<broker, stored>>
      /\ s \in Refreshes => lock = Nobody /\ lock' = s
      /\ s \in FullSyncs => lock' = lock
      /\ unguarded => unguarded'
      /\ unguarded' \in BOOLEAN /\ lock' \in Syncs \cup {Nobody}
  BY SyncSets DEF RefreshTrades, StartFull, Acquire, TypeOK
<1>2. Fresh \in SyncRecords /\ Fresh.open = Unread /\ Fresh.history = Unread /\ Fresh.at = "reading"
  BY DEF Fresh, SyncRecords, Lists
<1>3. Alone(s) /\ sync' \in [Syncs -> {Idle} \cup SyncRecords] /\ sync'[s] = Fresh
  BY <1>2, NewRecord DEF RefreshTrades, StartFull
<1>4. TypeOK'
  BY <1>1, <1>3 DEF TypeOK
<1>5. ASSUME NEW q \in Syncs
      PROVE  /\ q = s => ~HasOpen(q)' /\ ~HasHistory(q)' /\ sync'[q].at = "reading"
             /\ q # s => sync'[q] = sync[q]
  BY <1>2, <1>3 DEF Alone, HasOpen, HasHistory
<1>6. ListsTrue' /\ RowsAreTrades' /\ NoTradeHidden'
  BY <1>1, <1>5 DEF ListsTrue, RowsAreTrades, NoTradeHidden, HasOpen, HasHistory, Busy
<1>7. Missing' /\ ClosedSince'
  BY <1>1, <1>5 DEF Missing, ClosedSince, HasOpen, HasHistory, Busy
<1>8. Apart'
  <2>1. SUFFICES ASSUME ~unguarded'
                 PROVE  /\ \A q \in Syncs : Busy(q)' => q = s
                        /\ s \in Refreshes => lock' = s
    BY SyncSets DEF Apart
  <2>2. ~unguarded
    BY <1>1, <2>1
  <2>3. \A q \in Syncs : q # s => ~Busy(q)
    <3>1. CASE StartFull(s)
      BY <2>1, <3>1 DEF StartFull
    <3>2. CASE RefreshTrades(s)
      <4>1. lock = Nobody /\ \A f \in FullSyncs : ~Busy(f)
        BY <2>1, <3>2 DEF RefreshTrades, Acquire
      <4>2. \A r \in Refreshes : ~Busy(r)
        BY <2>2, <4>1, SyncSets DEF Apart
      <4> QED BY <4>1, <4>2 DEF Syncs
    <3> QED BY <3>1, <3>2
  <2> QED BY <1>1, <1>5, <2>3 DEF Busy
<1> QED BY <1>4, <1>6, <1>7, <1>8

\* A sync writes a row and keeps what it has read.
RowStep(s, t, row) ==
  /\ stored' = [stored EXCEPT ![t] = row] /\ UNCHANGED <<broker, lock, unguarded>>
  /\ Alone(s) /\ sync' \in [Syncs -> {Idle} \cup SyncRecords]
  /\ HasOpen(s) /\ HasHistory(s)
  /\ sync'[s].at = sync[s].at /\ sync'[s].open = sync[s].open /\ sync'[s].history = sync[s].history
  /\ sync[s].at = "closing" => sync'[s].known \subseteq sync[s].known
  /\ row \in {"none", "open", "closed", "guessed"}
  /\ row # "none" => broker[t] # "none"
  /\ ~unguarded /\ row \in {"closed", "guessed"} =>
       broker[t] = "closed" /\ (t \in sync[s].open => t \in sync[s].history)
  /\ ~unguarded /\ row # "none" /\ t \notin sync[s].open => broker[t] = "closed"

LEMMA RowKeeps ==
  ASSUME TInv, NEW s \in Syncs, NEW t \in Trades, NEW row, RowStep(s, t, row)
  PROVE  TInv'
<1> USE DEF TInv
<1>1. TypeOK'
  BY DEF RowStep, TypeOK
<1>2. stored'[t] = row /\ \A x \in Trades : x # t => stored'[x] = stored[x]
  BY DEF RowStep, TypeOK
<1>3. ASSUME NEW q \in Syncs
      PROVE  /\ Busy(q)' <=> Busy(q)
             /\ sync'[q].at = sync[q].at
             /\ HasOpen(q)' <=> HasOpen(q)
             /\ HasHistory(q)' <=> HasHistory(q)
             /\ sync'[q].open = sync[q].open /\ sync'[q].history = sync[q].history
             /\ sync[q].at = "closing" => sync'[q].known \subseteq sync[q].known
  BY DEF RowStep, Alone, Busy, HasOpen, HasHistory
<1>4. ListsTrue'
  BY <1>3 DEF ListsTrue, RowStep
<1>5. RowsAreTrades' /\ NoTradeHidden'
  BY <1>2 DEF RowsAreTrades, NoTradeHidden, RowStep
<1>6. Apart'
  BY <1>3, SyncSets DEF Apart, RowStep
<1>7. ASSUME ~unguarded, NEW q \in Syncs, HasOpen(q)
      PROVE  q = s
  BY <1>7 DEF Apart, RowStep, HasOpen
<1>8. Missing'
  <2>1. SUFFICES ASSUME ~unguarded, NEW x \in Trades, stored'[x] # "none", x \notin sync[s].open
                 PROVE  broker[x] = "closed"
    BY <1>3, <1>7 DEF Missing, RowStep
  <2> QED BY <1>2, <2>1 DEF Missing, RowStep
<1>9. ClosedSince'
  <2>1. HasOpen(s) /\ sync[s].open \subseteq Trades
    BY BusySync, UnreadIsNoList DEF RowStep, HasOpen, SyncRecords, Lists
  <2>2. SUFFICES ASSUME ~unguarded, NEW x \in sync[s].open, stored'[x] \in {"closed", "guessed"}
                 PROVE  x \in sync[s].history
    BY <1>3, <1>7 DEF ClosedSince, RowStep
  <2> QED BY <1>2, <2>1, <2>2 DEF ClosedSince, RowStep
<1> QED BY <1>1, <1>4, <1>5, <1>6, <1>8, <1>9

LEMMA WriteRowStep == ASSUME TInv, NEW s \in Syncs, NEW t \in Trades, WriteRow(s, t) PROVE RowStep(s, t, RowOf(s, t))
<1> DEFINE rec == [sync[s] EXCEPT !.known = @ \cup {t}]
<1>1. Busy(s) /\ sync[s] \in SyncRecords /\ HasOpen(s) /\ HasHistory(s) /\ sync[s].at = "known"
  BY BusySync DEF TInv, WriteRow, ListsTrue
<1>2. /\ rec \in SyncRecords /\ rec.open = sync[s].open /\ rec.at = "known" /\ rec.history = sync[s].history
  BY <1>1 DEF SyncRecords, Lists
<1>3. sync' = [sync EXCEPT ![s] = rec]
  BY DEF WriteRow, TInv, TypeOK
<1>4. Alone(s) /\ sync' \in [Syncs -> {Idle} \cup SyncRecords] /\ sync'[s] = rec
  BY <1>2, <1>3, NewRecord DEF TInv
<1>5. /\ t \in sync[s].open \/ t \in sync[s].history
      /\ t \in sync[s].open => broker[t] # "none"
      /\ t \in sync[s].history => broker[t] = "closed"
  BY <1>1 DEF TInv, ListsTrue, WriteRow, Listed
<1> QED BY <1>1, <1>2, <1>4, <1>5 DEF RowStep, WriteRow, RowOf

LEMMA CloseMissingStep ==
  ASSUME TInv, NEW s \in Syncs, NEW t \in Trades, CloseMissing(s, t)
  PROVE  RowStep(s, t, IF stored[t] # "open" THEN stored[t] ELSE IF t \in sync[s].history THEN "closed" ELSE "guessed")
<1> DEFINE rec == [sync[s] EXCEPT !.known = @ \ {t}]
           row == IF stored[t] # "open" THEN stored[t] ELSE IF t \in sync[s].history THEN "closed" ELSE "guessed"
<1>1. Busy(s) /\ sync[s] \in SyncRecords /\ HasOpen(s) /\ HasHistory(s) /\ sync[s].at = "closing" /\ t \notin sync[s].open
  BY BusySync DEF TInv, CloseMissing, ListsTrue
<1>2. /\ rec \in SyncRecords /\ rec.open = sync[s].open /\ rec.at = "closing" /\ rec.history = sync[s].history
      /\ rec.known \subseteq sync[s].known
  BY <1>1 DEF SyncRecords, Lists
<1>3. sync' = [sync EXCEPT ![s] = rec]
  BY DEF CloseMissing, TInv, TypeOK
<1>4. Alone(s) /\ sync' \in [Syncs -> {Idle} \cup SyncRecords] /\ sync'[s] = rec
  BY <1>2, <1>3, NewRecord DEF TInv
<1>5. /\ row \in {"none", "open", "closed", "guessed"}
      /\ row # "none" <=> stored[t] # "none"
  BY DEF TInv, TypeOK
<1>6. /\ stored[t] # "none" => broker[t] # "none"
      /\ ~unguarded /\ stored[t] # "none" => broker[t] = "closed"
  BY <1>1 DEF TInv, RowsAreTrades, Missing
<1>7. stored' = [stored EXCEPT ![t] = row] /\ UNCHANGED <<broker, lock, unguarded>>
  BY DEF CloseMissing, TInv, TypeOK
<1> HIDE DEF row
<1>8. RowStep(s, t, row)
  BY <1>1, <1>2, <1>4, <1>5, <1>6, <1>7 DEF RowStep
<1> QED BY <1>8 DEF row

LEMMA SyncInit == ASSUME Init PROVE TInv
<1>1. TypeOK
  BY DEF Init, TypeOK
<1>2. \A s \in Syncs : ~Busy(s)
  BY DEF Init, Busy, Idle
<1>3. \A t \in Trades : stored[t] = "none"
  BY DEF Init
<1>4. ListsTrue /\ Missing /\ ClosedSince
  BY <1>2 DEF ListsTrue, Missing, ClosedSince, HasOpen, HasHistory
<1>5. Apart
  BY <1>2, SyncSets DEF Apart
<1>6. RowsAreTrades /\ NoTradeHidden
  BY <1>3 DEF RowsAreTrades, NoTradeHidden
<1> QED BY <1>1, <1>4, <1>5, <1>6 DEF TInv

LEMMA SyncStep == ASSUME TInv, [Next]_vars PROVE TInv'
<1>1. CASE UNCHANGED vars
  BY <1>1 DEF vars, TInv, TypeOK, ListsTrue, RowsAreTrades, Apart, Missing, ClosedSince, NoTradeHidden, HasOpen, HasHistory, Busy
<1>2. CASE Next
  <2>1. ASSUME NEW s \in Syncs, NEW t \in Trades, WriteRow(s, t) \/ CloseMissing(s, t)
        PROVE  TInv'
    BY <2>1, WriteRowStep, CloseMissingStep, RowKeeps
  <2> QED BY <1>2, <2>1, KeepsBrokerMoves, KeepsLockLapses, KeepsStart, KeepsReadOpen, KeepsReadHistory, KeepsReadStored,
             KeepsListMissing, KeepsEnding DEF Next
<1> QED BY <1>1, <1>2

\* A row that says closed is that of a trade the broker has closed, as long as the
\* operational lock kept the syncs apart: no open trade is lost from sight,
\* although the two lists and the rows are read at different moments and a trade
\* may open or close between any two of them (persistBrokerSnapshotAndTrades).
THEOREM SyncHidesNothing == Spec => []NoTradeHidden
<1>1. TInv => NoTradeHidden
  BY DEF TInv
<1> QED BY <1>1, SyncInit, SyncStep, PTL DEF Spec

LEMMA ResultStays ==
  ASSUME TInv, [Next]_vars, ~unguarded', NEW t \in Trades, stored[t] = "closed"
  PROVE  stored'[t] = "closed"
<1>1. ASSUME NEW s \in Syncs, NEW x \in Trades, WriteRow(s, x)
      PROVE  stored'[t] = "closed"
  <2>1. Busy(s) /\ HasOpen(s) /\ stored' = [stored EXCEPT ![x] = RowOf(s, x)] /\ x \in Listed(s) /\ ~unguarded
    BY <1>1, BusySync DEF TInv, WriteRow, ListsTrue
  <2>2. CASE x = t
    <3>1. t \in sync[s].history
      BY <2>1, <2>2 DEF TInv, ClosedSince, Listed
    <3> QED BY <2>1, <2>2, <3>1 DEF RowOf, TInv, TypeOK
  <2> QED BY <2>1, <2>2 DEF TInv, TypeOK
<1>2. ASSUME NEW s \in Syncs, NEW x \in Trades, CloseMissing(s, x)
      PROVE  stored'[t] = "closed"
  BY <1>2 DEF CloseMissing, TInv, TypeOK
<1>3. CASE UNCHANGED stored
  BY <1>3
<1> QED BY <1>1, <1>2, <1>3 DEF Next, vars, BrokerMoves, LockLapses, RefreshTrades, StartFull, ReadOpen, ReadHistory,
           ReadStored, ListMissing, Finish, Fail

\* As long as the lock keeps the syncs apart, the result a trade was closed with
\* is never reopened or guessed over by a list that is older than its row.
THEOREM SyncResultsStay == Spec => ResultsStay
<1>1. TInv /\ [Next]_vars => [~unguarded' => \A t \in Trades : stored[t] = "closed" => stored'[t] = "closed"]_vars
  BY ResultStays
<1> QED BY <1>1, SyncInit, SyncStep, PTL DEF Spec, ResultsStay

-----------------------------------------------------------------------------
(* AccountPicture.                                                         *)

Working == {"reading", "sent", "acted"}
Acting == \E c \in Commands : step[c] = "acted"

\* commandChains runs one command of the account at a time.
OneCommand == \A c, d \in Commands : step[c] \in Working /\ step[d] \in Working => c = d

\* What a command sends are the levels at the broker with its own one changed.
SendsTrue == \A c \in Commands : step[c] = "sent" => sends[c] = Resolve(c, levels)

\* A read that no order has outlived shows what the broker has, unless an order
\* has acted there that has not ended here.
Current(since, saw) == since <= ended /\ (since = ended /\ ~Acting => saw = levels)
PictureTrue == picture # NoPicture => Current(picture.since, picture.saw)
ReadTrue ==
  /\ read.at = "asking" => read.since <= ended
  /\ read.at = "answered" => Current(read.since, read.saw)

LInv == /\ PictureTypeOK /\ LevelsKept
        /\ OneCommand /\ SendsTrue /\ PictureTrue /\ ReadTrue

LEMMA PictureStarts ==
  ASSUME InitPicture
  PROVE  LInv
<1>1. Flat \in Position
  BY DEF Flat, Position, Levels, Values
<1>2. read.at = "none" /\ picture = NoPicture /\ \A c \in Commands : step[c] = "queued"
  BY DEF InitPicture
<1>3. PictureTypeOK
  BY <1>1 DEF InitPicture, PictureTypeOK
<1>4. LevelsKept
  BY DEF InitPicture, LevelsKept
<1>5. OneCommand /\ SendsTrue /\ PictureTrue /\ ReadTrue
  BY <1>2 DEF OneCommand, SendsTrue, PictureTrue, ReadTrue, Working
<1> QED BY <1>3, <1>4, <1>5 DEF LInv

\* The steps of a read leave the commands and the broker alone.
LEMMA PictureReads ==
  ASSUME LInv, \/ Tick \/ ReadWatchList \/ BeginRead \/ BrokerShows
               \/ KeepPicture \/ Save \/ RefreshFails
  PROVE  LInv'
<1>0. /\ PictureTypeOK /\ PictureTrue /\ ReadTrue
      /\ OneCommand /\ SendsTrue /\ LevelsKept
  BY DEF LInv
<1>1. UNCHANGED <<levels, asked, step, sends, ended>>
  BY DEF Tick, ReadWatchList, BeginRead, BrokerShows,
         KeepPicture, Save, RefreshFails, commands
<1>2. LevelsKept' /\ OneCommand' /\ SendsTrue' /\ (Acting' <=> Acting)
  BY <1>0, <1>1 DEF LevelsKept, OneCommand, SendsTrue, Resolve, Acting
<1>3. PictureTypeOK'
  <2>1. CASE Tick \/ BeginRead \/ BrokerShows
    BY <1>0, <1>1, <2>1 DEF PictureTypeOK, Tick, BeginRead, BrokerShows,
       StartRefresh
  <2>2. CASE ReadWatchList
    BY <1>0, <1>1, <2>2 DEF PictureTypeOK, ReadWatchList
  <2>3. CASE KeepPicture
    BY <1>0, <1>1, <2>3 DEF PictureTypeOK, KeepPicture
  <2>4. CASE Save \/ RefreshFails
    <3>1. shown' \in {shown, read.saw} /\ UNCHANGED <<picture, watched>> /\ again' = FALSE
          /\ \E at \in {"queued", "none"} : read' = [read EXCEPT !.at = at]
      BY <2>4 DEF Save, RefreshFails, Release
    <3> QED BY <1>0, <1>1, <3>1 DEF PictureTypeOK
  <2> QED BY <2>1, <2>2, <2>3, <2>4
<1>4. PictureTrue'
  <2>1. CASE picture' = picture
    BY <1>0, <1>1, <1>2, <2>1 DEF PictureTrue, Current
  <2>2. CASE KeepPicture
    BY <1>0, <1>1, <1>2, <2>2 DEF PictureTrue, ReadTrue, Current, KeepPicture
  <2> QED BY <2>1, <2>2 DEF Tick, ReadWatchList, BeginRead,
             BrokerShows, Save, RefreshFails
<1>5. ReadTrue'
  <2>1. CASE BrokerShows
    BY <1>0, <1>1, <1>2, <2>1 DEF BrokerShows, ReadTrue, Current, PictureTypeOK
  <2>2. CASE BeginRead
    BY <1>0, <1>1, <2>2 DEF BeginRead, ReadTrue, PictureTypeOK
  <2>3. CASE ReadWatchList
    BY <1>0, <1>1, <1>2, <2>3 DEF ReadWatchList, ReadTrue, Current
  <2>4. CASE read'.at \in {"none", "queued", "saving"}
    BY <2>4 DEF ReadTrue
  <2> QED BY <1>0, <2>1, <2>2, <2>3, <2>4 DEF Tick, KeepPicture, Save,
             RefreshFails, StartRefresh, Release, PictureTypeOK
<1> QED BY <1>2, <1>3, <1>4, <1>5 DEF LInv

LEMMA ResolveIsPosition ==
  ASSUME NEW c \in Commands, NEW l \in Position
  PROVE  Resolve(c, l) \in Position
BY PictureAssumption DEF PictureAssumption, Resolve, Position

\* A command that has ended makes every picture and every read too old.
LEMMA OrderEnds ==
  ASSUME PictureTypeOK, ReadTrue, OrderFinished
  PROVE  /\ ended' = ended + 1 /\ ended' \in Nat /\ picture' = NoPicture
         /\ read' \in [at : {"none", "queued", "asking", "answered", "saving"}, since : Nat, saw : Position]
         /\ again' \in BOOLEAN
         /\ PictureTrue' /\ ReadTrue'
<1>1. ended' = ended + 1 /\ ended \in Nat /\ picture' = NoPicture
  BY DEF OrderFinished, PictureTypeOK
<1>2. \/ read' = [read EXCEPT !.at = "queued"] /\ again' = again
      \/ read' = read /\ again' = (again \/ watched)
  BY DEF OrderFinished, RefreshSoon, StartRefresh
<1>3. /\ read' \in [at : {"none", "queued", "asking", "answered", "saving"}, since : Nat, saw : Position]
      /\ again' \in BOOLEAN
  BY <1>2 DEF PictureTypeOK
<1>4. ReadTrue'
  <2>1. CASE read' = [read EXCEPT !.at = "queued"]
    <3>1. read'.at = "queued"
      BY <2>1 DEF PictureTypeOK
    <3> QED BY <3>1 DEF ReadTrue
  <2>2. CASE read' = read
    BY <1>1, <2>2 DEF ReadTrue, Current, PictureTypeOK
  <2> QED BY <1>2, <2>1, <2>2
<1>5. PictureTrue'
  BY <1>1 DEF PictureTrue
<1> QED BY <1>1, <1>3, <1>4, <1>5

LEMMA Goes ==
  ASSUME LInv, NEW c \in Commands, Go(c, levels),
         \A d \in Commands \ {c} : step[d] \notin Working, step[c] # "acted",
         UNCHANGED <<levels, watched, shown>>
  PROVE  LInv'
<1>0. /\ PictureTypeOK /\ PictureTrue /\ ReadTrue
      /\ OneCommand /\ SendsTrue /\ LevelsKept
  BY DEF LInv
<1>1. Resolve(c, levels) \in Position
  BY <1>0, ResolveIsPosition DEF PictureTypeOK
<1>a. ~Acting
  BY DEF Acting, Working
<1>2. CASE /\ To(c, "sent")
           /\ sends' = [sends EXCEPT ![c] = Resolve(c, levels)]
           /\ UNCHANGED <<asked, ended, picture, read, again>>
  <2>1. PictureTypeOK'
    BY <1>0, <1>1, <1>2 DEF PictureTypeOK, To
  <2>2. OneCommand' /\ ~Acting'
    BY <1>0, <1>2 DEF OneCommand, Acting, To, PictureTypeOK, Working
  <2>3. SendsTrue'
    BY <1>0, <1>2 DEF SendsTrue, To, PictureTypeOK, Resolve, Working
  <2>4. PictureTrue' /\ ReadTrue' /\ LevelsKept'
    BY <1>0, <1>2, <1>a, <2>2 DEF PictureTrue, ReadTrue, Current, LevelsKept
  <2> QED BY <2>1, <2>2, <2>3, <2>4 DEF LInv
<1>3. CASE /\ Resolve(c, levels) = levels
           /\ To(c, "ended")
           /\ asked' = [asked EXCEPT ![Level[c]] = Wants[c]]
           /\ OrderFinished
           /\ UNCHANGED sends
  <2>1. asked' = levels
    BY <1>0, <1>3 DEF LevelsKept, Resolve
  <2>2. PictureTypeOK' /\ PictureTrue' /\ ReadTrue'
    BY <1>0, <1>3, <2>1, OrderEnds DEF PictureTypeOK, To
  <2>3. OneCommand'
    BY <1>0, <1>3 DEF OneCommand, To, PictureTypeOK, Working
  <2>4. SendsTrue'
    BY <1>0, <1>3 DEF SendsTrue, To, PictureTypeOK, Resolve
  <2> QED BY <2>1, <2>2, <2>3, <2>4 DEF LInv, LevelsKept
<1> QED BY <1>2, <1>3 DEF Go

LEMMA PictureCommands ==
  ASSUME ~LateOrders, LInv, NEW c \in Commands,
         Take(c) \/ ReadLevels(c) \/ BrokerActs(c) \/ End(c)
  PROVE  LInv'
<1>0. /\ LInv /\ PictureTypeOK /\ PictureTrue /\ ReadTrue
      /\ OneCommand /\ SendsTrue /\ LevelsKept
  BY DEF LInv
<1>1. CASE Take(c)
  <2>1. /\ \A d \in Commands : step[d] \notin Working
        /\ step[c] = "queued" /\ UNCHANGED <<levels, watched, shown>>
    BY <1>1 DEF Take, Free, Working
  <2>2. ASSUME Recent, Go(c, picture.saw)
        PROVE  LInv'
    <3>1. picture.saw = levels
      <4>1. picture # NoPicture /\ picture.since >= ended
        BY <2>2 DEF Recent
      <4>2. picture \in [of : {"account"}, since : Nat, saw : Position] /\ ended \in Nat
        BY <1>0, <4>1 DEF PictureTypeOK
      <4>3. ~Acting
        BY <2>1 DEF Acting, Working
      <4>4. picture.since <= ended /\ (picture.since = ended => picture.saw = levels)
        BY <1>0, <4>1, <4>3 DEF PictureTrue, Current
      <4>5. picture.since \in Nat
        BY <4>2
      <4> QED BY <4>1, <4>2, <4>4, <4>5
    <3>2. Go(c, levels)
      BY <2>2, <3>1
    <3> QED BY <1>0, <2>1, <3>2, Goes
  <2>3. ASSUME To(c, "reading"), UNCHANGED <<asked, sends, ended, picture, read, again>>
        PROVE  LInv'
    <3>1. PictureTypeOK'
      BY <1>0, <2>1, <2>3 DEF PictureTypeOK, To
    <3>2. OneCommand' /\ (Acting' <=> Acting)
      BY <1>0, <2>1, <2>3 DEF OneCommand, Acting, To, PictureTypeOK, Working
    <3>3. SendsTrue'
      BY <1>0, <2>1, <2>3 DEF SendsTrue, To, PictureTypeOK, Resolve
    <3>4. PictureTrue' /\ ReadTrue' /\ LevelsKept'
      BY <1>0, <2>1, <2>3, <3>2 DEF PictureTrue, ReadTrue, Current, LevelsKept
    <3> QED BY <3>1, <3>2, <3>3, <3>4 DEF LInv
  <2> QED BY <1>1, <2>2, <2>3 DEF Take
<1>2. CASE ReadLevels(c)
  <2>1. step[c] = "reading" /\ Go(c, levels) /\ UNCHANGED <<levels, watched, shown>>
    BY <1>2 DEF ReadLevels
  <2>2. \A d \in Commands \ {c} : step[d] \notin Working
    BY <1>0, <2>1 DEF OneCommand, Working
  <2> QED BY <1>0, <2>1, <2>2, Goes
<1>3. CASE BrokerActs(c)
  <2>1. /\ step[c] = "sent" /\ step' = [step EXCEPT ![c] = "acted"]
        /\ levels' = sends[c] /\ asked' = [asked EXCEPT ![Level[c]] = Wants[c]]
        /\ UNCHANGED <<sends, ended, picture, watched, read, again, shown>>
    BY <1>3 DEF BrokerActs, To
  <2>2. levels' = asked'
    BY <1>0, <2>1 DEF SendsTrue, Resolve, LevelsKept
  <2>3. PictureTypeOK'
    <3>1. sends[c] \in Position
      BY <1>0 DEF PictureTypeOK
    <3>2. levels' \in Position /\ asked' \in Position
      BY <2>1, <2>2, <3>1
    <3> QED BY <1>0, <2>1, <3>2 DEF PictureTypeOK
  <2>4. step'[c] = "acted" /\ \A d \in Commands \ {c} : step'[d] = step[d] /\ step[d] \notin Working
    BY <1>0, <2>1 DEF OneCommand, Working, PictureTypeOK
  <2>5. Acting' /\ OneCommand' /\ SendsTrue'
    BY <2>4 DEF Acting, OneCommand, SendsTrue, Working
  <2>6. PictureTrue' /\ ReadTrue'
    BY <1>0, <2>1, <2>5 DEF PictureTrue, ReadTrue, Current
  <2> QED BY <2>2, <2>3, <2>5, <2>6 DEF LInv, LevelsKept
<1>4. CASE End(c)
  <2>1. /\ OrderFinished /\ UNCHANGED <<levels, asked, sends, watched, shown>>
        /\ \E next \in {"ended", "timedOut"} : step' = [step EXCEPT ![c] = next]
    BY <1>4 DEF End, To
  <2>2. PictureTypeOK' /\ PictureTrue' /\ ReadTrue'
    BY <1>0, <2>1, OrderEnds DEF PictureTypeOK
  <2>3. OneCommand' /\ SendsTrue'
    BY <1>0, <2>1 DEF OneCommand, SendsTrue, Resolve, PictureTypeOK, Working
  <2> QED BY <1>0, <2>1, <2>2, <2>3 DEF LInv, LevelsKept
<1> QED BY <1>1, <1>2, <1>3, <1>4

\* A modification changes the level it was asked to change and no other, with
\* any number of commands, unless an order that timed out may act afterwards.
THEOREM PictureKeepsLevels ==
  ASSUME ~LateOrders
  PROVE  PictureSpec => []LevelsKept
<1>1. LInv /\ [NextPicture]_pictureVars => LInv'
  <2> SUFFICES ASSUME LInv, [NextPicture]_pictureVars PROVE LInv'
    OBVIOUS
  <2>1. CASE UNCHANGED pictureVars
    BY <2>1 DEF pictureVars, commands, LInv, PictureTypeOK, LevelsKept, OneCommand,
       SendsTrue, PictureTrue, ReadTrue, Current, Acting, Resolve
  <2>2. CASE NextPicture
    BY <2>2, PictureReads, PictureCommands DEF NextPicture
  <2> QED BY <2>1, <2>2
<1>2. LInv => LevelsKept
  BY DEF LInv
<1> QED BY <1>1, <1>2, PictureStarts, PTL DEF PictureSpec

-----------------------------------------------------------------------------
(* AccountStatus.                                                          *)

SyncStates == [found : Statuses \cup {"nothing"}, at : {"idle", "loaded", "asking"}]
Readings == [found : Statuses, byRisk : BOOLEAN, restrict : BOOLEAN]

StatusTypes ==
  /\ status \in Statuses /\ byRisk \in BOOLEAN /\ held \in BOOLEAN
  /\ syncing \in [AccountSyncs -> SyncStates]
  /\ eval \in [Sources -> SUBSET Readings]
  /\ operator \subseteq Statuses

\* While a restriction of the operator is held, whoever has read the row has
\* read it as restricted, and not by the engine: nobody has a reason to lift it.
Holds ==
  held =>
    /\ status = "RESTRICTED" /\ ~byRisk
    /\ \A s \in AccountSyncs : syncing[s] = NotSyncing \/ syncing[s].found = "RESTRICTED"
    /\ \A e \in Sources : \A r \in eval[e] : r.found = "RESTRICTED" /\ ~r.byRisk

StatusInv == StatusTypes /\ Holds

LEMMA StatusStarts == ASSUME InitStatus PROVE StatusInv
<1>1. NotSyncing \in SyncStates
  BY DEF NotSyncing, SyncStates
<1>2. Holds
  BY DEF InitStatus, Holds
<1> QED BY <1>1, <1>2, StatusAssumption DEF StatusAssumption, InitStatus, StatusInv, StatusTypes, Statuses, Live

\* A step of a sync does not lift what is held.
LEMMA StatusSyncs ==
  ASSUME StatusInv, NEW s \in AccountSyncs,
         Load(s) \/ Announce(s) \/ SyncFinishes(s) \/ SyncFails(s)
  PROVE  StatusInv' /\ (held => status' # "CONNECTED")
<1>0. StatusTypes /\ Holds
  BY DEF StatusInv
<1>1. /\ UNCHANGED <<byRisk, eval, operator>> /\ held' \in BOOLEAN
      /\ held' => held /\ status' = "RESTRICTED"
  BY <1>0 DEF Load, Announce, SyncFinishes, SyncFails, Holding, StatusTypes
<1>2. \E x \in SyncStates :
        /\ syncing' = [syncing EXCEPT ![s] = x]
        /\ x = NotSyncing \/ x.found = status \/ (x.found = syncing[s].found /\ syncing[s].at # "idle")
  <2>1. NotSyncing \in SyncStates
    BY DEF NotSyncing, SyncStates
  <2>2. [found |-> status, at |-> "loaded"] \in SyncStates
    BY <1>0 DEF SyncStates, StatusTypes
  <2>3. LET x == [syncing[s] EXCEPT !.at = "asking"] IN x \in SyncStates /\ x.found = syncing[s].found
    BY <1>0 DEF SyncStates, StatusTypes
  <2>4. CASE Load(s)
    BY <2>2, <2>4 DEF Load
  <2>5. CASE Announce(s)
    <3>1. syncing' = [syncing EXCEPT ![s] = [syncing[s] EXCEPT !.at = "asking"]] /\ syncing[s].at # "idle"
      BY <1>0, <2>5 DEF Announce, StatusTypes
    <3> QED BY <2>3, <3>1
  <2>6. CASE SyncFinishes(s) \/ SyncFails(s)
    BY <2>1, <2>6 DEF SyncFinishes, SyncFails
  <2> QED BY <2>4, <2>5, <2>6
<1>3. status' \in Statuses
  <2>1. status' \in {status, "SYNCING", "RESTRICTED", "CONNECTED", "DISCONNECTED"}
    BY DEF Load, Announce, SyncFinishes, SyncFails
  <2> QED BY <1>0, <2>1 DEF StatusTypes, Statuses, Live
<1>4. StatusTypes'
  BY <1>0, <1>1, <1>2, <1>3 DEF StatusTypes
<1>5. held /\ syncing[s].at # "idle" => syncing[s].found = "RESTRICTED"
  BY <1>0 DEF Holds, NotSyncing
<1>6. held => status' # "CONNECTED"
  BY <1>0, <1>5 DEF Load, Announce, SyncFinishes, SyncFails, Holds
<1>7. Holds'
  <2> SUFFICES ASSUME held' PROVE Holds'
    BY DEF Holds
  <2>1. held /\ status' = "RESTRICTED" /\ status = "RESTRICTED" /\ ~byRisk'
    BY <1>0, <1>1 DEF Holds
  <2>2. \A q \in AccountSyncs : syncing'[q] = NotSyncing \/ syncing'[q].found = "RESTRICTED"
    BY <1>0, <1>2, <1>5, <2>1 DEF Holds, StatusTypes
  <2>3. \A e \in Sources : \A r \in eval'[e] : r.found = "RESTRICTED" /\ ~r.byRisk
    BY <1>0, <1>1, <2>1 DEF Holds
  <2> QED BY <2>1, <2>2, <2>3 DEF Holds
<1> QED BY <1>4, <1>6, <1>7 DEF StatusInv

\* Nor does the engine.
LEMMA StatusEngine ==
  ASSUME StatusInv, NEW e \in Sources, Evaluate(e) \/ Enforce(e)
  PROVE  StatusInv' /\ (held => status' # "CONNECTED")
<1>0. StatusTypes /\ Holds
  BY DEF StatusInv
<1>1. /\ UNCHANGED <<syncing, operator>> /\ held' \in BOOLEAN
      /\ held' => held /\ status' = "RESTRICTED"
  BY <1>0 DEF Evaluate, Enforce, Holding, StatusTypes
<1>2. CASE Evaluate(e)
  <2> DEFINE reading == [found |-> status, byRisk |-> byRisk, restrict |-> (Sees(e) # {})]
  <2>1. reading \in Readings
    BY <1>0 DEF Readings, StatusTypes
  <2>2. eval' = [eval EXCEPT ![e] = {reading}] /\ status' = status /\ byRisk' = byRisk
    BY <1>2 DEF Evaluate
  <2>3. reading.found = status /\ reading.byRisk = byRisk
    OBVIOUS
  <2> HIDE DEF reading
  <2>4. StatusTypes'
    BY <1>0, <1>1, <2>1, <2>2 DEF StatusTypes
  <2>5. Holds'
    BY <1>0, <1>1, <2>2, <2>3 DEF Holds, StatusTypes
  <2>6. held => status' # "CONNECTED"
    BY <1>0, <2>2 DEF Holds
  <2> QED BY <2>4, <2>5, <2>6 DEF StatusInv
<1>3. CASE Enforce(e)
  <2>1. PICK r \in eval[e] :
           CASE Restricts(r) -> status' = "RESTRICTED" /\ byRisk' = TRUE
             [] Lifts(r)     -> status' = "CONNECTED" /\ byRisk' = FALSE
             [] OTHER               -> UNCHANGED <<status, byRisk>>
    BY <1>3 DEF Enforce
  <2>2. eval' = [eval EXCEPT ![e] = {}]
    BY <1>3 DEF Enforce
  <2>3. \/ status' = status /\ byRisk' = byRisk
        \/ Restricts(r) /\ status' = "RESTRICTED" /\ byRisk' = TRUE
        \/ Lifts(r) /\ status' = "CONNECTED" /\ byRisk' = FALSE
    BY <2>1 DEF Restricts, Lifts
  <2>4. StatusTypes'
    BY <1>0, <1>1, <2>2, <2>3 DEF StatusTypes, Statuses, Live
  <2>5. held => status' = status /\ byRisk' = byRisk
    BY <1>0, <2>3 DEF Holds, Restricts, Lifts
  <2>6. Holds'
    BY <1>0, <1>1, <2>2, <2>5 DEF Holds, StatusTypes
  <2>7. held => status' # "CONNECTED"
    BY <1>0, <2>5 DEF Holds
  <2> QED BY <2>4, <2>6, <2>7 DEF StatusInv
<1> QED BY <1>2, <1>3

LEMMA StatusOthers ==
  ASSUME StatusInv, Moves \/ Operator \/ Expire
  PROVE  StatusInv' /\ (held /\ operator' = operator => status' # "CONNECTED")
<1>0. StatusTypes /\ Holds
  BY DEF StatusInv
<1>1. CASE Moves \/ Expire
  <2>1. /\ UNCHANGED <<byRisk, syncing, eval, operator>> /\ held' \in BOOLEAN
        /\ held' => held /\ status' = "RESTRICTED"
    BY <1>0, <1>1 DEF Moves, Expire, Holding, StatusTypes
  <2>2. status' = status \/ status' \in {"INACTIVE", "SYNCING"}
    BY <1>1 DEF Moves, Expire
  <2>3. StatusTypes'
    BY <1>0, <2>1, <2>2 DEF StatusTypes, Statuses
  <2>4. Holds' /\ (held => status' # "CONNECTED")
    BY <1>0, <2>1, <2>2 DEF Holds
  <2> QED BY <2>3, <2>4 DEF StatusInv
<1>2. CASE Operator
  <2>1. PICK to \in operator :
          /\ status' = to
          /\ operator' = operator \ {to}
          /\ held' = (to = "RESTRICTED" /\ Quiet)
    BY <1>2 DEF Operator
  <2>2. UNCHANGED <<byRisk, breached, syncing, eval>>
    BY <1>2 DEF Operator
  <2>3. StatusTypes' /\ operator' # operator
    BY <1>0, <2>1, <2>2 DEF StatusTypes
  <2>4. Holds'
    BY <1>0, <2>1, <2>2 DEF Holds, Quiet
  <2> QED BY <2>3, <2>4 DEF StatusInv
<1> QED BY <1>1, <1>2

\* A restriction an operator set in a quiet moment is not turned into CONNECTED
\* by any number of syncs and by either evaluation.
THEOREM StatusOperatorHolds == StatusSpec => OperatorHolds
<1>1. StatusInv /\ [NextStatus]_statusVars =>
        StatusInv' /\ [held /\ operator' = operator => status' # "CONNECTED"]_statusVars
  <2> SUFFICES ASSUME StatusInv, [NextStatus]_statusVars
               PROVE  StatusInv' /\ [held /\ operator' = operator => status' # "CONNECTED"]_statusVars
    OBVIOUS
  <2>1. CASE UNCHANGED statusVars
    BY <2>1 DEF statusVars, StatusInv, StatusTypes, Holds
  <2>2. CASE NextStatus
    BY <2>2, StatusSyncs, StatusEngine, StatusOthers DEF NextStatus
  <2> QED BY <2>1, <2>2
<1> QED BY <1>1, StatusStarts, PTL DEF StatusSpec, OperatorHolds

-----------------------------------------------------------------------------
(* CopyAccess.                                                             *)

EntitlementRows == [status : {"ACTIVE", "EXPIRED", "CANCELLED"}, until : Nat, linked : BOOLEAN]

AccessCalls == [at : {"idle", "order", "entitlement", "grant", "follower", "link", "close", "revoke"},
                read : {"none", "some", "ACTIVE", "EXPIRED", "CANCELLED"}]

\* Where a call can be.
CallPlaces(c) ==
  IF c \in Confirming THEN {"idle", "order", "entitlement", "grant", "follower", "link"}
  ELSE IF c \in Revoking THEN {"idle", "close", "revoke"}
  ELSE {"idle", "follower"}

CallsKnown ==
  /\ call \in [Calls -> AccessCalls]
  /\ \A c \in Calls : /\ call[c].at \in CallPlaces(c)
                      /\ call[c].at = "grant" /\ call[c].read # "none" => rows # <<>>

\* A row without the subscription's id is of this month; another one that does not
\* run as long as what is paid at Stripe waits for the renewal that is on its way.
GoodRow(r) ==
  /\ stripe.is # "gone" => r.status # "CANCELLED"
  /\ ~missed /\ stripe.is = "live" =>
       /\ r.linked \/ (r.status = "ACTIVE" /\ r.until = now + 1)
       /\ \/ now >= stripe.until
          \/ r.status = "ACTIVE" /\ r.until >= stripe.until
          \/ "invoice" \in events /\ r.linked

GoodRows == \A i \in DOMAIN rows : GoodRow(rows[i])

\* A row without the subscription's id is about to get it.
Linking ==
  ~missed /\ stripe.is = "live" /\ (\E i \in DOMAIN rows : ~rows[i].linked) =>
    \E c \in Confirming : call[c].at \in {"follower", "link"}

Provisioning == call["webhook"].at \in {"order", "entitlement", "grant"}

AccessInv ==
  /\ now \in Nat /\ stripe \in [is : {"open", "live", "gone"}, until : Nat]
  /\ rows \in Seq(EntitlementRows) /\ missed \in BOOLEAN
  /\ CallsKnown
  /\ stripe.is = "live" => now <= stripe.until /\ stripe.until <= now + 1
  /\ stripe.is = "open" => events = {} /\ rows = <<>> /\ \A c \in Confirming : At(c, "idle")
  /\ stripe.is # "gone" => "deleted" \notin events /\ At("deleted", "idle")
  /\ GoodRows
  /\ Linking
  /\ ~missed /\ stripe.is # "open" /\ rows = <<>> => "completed" \in events \/ Provisioning

LEMMA CallGoes ==
  ASSUME CallsKnown, NEW c \in Calls, NEW at, NEW got, [at |-> at, read |-> got] \in AccessCalls,
         call' = [call EXCEPT ![c] = [at |-> at, read |-> got]]
  PROVE  /\ call' \in [Calls -> AccessCalls]
         /\ call'[c].at = at /\ call'[c].read = got
         /\ \A d \in Calls \ {c} : call'[d] = call[d]
  BY DEF CallsKnown

\* A call goes on, or ends, and leaves the rows as they are.
LEMMA AccessGoes ==
  ASSUME AccessInv, NEW c \in Calls, NEW at \in CallPlaces(c), NEW got \in {"none", "some", "ACTIVE", "EXPIRED", "CANCELLED"},
         call' = [call EXCEPT ![c] = [at |-> at, read |-> got]],
         UNCHANGED <<now, stripe, rows>>, missed' \in BOOLEAN, missed => missed',
         events' \subseteq events, "invoice" \in events => "invoice" \in events',
         at = "grant" /\ got # "none" => rows # <<>>,
         stripe.is = "open" /\ c \in Confirming => at = "idle",
         stripe.is # "gone" /\ c = "deleted" => at = "idle",
         ~missed' /\ c \in Confirming /\ call[c].at \in {"follower", "link"} => at \in {"follower", "link"},
         ~missed' /\ "completed" \in events => "completed" \in events' \/ Provisioning',
         ~missed' /\ rows = <<>> /\ c = "webhook" /\ Provisioning => at \in {"order", "entitlement", "grant"}
  PROVE  AccessInv'
<1>1. [at |-> at, read |-> got] \in AccessCalls /\ "webhook" \in Calls /\ "deleted" \in Calls /\ Confirming \subseteq Calls
  <2>1. at \in {"idle", "order", "entitlement", "grant", "follower", "link", "close", "revoke"}
    BY DEF CallPlaces
  <2>2. [at |-> at, read |-> got] \in AccessCalls
    BY <2>1 DEF AccessCalls
  <2> QED BY <2>2 DEF Calls, Confirming, Revoking
<1>2. /\ call' \in [Calls -> AccessCalls]
      /\ call'[c].at = at /\ call'[c].read = got
      /\ \A d \in Calls \ {c} : call'[d] = call[d]
  BY <1>1, CallGoes DEF AccessInv
<1>3. CallsKnown'
  <2>1. \A d \in Calls : CallPlaces(d)' = CallPlaces(d)
    BY DEF CallPlaces
  <2> QED BY <1>2, <2>1 DEF AccessInv, CallsKnown
<1>4. GoodRows'
  BY DEF AccessInv, GoodRows, GoodRow
<1>5. Linking'
  BY <1>1, <1>2 DEF AccessInv, Linking
<1>6. ~missed' /\ stripe.is # "open" /\ rows = <<>> => "completed" \in events' \/ Provisioning'
  BY <1>1, <1>2 DEF AccessInv, Provisioning
<1>7. stripe.is = "open" => \A d \in Confirming : At(d, "idle")'
  BY <1>1, <1>2 DEF AccessInv, At
<1>8. stripe.is # "gone" => At("deleted", "idle")'
  BY <1>1, <1>2 DEF AccessInv, At
<1> QED BY <1>3, <1>4, <1>5, <1>6, <1>7, <1>8 DEF AccessInv

\* An update of the rows leaves as many.
LEMMA RowsUpdated ==
  ASSUME rows \in Seq(EntitlementRows), NEW R \in [DOMAIN rows -> EntitlementRows], rows' = R
  PROVE  /\ rows' \in Seq(EntitlementRows) /\ DOMAIN rows' = DOMAIN rows
         /\ rows' = <<>> <=> rows = <<>>
<1>1. DOMAIN rows = 1..Len(rows) /\ Len(rows) \in Nat
  OBVIOUS
<1>2. R \in Seq(EntitlementRows) /\ DOMAIN R = DOMAIN rows
  BY <1>1
<1> QED BY <1>1, <1>2

LEMMA WhoCalls ==
  ASSUME CallsKnown, NEW c \in Calls
  PROVE  /\ call[c] \in AccessCalls /\ call[c].at \in CallPlaces(c)
         /\ call[c].at \in {"order", "entitlement", "grant", "link"} => c \in Confirming
         /\ call[c].at \in {"close", "revoke"} => c \in Revoking
         /\ Confirming \cap Revoking = {} /\ Confirming \subseteq Calls /\ Revoking \subseteq Calls
         /\ "webhook" \in Confirming /\ "deleted" \in Revoking
  BY DEF CallsKnown, CallPlaces, Calls, Confirming, Revoking

LEMMA AccessPlain ==
  ASSUME AccessInv, NEW c \in Calls, MarkPaid(c) \/ ReadRow(c) \/ Activate(c) \/ Revoke(c) \/ Break(c)
  PROVE  AccessInv'
<1>1. /\ UNCHANGED <<now, stripe, rows, events>> /\ missed' \in BOOLEAN /\ (missed => missed')
  BY DEF AccessInv, MarkPaid, ReadRow, Activate, Revoke, Break, Fails, failures, world, access
<1>2. /\ ~At(c, "idle")
      /\ stripe.is = "open" => c \notin Confirming
      /\ stripe.is # "gone" => c # "deleted"
  BY DEF AccessInv, MarkPaid, ReadRow, Activate, Revoke, Break, At
<1>3. CASE MarkPaid(c)
  <2>1. c \in Confirming /\ call[c].at = "order" /\ "entitlement" \in CallPlaces(c)
    BY <1>3, WhoCalls DEF AccessInv, MarkPaid, At, CallPlaces
  <2>2. call' = [call EXCEPT ![c] = [at |-> "entitlement", read |-> "none"]]
    BY <1>3 DEF MarkPaid, Goto
  <2> QED BY <1>1, <1>2, <2>1, <2>2, AccessGoes
<1>4. CASE ReadRow(c)
  <2> DEFINE got == IF Len(rows) = 1 THEN rows[1].status ELSE "none"
  <2>1. c \in Confirming /\ call[c].at = "entitlement" /\ "grant" \in CallPlaces(c)
    BY <1>4, WhoCalls DEF AccessInv, ReadRow, At, CallPlaces
  <2>2. call' = [call EXCEPT ![c] = [at |-> "grant", read |-> got]]
    BY <1>4 DEF ReadRow, Goto
  <2>3. got \in {"none", "some", "ACTIVE", "EXPIRED", "CANCELLED"} /\ (got # "none" => rows # <<>>)
    <3>1. CASE Len(rows) = 1
      <4>1. rows \in Seq(EntitlementRows)
        BY DEF AccessInv
      <4>2. rows[1] \in EntitlementRows /\ rows # <<>>
        BY <3>1, <4>1
      <4> QED BY <3>1, <4>2 DEF EntitlementRows
    <3> QED BY <3>1
  <2> HIDE DEF got
  <2> QED BY <1>1, <1>2, <2>1, <2>2, <2>3, AccessGoes
<1>5. CASE Activate(c) /\ c \in Confirming
  <2>1. call[c].at = "follower" /\ "link" \in CallPlaces(c)
    BY <1>5 DEF Activate, At, CallPlaces
  <2>2. call' = [call EXCEPT ![c] = [at |-> "link", read |-> "none"]]
    BY <1>5 DEF Activate, Goto
  <2> QED BY <1>1, <1>2, <1>5, <2>1, <2>2, AccessGoes DEF Provisioning
<1>6. CASE (Activate(c) /\ c \notin Confirming) \/ Revoke(c) \/ Break(c)
  <2>1. call' = [call EXCEPT ![c] = [at |-> "idle", read |-> "none"]]
    BY <1>6 DEF Activate, Revoke, Break, Leave, NoCall
  <2>2. "idle" \in CallPlaces(c) /\ "webhook" \in Confirming
    BY DEF CallPlaces, Confirming
  <2>3. c \notin Confirming \/ missed'
    BY <1>6, WhoCalls DEF AccessInv, Revoke, Break, Fails, At
  <2> QED BY <1>1, <1>2, <2>1, <2>2, <2>3, AccessGoes
<1> QED BY <1>3, <1>4, <1>5, <1>6

\* A call that begins.
LEMMA AccessBegins ==
  ASSUME AccessInv,
         Repair \/ Follow \/ (\E c \in Confirming : Confirm(c)) \/ (\E c \in Revoking : List(c))
  PROVE  AccessInv'
<1>1. UNCHANGED <<now, stripe, rows, missed>> /\ missed \in BOOLEAN
  BY DEF AccessInv, Repair, Follow, Confirm, List, failures, world, access
<1>2. CASE Repair \/ Follow
  <2>1. PICK c \in {"repair", "follow"} : /\ call' = [call EXCEPT ![c] = [at |-> "follower", read |-> "none"]]
                                          /\ UNCHANGED events
    BY <1>2 DEF Repair, Follow, Goto
  <2>2. c \in Calls /\ c \notin Confirming /\ c # "deleted" /\ c # "webhook" /\ "follower" \in CallPlaces(c)
    BY DEF Calls, Confirming, Revoking, CallPlaces
  <2> QED BY <1>1, <2>1, <2>2, AccessGoes
<1>3. ASSUME NEW c \in Confirming, Confirm(c)
      PROVE  AccessInv'
  <2>1. /\ c \in Calls /\ c # "deleted" /\ "order" \in CallPlaces(c) /\ call[c].at = "idle"
    BY <1>3 DEF Calls, Confirming, Revoking, CallPlaces, Confirm, At
  <2>2. call' = [call EXCEPT ![c] = [at |-> "order", read |-> "none"]]
    BY <1>3 DEF Confirm, Goto
  <2>3. /\ events' \subseteq events /\ ("invoice" \in events => "invoice" \in events')
        /\ "completed" \in events => "completed" \in events' \/ c = "webhook"
        /\ stripe.is # "open"
    BY <1>3 DEF Confirm, AccessInv
  <2>4. c = "webhook" => Provisioning'
    BY <2>1, <2>2 DEF Provisioning, AccessInv, CallsKnown
  <2> QED BY <1>1, <2>1, <2>2, <2>3, <2>4, AccessGoes
<1>4. ASSUME NEW c \in Revoking, List(c)
      PROVE  AccessInv'
  <2>1. /\ c \in Calls /\ c \notin Confirming /\ c # "webhook" /\ "close" \in CallPlaces(c)
    BY <1>4 DEF Calls, Confirming, Revoking, CallPlaces
  <2>2. PICK got \in {"some", "none"} : call' = [call EXCEPT ![c] = [at |-> "close", read |-> got]]
    BY <1>4 DEF List, Goto
  <2>3. /\ events' \subseteq events /\ ("invoice" \in events => "invoice" \in events')
        /\ "completed" \in events => "completed" \in events'
        /\ stripe.is # "gone" => c # "deleted"
    BY <1>4 DEF List, AccessInv
  <2> QED BY <1>1, <2>1, <2>2, <2>3, AccessGoes
<1> QED BY <1>2, <1>3, <1>4

-----------------------------------------------------------------------------
\* What is written on the rows: by a link, by the renewal, by the expiry of those
\* that are stale, and by the cancellation.
LEMMA AccessLink ==
  ASSUME AccessInv, NEW c \in Calls, Link(c)
  PROVE  AccessInv'
<1> DEFINE R == [i \in DOMAIN rows |-> [rows[i] EXCEPT !.linked = TRUE]]
<1>1. /\ UNCHANGED <<now, stripe, events, missed>> /\ rows \in Seq(EntitlementRows) /\ rows' = R
      /\ call[c].at = "link" /\ c \in Confirming
      /\ call' = [call EXCEPT ![c] = [at |-> "idle", read |-> "none"]]
  BY WhoCalls DEF AccessInv, Link, OnRows, Leave, NoCall, At, failures, world
<1>2. ASSUME NEW i \in DOMAIN rows
      PROVE  /\ R[i] \in EntitlementRows /\ R[i].status = rows[i].status /\ R[i].until = rows[i].until
             /\ R[i].linked
  <2>1. rows[i] \in EntitlementRows
    BY <1>1
  <2> QED BY <2>1 DEF EntitlementRows
<1>3. R \in [DOMAIN rows -> EntitlementRows]
  BY <1>2
<1>4. \A i \in DOMAIN rows : R[i].status = rows[i].status /\ R[i].until = rows[i].until /\ R[i].linked
  BY <1>2
<1> HIDE DEF R
<1>5. rows' \in Seq(EntitlementRows) /\ DOMAIN rows' = DOMAIN rows /\ (rows' = <<>> <=> rows = <<>>)
  BY <1>1, <1>3, RowsUpdated
<1>6. \A i \in DOMAIN rows' : rows'[i].linked
  BY <1>1, <1>4, <1>5
<1>7. GoodRows'
  BY <1>1, <1>4, <1>5 DEF AccessInv, GoodRows, GoodRow
<1>8. /\ call' \in [Calls -> AccessCalls] /\ call'[c].at = "idle" /\ call'[c].read = "none"
      /\ \A d \in Calls \ {c} : call'[d] = call[d]
  <2>1. [at |-> "idle", read |-> "none"] \in AccessCalls
    BY DEF AccessCalls
  <2> QED BY <1>1, <2>1, CallGoes DEF AccessInv
<1>9. CallsKnown'
  <2>1. "idle" \in CallPlaces(c) /\ \A d \in Calls : CallPlaces(d)' = CallPlaces(d)
    BY DEF CallPlaces
  <2> QED BY <1>5, <1>8, <2>1 DEF AccessInv, CallsKnown
<1>10. Linking'
  BY <1>6 DEF Linking
<1>11. Provisioning => Provisioning'
  BY <1>1, <1>8 DEF Provisioning, Calls, Confirming
<1>12. /\ stripe.is = "open" => \A d \in Confirming : At(d, "idle")'
       /\ stripe.is # "gone" => At("deleted", "idle")'
  BY <1>1, <1>8 DEF AccessInv, At, Calls, Confirming, Revoking
<1> QED BY <1>1, <1>5, <1>7, <1>9, <1>10, <1>11, <1>12 DEF AccessInv

LEMMA AccessClose ==
  ASSUME AccessInv, NEW c \in Calls, Close(c)
  PROVE  AccessInv'
<1> DEFINE R == IF c = "expiry"
                  THEN [i \in DOMAIN rows |-> IF Stale(rows[i])
                          THEN [rows[i] EXCEPT !.status = "EXPIRED"] ELSE rows[i]]
                  ELSE [i \in DOMAIN rows |-> IF Cancelled(rows[i])
                          THEN [rows[i] EXCEPT !.status = "CANCELLED"] ELSE rows[i]]
<1>1. /\ UNCHANGED <<now, stripe, events, missed>> /\ rows \in Seq(EntitlementRows)
      /\ now \in Nat /\ stripe.until \in Nat
      /\ call[c].at = "close" /\ c \in Revoking /\ c \notin Confirming
  BY WhoCalls DEF AccessInv, Close, At, failures, world
<1>2. rows' = R
  BY DEF Close, OnRows, Expires
<1>3. c = "expiry" \/ stripe.is = "gone"
  BY <1>1 DEF AccessInv, Revoking, At
<1>4. ASSUME NEW i \in DOMAIN rows
      PROVE  /\ R[i] \in EntitlementRows /\ R[i].until = rows[i].until /\ R[i].linked = rows[i].linked
             /\ \/ R[i].status = rows[i].status
                \/ c = "expiry" /\ R[i].status = "EXPIRED" /\ rows[i].until <= now
                \/ stripe.is = "gone"
  <2>1. rows[i] \in EntitlementRows
    BY <1>1
  <2> QED BY <1>3, <2>1 DEF EntitlementRows, Stale
<1>5. R \in [DOMAIN rows -> EntitlementRows]
  BY <1>4
<1>6. \A i \in DOMAIN rows : /\ R[i].until = rows[i].until /\ R[i].linked = rows[i].linked
                             /\ \/ R[i].status = rows[i].status
                                \/ R[i].status = "EXPIRED" /\ rows[i].until <= now
                                \/ stripe.is = "gone"
  BY <1>4
<1> HIDE DEF R
<1>7. rows' \in Seq(EntitlementRows) /\ DOMAIN rows' = DOMAIN rows /\ (rows' = <<>> <=> rows = <<>>)
  BY <1>1, <1>2, <1>5, RowsUpdated
<1>8. GoodRows'
  <2> SUFFICES ASSUME NEW i \in DOMAIN rows PROVE GoodRow(rows[i])'
    BY <1>7 DEF GoodRows
  <2>1. GoodRow(rows[i]) /\ rows'[i] = R[i] /\ rows[i] \in EntitlementRows
    BY <1>1, <1>2 DEF AccessInv, GoodRows
  <2>2. rows[i].until \in Nat
    BY <2>1 DEF EntitlementRows
  <2> QED BY <1>1, <1>6, <2>1, <2>2 DEF GoodRow
<1>9. PICK at \in {"idle", "revoke"} : call' = [call EXCEPT ![c] = [at |-> at, read |-> "none"]]
  BY DEF Close, Leave, Goto, NoCall
<1>10. /\ call' \in [Calls -> AccessCalls] /\ call'[c].at = at /\ call'[c].read = "none"
       /\ \A d \in Calls \ {c} : call'[d] = call[d]
  <2>1. [at |-> at, read |-> "none"] \in AccessCalls
    BY DEF AccessCalls
  <2> QED BY <1>9, <2>1, CallGoes DEF AccessInv
<1>11. CallsKnown'
  <2>1. at \in CallPlaces(c) /\ \A d \in Calls : CallPlaces(d)' = CallPlaces(d)
    BY <1>1 DEF CallPlaces
  <2> QED BY <1>7, <1>10, <2>1 DEF AccessInv, CallsKnown
<1>12. \A d \in Confirming : call'[d] = call[d]
  BY <1>1, <1>10 DEF Calls
<1>13. Linking'
  BY <1>1, <1>2, <1>6, <1>7, <1>12 DEF AccessInv, Linking
<1>14. Provisioning' = Provisioning
  BY <1>12 DEF Provisioning, Confirming
<1>15. /\ stripe.is = "open" => \A d \in Confirming : At(d, "idle")'
       /\ stripe.is # "gone" => At("deleted", "idle")'
  BY <1>3, <1>10, <1>12 DEF AccessInv, At, Calls, Revoking
<1> QED BY <1>1, <1>7, <1>8, <1>11, <1>13, <1>14, <1>15 DEF AccessInv

LEMMA AccessRenew ==
  ASSUME AccessInv, Renew
  PROVE  AccessInv'
<1>0. /\ rows \in Seq(EntitlementRows) /\ now \in Nat /\ stripe.until \in Nat /\ missed \in BOOLEAN
      /\ UNCHANGED <<now, stripe, call>> /\ events' = events \ {"invoice"}
  BY DEF AccessInv, Renew, world
<1> DEFINE R == [i \in DOMAIN rows |-> IF rows[i].linked /\ rows[i].status \in {"ACTIVE", "EXPIRED"}
                   THEN [rows[i] EXCEPT !.status = "ACTIVE", !.until = stripe.until] ELSE rows[i]]
<1>1. missed' \in BOOLEAN /\ (missed => missed') /\ (rows' = R \/ (rows' = rows /\ missed'))
  <2>1. (rows' = R /\ UNCHANGED failures) \/ (Fails(TRUE) /\ rows' = rows)
    BY DEF Renew, OnRows
  <2> HIDE DEF R
  <2> QED BY <1>0, <2>1 DEF failures, Fails
<1>2. \A i \in DOMAIN rows :
        /\ R[i] \in EntitlementRows /\ R[i].linked = rows[i].linked
        /\ R[i] = rows[i] \/ R[i].status = "ACTIVE"
        /\ rows[i].linked /\ rows[i].status # "CANCELLED" => R[i].status = "ACTIVE" /\ R[i].until = stripe.until
        /\ ~rows[i].linked => R[i] = rows[i]
  <2> TAKE i \in DOMAIN rows
  <2>1. rows[i] \in EntitlementRows
    BY <1>0
  <2> QED BY <1>0, <2>1 DEF EntitlementRows
<1>3. R = [i \in DOMAIN rows |-> R[i]]
  OBVIOUS
<1> HIDE DEF R
<1>4. R \in [DOMAIN rows -> EntitlementRows]
  BY <1>2, <1>3
<1>5. rows' \in Seq(EntitlementRows) /\ DOMAIN rows' = DOMAIN rows /\ (rows' = <<>> <=> rows = <<>>)
  BY <1>0, <1>1, <1>4, RowsUpdated
<1>6. GoodRows'
  <2> SUFFICES ASSUME NEW i \in DOMAIN rows PROVE GoodRow(rows[i])'
    BY <1>5 DEF GoodRows
  <2>1. GoodRow(rows[i]) /\ (rows'[i] = R[i] \/ (rows'[i] = rows[i] /\ missed'))
    BY <1>0, <1>1 DEF AccessInv, GoodRows
  <2>2. CASE rows'[i] = rows[i] /\ missed'
    BY <1>0, <1>1, <2>1, <2>2 DEF GoodRow
  <2>3. CASE rows'[i] = R[i]
    <3>1. stripe.is # "gone" => R[i].status # "CANCELLED"
      BY <1>2, <2>1 DEF GoodRow
    <3>2. ASSUME ~missed', stripe.is = "live"
          PROVE  /\ R[i].linked \/ (R[i].status = "ACTIVE" /\ R[i].until = now + 1)
                 /\ now >= stripe.until \/ (R[i].status = "ACTIVE" /\ R[i].until >= stripe.until)
      BY <1>0, <1>1, <1>2, <2>1, <3>2 DEF GoodRow
    <3> QED BY <1>0, <1>1, <2>3, <3>1, <3>2 DEF GoodRow
  <2> QED BY <2>1, <2>2, <2>3
<1>7. \A i \in DOMAIN rows : rows'[i].linked = rows[i].linked
  BY <1>1, <1>2
<1>8. Linking'
  BY <1>0, <1>1, <1>5, <1>7 DEF AccessInv, Linking
<1>9. CallsKnown' /\ Provisioning' = Provisioning
  BY <1>0, <1>1, <1>5 DEF AccessInv, CallsKnown, CallPlaces, Provisioning
<1>10. /\ stripe.is = "open" => events' = {} /\ rows' = <<>> /\ \A c \in Confirming : At(c, "idle")'
       /\ stripe.is # "gone" => "deleted" \notin events' /\ At("deleted", "idle")'
  BY <1>0, <1>1, <1>5 DEF AccessInv, At
<1> QED BY <1>0, <1>1, <1>5, <1>6, <1>8, <1>9, <1>10 DEF AccessInv

\* The provisioning: one row more, or the first again, for the month that runs.
LEMMA GrantedRows ==
  ASSUME AccessInv, NEW c \in Calls, Grant(c)
  PROVE  /\ rows' \in Seq(EntitlementRows) /\ rows' # <<>>
         /\ \A i \in DOMAIN rows' : \/ \E j \in DOMAIN rows : rows'[i] = rows[j]
                                    \/ rows'[i].status = "ACTIVE" /\ rows'[i].until = now + 1
<1>1. rows \in Seq(EntitlementRows) /\ now \in Nat /\ (call[c].read # "none" => rows # <<>>)
  BY DEF AccessInv, CallsKnown, Grant, At
<1> DEFINE new == [status |-> "ACTIVE", until |-> now + 1, linked |-> FALSE]
           old == IF Len(rows) = MaxRows THEN Tail(rows) ELSE rows
           first == [rows[1] EXCEPT !.status = "ACTIVE", !.until = now + 1]
<1>2. CASE call[c].read = "none"
  <2>1. rows' = Append(old, new)
    BY <1>2 DEF Grant
  <2>2. new \in EntitlementRows /\ new.status = "ACTIVE" /\ new.until = now + 1
    BY <1>1 DEF EntitlementRows
  <2>3. old \in Seq(EntitlementRows) /\ \A i \in DOMAIN old : \E j \in DOMAIN rows : old[i] = rows[j]
    <3>1. CASE Len(rows) = MaxRows
      <4>1. rows # <<>>
        BY <1>1, <3>1, AccessAssumption
      <4>2. /\ old \in Seq(EntitlementRows)
            /\ \A i \in DOMAIN old : i + 1 \in DOMAIN rows /\ old[i] = rows[i + 1]
        BY <1>1, <3>1, <4>1
      <4> QED BY <4>2
    <3>2. CASE Len(rows) # MaxRows
      BY <1>1, <3>2
    <3> QED BY <3>1, <3>2
  <2> HIDE DEF new, old
  <2>4. rows' \in Seq(EntitlementRows) /\ rows' # <<>>
    BY <2>1, <2>2, <2>3
  <2>5. \A i \in DOMAIN rows' : rows'[i] = new \/ (i \in DOMAIN old /\ rows'[i] = old[i])
    BY <2>1, <2>2, <2>3
  <2> QED BY <2>2, <2>3, <2>4, <2>5
<1>3. CASE call[c].read = "ACTIVE"
  BY <1>1, <1>3 DEF Grant
<1>4. CASE call[c].read \notin {"none", "ACTIVE"}
  <2>1. rows' = [rows EXCEPT ![1] = first]
    BY <1>4 DEF Grant
  <2>2. rows[1] \in EntitlementRows /\ 1 \in DOMAIN rows
    BY <1>1, <1>4
  <2>3. first \in EntitlementRows /\ first.status = "ACTIVE" /\ first.until = now + 1
    <3>1. now + 1 \in Nat
      BY <1>1
    <3> QED BY <2>2, <3>1 DEF EntitlementRows
  <2> HIDE DEF first
  <2>4. rows' \in Seq(EntitlementRows) /\ rows' # <<>> /\ DOMAIN rows' = DOMAIN rows
    BY <1>1, <2>1, <2>2, <2>3
  <2>5. \A i \in DOMAIN rows : rows'[i] = first \/ rows'[i] = rows[i]
    BY <2>1
  <2> QED BY <2>3, <2>4, <2>5
<1> QED BY <1>2, <1>3, <1>4

LEMMA AccessGrant ==
  ASSUME AccessInv, NEW c \in Calls, Grant(c)
  PROVE  AccessInv'
<1>1. /\ UNCHANGED <<now, stripe, events, missed>> /\ now \in Nat /\ stripe.until \in Nat
      /\ call[c].at = "grant" /\ c \in Confirming /\ stripe.is # "open"
      /\ call' = [call EXCEPT ![c] = [at |-> "follower", read |-> "none"]]
  BY WhoCalls DEF AccessInv, Grant, Goto, At, failures, world
<1>2. /\ rows' \in Seq(EntitlementRows) /\ rows' # <<>>
      /\ \A i \in DOMAIN rows' : \/ \E j \in DOMAIN rows : rows'[i] = rows[j]
                                 \/ rows'[i].status = "ACTIVE" /\ rows'[i].until = now + 1
  BY GrantedRows
<1>3. GoodRows'
  <2> SUFFICES ASSUME NEW i \in DOMAIN rows' PROVE GoodRow(rows[i])'
    BY DEF GoodRows
  <2>1. CASE \E j \in DOMAIN rows : rows'[i] = rows[j]
    BY <1>1, <2>1 DEF AccessInv, GoodRows, GoodRow
  <2>2. CASE rows'[i].status = "ACTIVE" /\ rows'[i].until = now + 1
    <3>1. stripe.is = "live" => stripe.until <= now + 1
      BY DEF AccessInv
    <3> QED BY <1>1, <2>2, <3>1 DEF GoodRow
  <2> QED BY <1>2, <2>1, <2>2
<1>4. /\ call' \in [Calls -> AccessCalls] /\ call'[c].at = "follower" /\ call'[c].read = "none"
      /\ \A d \in Calls \ {c} : call'[d] = call[d]
  <2>1. [at |-> "follower", read |-> "none"] \in AccessCalls
    BY DEF AccessCalls
  <2> QED BY <1>1, <2>1, CallGoes DEF AccessInv
<1>5. CallsKnown'
  <2>1. "follower" \in CallPlaces(c) /\ \A d \in Calls : CallPlaces(d)' = CallPlaces(d)
    BY <1>1 DEF CallPlaces
  <2> QED BY <1>2, <1>4, <2>1 DEF AccessInv, CallsKnown
<1>6. Linking'
  BY <1>1, <1>4 DEF Linking
<1>7. stripe.is # "gone" => At("deleted", "idle")'
  BY <1>1, <1>4 DEF AccessInv, At, Calls, Confirming, Revoking
<1> QED BY <1>1, <1>2, <1>3, <1>5, <1>6, <1>7 DEF AccessInv

\* Stripe, and time.
LEMMA AccessPay ==
  ASSUME AccessInv, Pay
  PROVE  AccessInv'
<1>1. /\ UNCHANGED <<now, rows, call, missed>> /\ now \in Nat /\ stripe.until \in Nat
      /\ stripe' = [is |-> "live", until |-> now + 1] /\ rows \in Seq(EntitlementRows)
      /\ stripe.is = "open" \/ (stripe.is = "live" /\ stripe.until <= now)
      /\ events' = events \cup {"invoice"} \cup IF stripe.is = "open" THEN {"completed"} ELSE {}
  BY DEF AccessInv, Pay, failures, access
<1>2. GoodRows'
  <2> SUFFICES ASSUME NEW i \in DOMAIN rows PROVE GoodRow(rows[i])'
    BY <1>1 DEF GoodRows
  <2>1. GoodRow(rows[i]) /\ stripe.is = "live"
    BY <1>1 DEF AccessInv, GoodRows
  <2>2. ~missed /\ ~rows[i].linked => rows[i].status = "ACTIVE" /\ rows[i].until = now + 1
    BY <2>1 DEF GoodRow
  <2>3. rows[i].status # "CANCELLED"
    BY <2>1 DEF GoodRow
  <2> QED BY <1>1, <2>2, <2>3 DEF GoodRow
<1>3. CallsKnown' /\ Provisioning' = Provisioning
  BY <1>1 DEF AccessInv, CallsKnown, CallPlaces, Provisioning
<1>4. Linking'
  BY <1>1 DEF AccessInv, Linking
<1>5. "deleted" \notin events' /\ At("deleted", "idle")'
  BY <1>1 DEF AccessInv, At
<1>6. ~missed /\ rows = <<>> => "completed" \in events' \/ Provisioning
  BY <1>1 DEF AccessInv
<1>7. stripe' \in [is : {"open", "live", "gone"}, until : Nat] /\ stripe'.is = "live" /\ stripe'.until = now + 1
  BY <1>1
<1> QED BY <1>1, <1>2, <1>3, <1>4, <1>5, <1>6, <1>7 DEF AccessInv

LEMMA AccessCancel ==
  ASSUME AccessInv, Cancel
  PROVE  AccessInv'
<1>1. /\ UNCHANGED <<now, rows, call, missed>> /\ stripe.is = "live" /\ events' = events \cup {"deleted"}
  BY DEF Cancel, failures, access
<1>2. stripe' \in [is : {"open", "live", "gone"}, until : Nat] /\ stripe'.is = "gone"
  BY DEF AccessInv, Cancel
<1>3. GoodRows' /\ Linking'
  BY <1>2 DEF GoodRows, GoodRow, Linking
<1>4. CallsKnown' /\ Provisioning' = Provisioning
  BY <1>1 DEF AccessInv, CallsKnown, CallPlaces, Provisioning
<1> QED BY <1>1, <1>2, <1>3, <1>4 DEF AccessInv

LEMMA AccessMonth ==
  ASSUME AccessInv, Month
  PROVE  AccessInv'
<1>1. /\ UNCHANGED <<stripe, events, rows, call, missed>> /\ now \in Nat /\ now' = now + 1
      /\ stripe.until \in Nat /\ \A c \in Calls : At(c, "idle")
      /\ stripe.is = "live" => now < stripe.until /\ stripe.until <= now + 1
  BY DEF AccessInv, Month, failures, access
<1>2. ~missed /\ stripe.is = "live" => \A i \in DOMAIN rows : rows[i].linked
  BY <1>1 DEF AccessInv, Linking, At, Calls
<1>3. GoodRows'
  BY <1>1, <1>2 DEF AccessInv, GoodRows, GoodRow
<1>4. CallsKnown' /\ Linking' /\ Provisioning' = Provisioning
  BY <1>1 DEF AccessInv, CallsKnown, CallPlaces, Linking, Provisioning
<1>5. /\ \A c \in Confirming : At(c, "idle")' = At(c, "idle")
      /\ At("deleted", "idle")' = At("deleted", "idle")
  BY <1>1 DEF At
<1> QED BY <1>1, <1>3, <1>4, <1>5 DEF AccessInv

-----------------------------------------------------------------------------
LEMMA AccessStarts == ASSUME InitAccess PROVE AccessInv
<1>1. call \in [Calls -> AccessCalls] /\ \A c \in Calls : call[c].at = "idle" /\ "idle" \in CallPlaces(c)
  BY DEF InitAccess, NoCall, AccessCalls, CallPlaces
<1>2. Confirming \subseteq Calls /\ "deleted" \in Calls
  BY DEF Calls, Confirming, Revoking
<1>3. /\ rows = <<>> /\ now = 0 /\ stripe = [is |-> "open", until |-> 0] /\ events = {} /\ missed = FALSE
  BY DEF InitAccess
<1>4. GoodRows /\ Linking
  BY <1>3 DEF GoodRows, Linking
<1>5. CallsKnown
  BY <1>1 DEF CallsKnown
<1>6. rows \in Seq(EntitlementRows) /\ stripe \in [is : {"open", "live", "gone"}, until : Nat]
  BY <1>3
<1>7. stripe.is = "open" /\ (\A c \in Confirming : At(c, "idle")) /\ At("deleted", "idle")
  BY <1>1, <1>2, <1>3 DEF At
<1> QED BY <1>3, <1>4, <1>5, <1>6, <1>7 DEF AccessInv

LEMMA AccessStep == ASSUME AccessInv, [NextAccess]_accessVars PROVE AccessInv'
<1>1. CASE Connect \/ (\E status_ \in {"ACTIVE", "PAUSED", "REVOKED"} : Patch(status_)) \/ UNCHANGED accessVars
  <2>1. UNCHANGED <<now, stripe, events, rows, call, missed>>
    BY <1>1 DEF Connect, Patch, accessVars, access, failures
  <2>2. GoodRows' /\ CallsKnown' /\ Linking' /\ Provisioning' = Provisioning
    BY <2>1 DEF AccessInv, GoodRows, GoodRow, CallsKnown, CallPlaces, Linking, Provisioning
  <2> QED BY <2>1, <2>2 DEF AccessInv, At
<1>2. ASSUME NEW c \in Calls, CallStep(c) \/ Break(c)
      PROVE  AccessInv'
  BY <1>2, AccessPlain, AccessGrant, AccessLink, AccessClose DEF CallStep
<1> QED BY <1>1, <1>2, AccessPay, AccessCancel, AccessMonth, AccessRenew, AccessBegins DEF NextAccess

\* While the month that is paid at Stripe runs and Stripe's events are handled, the
\* entitlement is active and runs as long, in any number of months and of rows and
\* however expiry, a late renewal, two confirmations of the checkout, the repair, the
\* trader and failures meet, unless the renewal's one update or a call that confirms
\* the checkout has failed (provisioning, renewal and expiry in billingService.ts).
THEOREM AccessPaidIsActive == AccessSpec => []PaidIsActive
<1>1. AccessInv => PaidIsActive
  <2> SUFFICES ASSUME AccessInv, ~missed, Delivered, stripe.is = "live", now < stripe.until
               PROVE  PaidUp
    BY DEF PaidIsActive, PaymentIsAuthoritative
  <2>1. rows # <<>>
    BY DEF AccessInv, Delivered, Provisioning, At
  <2>2. \A i \in DOMAIN rows : rows[i].status = "ACTIVE" /\ rows[i].until >= stripe.until
    BY DEF AccessInv, GoodRows, GoodRow, Delivered
  <2> QED BY <2>1, <2>2 DEF PaidUp
<1> QED BY <1>1, AccessStarts, AccessStep, PTL DEF AccessSpec

=============================================================================
