---------------------------- MODULE MasterStream ----------------------------
(***************************************************************************)
(* The stream of a strategy's master account: lists of open positions, by  *)
(* REST and by the order-update socket, become OPEN, MODIFY and CLOSE      *)
(* events (src/lib/broker/api2TradeLiveSource.ts); the pump hands them to  *)
(* one chain per position, which stores each event once and copies it      *)
(* (src/lib/copy/streamPump.ts, masterEvents.ts, scripts/                  *)
(* wsa-copy-worker.ts).                                                    *)
(*                                                                         *)
(* Time is left open: when a list is due, when the pump is woken, how long *)
(* a read takes.  Two assumptions: what a list that arrives by the socket  *)
(* shows is current, but for a passing empty one; and the pause before a   *)
(* stream that failed is opened again outlasts the step and the chains it  *)
(* had - the code takes it out of its registry first and does not wait.    *)
(***************************************************************************)
EXTENDS Naturals, Sequences, FiniteSets

CONSTANTS
  Ids,          \* positions the master may open
  Changed,      \* bound: those whose volume or levels it changes
  Glitches,     \* the channels that may deliver an empty list while positions are open
  MaxGlitches,  \* bound: how often they do
  MaxFailures,  \* bound: streams that end: reads fail for too long, storing fails, the worker dies
  MaxTroubles   \* bound: events whose insert gets no answer

ASSUME StreamAssumption ==
  /\ IsFiniteSet(Ids) /\ Changed \subseteq Ids /\ Glitches \subseteq {"rest", "websocket"}
  /\ {MaxGlitches, MaxFailures, MaxTroubles} \subseteq Nat

VARIABLES
  account,   \* each position at the broker: 0 not opened, 1 open, 2 open and changed, 3 closed
  tracked,   \* the source's picture: 0, 1 or 2
  known,     \* the source has applied a list (initialized)
  held,      \* a list without any of several positions waits for a second one (massCloseSince)
  buffered,  \* events of lists the socket brought
  read,      \* the REST read in flight
  taken,     \* the buffered events the pump's step has taken
  ending,    \* storing an event failed for good: closed when the step in flight has ended
  chain,     \* dispatched events of each position, not stored yet
  stored,    \* copy_master_events: the dedupe keys
  copied,    \* history: the events of each position handed to the copy engine
  glitches, failures, troubles

source == <<tracked, known, held, buffered>>
step   == <<read, taken, ending>>
engine == <<chain, stored, copied>>
ghosts == <<glitches, failures, troubles>>
vars   == <<account, source, step, engine, ghosts>>

Nothing == [i \in Ids |-> 0]
NoEvents == [i \in Ids |-> <<>>]
Joined(a, b) == [i \in Ids |-> a[i] \o b[i]]
NoRead == [at |-> "rest"]
Down == [at |-> "down"]

Init ==
  /\ account \in [Ids -> 0..1]
  /\ tracked = Nothing
  /\ known = FALSE
  /\ held = FALSE
  /\ buffered = NoEvents
  /\ read = NoRead
  /\ taken = NoEvents
  /\ ending = FALSE
  /\ chain = NoEvents
  /\ stored = {}
  /\ copied = NoEvents
  /\ glitches = 0 /\ failures = 0 /\ troubles = 0

\* The master opens, changes and closes positions; an id is not used again.
MasterTrades ==
  /\ \E i \in Ids : \E s \in (account[i] + 1)..3 :
       /\ account[i] = 0 => s = 1
       /\ s = 2 => i \in Changed
       /\ account' = [account EXCEPT ![i] = s]
  /\ UNCHANGED <<source, step, engine, ghosts>>

\* What OpenedOrders says.
List == [i \in Ids |-> account[i] % 3]

\* A list as channel c delivers it.
Delivers(c, list) ==
  \/ list = List /\ UNCHANGED glitches
  \/ /\ c \in Glitches /\ glitches < MaxGlitches /\ List # Nothing
     /\ list = Nothing
     /\ glitches' = glitches + 1

-----------------------------------------------------------------------------
(* applySnapshot                                                           *)

Tracked == {i \in Ids : tracked[i] # 0}

\* The event each position gives rise to, if any.  Their order among positions
\* is of no account: each position has its own chain.
Changes(list) ==
  [i \in Ids |->
     CASE tracked[i] = list[i]              -> <<>>
       [] tracked[i] = 0 /\ list[i] # 0     -> <<"OPEN">>
       [] tracked[i] # 0 /\ list[i] = 0     -> <<"CLOSE">>
       [] OTHER                             -> <<"MODIFY">>]

\* Mutant of HeldBack: it is never confirmed.
HeldBackAlways(list, c) == known /\ list = Nothing /\ Tracked # {}

\* An empty list of the socket, where one position was open, is for REST to
\* decide; where several were open a second list has to say it, too.
HeldBack(list, c) ==
  /\ known /\ list = Nothing
  /\ \/ c = "websocket" /\ Cardinality(Tracked) = 1
     \/ Cardinality(Tracked) >= 2 /\ ~held

Apply(list, c) ==
  IF HeldBack(list, c)
  THEN /\ held' = (held \/ Cardinality(Tracked) >= 2)
       /\ UNCHANGED <<tracked, known>>
  ELSE /\ held' = FALSE
       /\ tracked' = list
       /\ known' = TRUE

\* The second list came too late to confirm the first.
Expire ==
  /\ held /\ read = NoRead
  /\ held' = FALSE
  /\ UNCHANGED <<account, tracked, known, buffered, step, engine, ghosts>>

\* Mutant of Outdates: a read in flight is not affected.
OutdatesNothing == UNCHANGED read

\* A list was applied that is newer than the one a read in flight was begun for.
Outdates == IF read.at = "reading" THEN read' = [read EXCEPT !.outdated = TRUE] ELSE UNCHANGED read

\* ingestSocketMessage with a list.  A message without one only makes the next
\* read due.
SocketList ==
  /\ read # Down /\ known
  /\ \E list \in {List, Nothing} :
       /\ Delivers("websocket", list)
       /\ Apply(list, "websocket")
       /\ IF HeldBack(list, "websocket")
          THEN UNCHANGED <<buffered, read>>
          ELSE /\ buffered' = Joined(buffered, Changes(list))
               /\ Outdates
  /\ UNCHANGED <<account, taken, ending, engine, failures, troubles>>

-----------------------------------------------------------------------------
(* The pump's step: reconcile, then dispatch                               *)

Reading(try) == [at |-> "reading", outdated |-> FALSE, try |-> try, list |-> Nothing, served |-> FALSE]

\* dispatchMasterEvents: each to the chain of its position.
Dispatch(events) ==
  /\ chain' = Joined(chain, events)
  /\ UNCHANGED <<stored, copied>>

\* The buffered events are taken; the list is read if it is due, and before
\* anything was read it is.
Begin ==
  /\ read = NoRead /\ ~ending
  /\ buffered' = NoEvents
  /\ \/ read' = Reading(1) /\ taken' = buffered /\ UNCHANGED <<ending, engine>>
     \/ known /\ buffered # NoEvents /\ Dispatch(buffered) /\ UNCHANGED step
  /\ UNCHANGED <<account, tracked, known, held, ghosts>>

\* The broker makes up the list.
Serve ==
  /\ read.at = "reading" /\ ~read.served
  /\ \E list \in {List, Nothing} :
       /\ Delivers("rest", list)
       /\ read' = [read EXCEPT !.list = list, !.served = TRUE]
  /\ UNCHANGED <<account, source, taken, ending, engine, failures, troubles>>

Finish(events) ==
  /\ Dispatch(Joined(taken, events))
  /\ taken' = NoEvents
  /\ read' = NoRead

\* It arrives: dropped when a newer one was applied, read once more when it is
\* held back.
Arrive ==
  /\ read.at = "reading" /\ read.served
  /\ IF read.outdated
     THEN Finish(NoEvents) /\ UNCHANGED source
     ELSE /\ Apply(read.list, "rest")
          /\ IF HeldBack(read.list, "rest")
             THEN IF read.try = 1
                  THEN read' = Reading(2) /\ UNCHANGED <<taken, engine>>
                  ELSE Finish(NoEvents)
             ELSE Finish(Changes(read.list))
          /\ UNCHANGED buffered
  /\ UNCHANGED <<account, ending, ghosts>>

\* A failed read of a picture that is still fresh is passed over.
PassOver ==
  /\ read.at = "reading" /\ known
  /\ Finish(NoEvents)
  /\ UNCHANGED <<account, source, ending, ghosts>>

Failure ==
  /\ failures < MaxFailures
  /\ failures' = failures + 1

\* The source is closed: nothing that was not dispatched is kept.
Closes ==
  /\ tracked' = Nothing
  /\ known' = FALSE
  /\ held' = FALSE
  /\ buffered' = NoEvents
  /\ read' = Down
  /\ taken' = NoEvents
  /\ ending' = FALSE

\* Reads have failed for too long: the pump stops, chains go on.
ReadFails ==
  /\ read.at = "reading"
  /\ IF ending THEN UNCHANGED failures ELSE Failure
  /\ Closes
  /\ UNCHANGED <<account, engine, glitches, troubles>>

\* stopRunning, after the step that was in flight.
StopRunning ==
  /\ ending /\ read = NoRead
  /\ Closes
  /\ UNCHANGED <<account, engine, ghosts>>

\* The worker dies and its chains with it.
Crash ==
  /\ Failure /\ Closes
  /\ chain' = NoEvents
  /\ UNCHANGED <<account, stored, copied, glitches, troubles>>

\* Opened again, by assumption when the chains of the stream are idle.
Reopen ==
  /\ read = Down /\ chain = NoEvents
  /\ read' = NoRead
  /\ UNCHANGED <<account, source, taken, ending, engine, ghosts>>

-----------------------------------------------------------------------------
(* persistEvent, one event of a position at a time                         *)

\* Mutant of Stored: the key is not unique.
StoredNever(key) == FALSE

Stored(key) == key \in stored

\* An event of a position has one key; a MODIFY is told by what it changed.
Key(i) == <<i, Head(chain[i])>>

Taken(i) == chain' = [chain EXCEPT ![i] = Tail(@)]

\* Stored and copied, or dropped because it was stored before.
Persist(i) ==
  /\ chain[i] # <<>>
  /\ IF Stored(Key(i))
     THEN UNCHANGED <<stored, copied>>
     ELSE /\ stored' = stored \cup {Key(i)}
          /\ copied' = [copied EXCEPT ![i] = Append(@, Head(chain[i]))]
  /\ Taken(i)
  /\ UNCHANGED <<account, source, step, ghosts>>

\* onFatal: the stream is failed, if it has not been.
Fatal ==
  IF ending \/ read = Down
  THEN UNCHANGED <<ending, failures>>
  ELSE Failure /\ ending' = TRUE

\* The insert gets no answer.  The row may be there: then it is found and copied,
\* or it cannot be looked up and never is; or every attempt fails.
Trouble(i) ==
  /\ chain[i] # <<>> /\ ~Stored(Key(i))
  /\ troubles < MaxTroubles
  /\ troubles' = troubles + 1
  /\ stored' \in {stored, stored \cup {Key(i)}}
  /\ Taken(i)
  /\ \/ stored' # stored /\ UNCHANGED <<ending, failures>>
     \/ Fatal
  /\ UNCHANGED <<account, source, read, taken, copied, glitches>>

Next ==
  \/ MasterTrades \/ Expire \/ SocketList
  \/ Begin \/ Serve \/ Arrive \/ PassOver \/ ReadFails \/ StopRunning \/ Crash \/ Reopen
  \/ \E i \in Ids : Persist(i) \/ Trouble(i)

Spec == Init /\ [][Next]_vars

\* The pump goes round, a stream that is down is opened again, an event gets its
\* turn, and neither a first read nor a second one fails for ever.
Fairness ==
  /\ WF_vars(Begin) /\ WF_vars(StopRunning) /\ WF_vars(Reopen)
  /\ \A n \in 1..2 : SF_vars(Serve /\ read.try = n) /\ SF_vars(Arrive /\ read.try = n)
  /\ \A i \in Ids : WF_vars(Persist(i))

FairSpec == Spec /\ Fairness

-----------------------------------------------------------------------------
\* Every CLOSE, wherever it is on its way, is of a position that is closed.
CloseIsReal ==
  \A i \in Ids : account[i] # 3 =>
    \A q \in {buffered[i], taken[i], chain[i], copied[i]} : "CLOSE" \notin {q[n] : n \in DOMAIN q}

\* Each event of a position is copied once and its close last, across lists that
\* overtake each other, inserts without an answer and streams that are opened
\* again.
CloseIsLast ==
  \A i \in Ids : \A m, n \in DOMAIN copied[i] :
    m < n => copied[i][m] # "CLOSE" /\ copied[i][m] # copied[i][n]

\* The close of a position the stream has seen is copied, unless the stream was
\* closed meanwhile or an insert got no answer.
ClosesAreCopied ==
  \A i \in Ids :
    (tracked[i] # 0 /\ account[i] = 3) ~>
      (copied[i] # <<>> /\ copied[i][Len(copied[i])] = "CLOSE") \/ failures > 0 \/ troubles > 0
=============================================================================
