------------------------------ MODULE SelfCopy ------------------------------
(***************************************************************************)
(* The self-copy engine (src/lib/copy/selfCopyEngine.ts, selfCopyStore.ts  *)
(* and the self-copy part of scripts/wsa-copy-worker.ts): a position that  *)
(* opens on a source account is copied to a follower account and closed    *)
(* with it, partly or wholly.  One route and one source position;          *)
(* positions and routes share nothing but the gates, which are read and    *)
(* answer anything here.  The copy has Lot, the fixed lot of the route.    *)
(*                                                                         *)
(* A stream watches the source and hands every change to a chain of its    *)
(* own, where the changes of a position run one after the other.  A        *)
(* recovery beside it closes the copies of positions that are gone.  The   *)
(* chain of a stream that failed runs on while a new stream is opened,     *)
(* unless the pause before the new stream outlasts it (Drained).           *)
(***************************************************************************)
EXTENDS Naturals, Sequences

CONSTANTS
  Processes,   \* copy workers
  Streams,     \* streams opened one after the other (a bound)
  ProcessOf,   \* ProcessOf[s]: the worker that opens the stream
  Drained,     \* a stream is opened again only when its old chain is done
  Broken,      \* a connection may break after the order has left
  Torn,        \* a worker may die between a partial close and its record
  Lot,         \* the lot of the copy, in steps of the smallest lot
  Size,        \* the volume of the source position when it opens
  MaxFaults    \* bound: lists of open positions that miss it, and crashes of a worker

ASSUME CopyAssumption ==
  /\ ProcessOf \in [Streams -> Processes]
  /\ Streams \cap Processes = {}
  /\ {Drained, Broken, Torn} \subseteq BOOLEAN
  /\ {Lot, Size} \subseteq Nat \ {0}
  /\ MaxFaults \in Nat

VARIABLES
  source,    \* the source position
  size,      \* its volume
  stream,    \* each stream: new, following, ended
  knows,     \* the volume of the position in the picture of the stream, or 0
  handled,   \* selfCopyHandled of each worker has the position
  chain,     \* changes that wait in the chain of a stream
  pc,        \* where the runner of a chain, or of a recovery, is
  mine,      \* the order or ticket its run is about
  part,      \* a MODIFY: what it closes of the copy, and what it leaves
  link,      \* the row of self_copy_trade_links
  sent,      \* orders sent to the follower's broker, numbered from 1
  flying,    \* those on their way
  executed,  \* those that were executed
  volume,    \* what is still open of each of those
  rows,      \* activity that was recorded, as far as it is Told
  faults     \* lists that missed the position, and crashes

watch   == <<source, size, stream, knows, handled, faults>>
runs    == <<pc, mine, part>>
broker  == <<sent, flying, executed, volume>>
vars    == <<watch, chain, runs, link, broker, rows>>

\* A chain has its stream for a name, a recovery its worker.
Runners == Streams \cup Processes

\* The copies that are still open at the follower, wholly or in part.
held == {o \in executed : volume[o] > 0}

Nothing == [amount |-> 0, rest |-> 0]

Init ==
  /\ source = "unborn"
  /\ size = Size
  /\ stream = [s \in Streams |-> "new"]
  /\ knows = [s \in Streams |-> 0]
  /\ handled = [p \in Processes |-> FALSE]
  /\ chain = [s \in Streams |-> <<>>]
  /\ pc = [r \in Runners |-> "idle"]
  /\ mine = [r \in Runners |-> 0]
  /\ part = [s \in Streams |-> Nothing]
  /\ link = [status |-> "NONE", ticket |-> 0, copied |-> 0, code |-> "none", old |-> FALSE]
  /\ sent = 0
  /\ flying = {}
  /\ executed = {}
  /\ volume = [o \in {} |-> 0]
  /\ rows = {}
  /\ faults = 0

-----------------------------------------------------------------------------
(* The source account and the streams that watch it.                       *)

SourceMoves ==
  /\ \/ source = "unborn" /\ source' = "open"
     \/ source = "open" /\ source' = "gone"
  /\ UNCHANGED <<size, stream, knows, handled, faults, chain, runs, link, broker, rows>>

\* A half of the source position is closed.
SourceShrinks ==
  /\ source = "open"
  /\ size > 1
  /\ size' = size \div 2
  /\ UNCHANGED <<source, stream, knows, handled, faults, chain, runs, link, broker, rows>>

\* A change in a chain: <<"open">>, <<"existing">>, <<"close">>, or a MODIFY with
\* the volume before and after.
Queue(s, change) == chain' = [chain EXCEPT ![s] = Append(@, change)]

\* dispatchSelfCopyChanges, an OPEN: only at first sight of the position.
Open(s, change) ==
  IF handled[ProcessOf[s]] THEN UNCHANGED <<handled, chain>>
  ELSE handled' = [handled EXCEPT ![ProcessOf[s]] = TRUE] /\ Queue(s, change)

Busy(s) == chain[s] # <<>> \/ pc[s] # "idle"

\* A stream is opened and looks at the account for the first time.
OpenStream(s) ==
  /\ stream[s] = "new"
  /\ Drained => ~\E z \in Streams : ProcessOf[z] = ProcessOf[s] /\ Busy(z)
  /\ \A z \in Streams : stream[z] = "following" => ProcessOf[z] # ProcessOf[s]
  /\ stream' = [stream EXCEPT ![s] = "following"]
  /\ knows' = [knows EXCEPT ![s] = IF source = "open" THEN size ELSE 0]
  /\ IF source = "open" THEN Open(s, <<"existing">>) ELSE UNCHANGED <<handled, chain>>
  /\ UNCHANGED <<source, size, faults, runs, link, broker, rows>>

\* A list of open positions that has it for the first time.
SeeOpen(s) ==
  /\ stream[s] = "following"
  /\ source = "open"
  /\ knows[s] = 0
  /\ knows' = [knows EXCEPT ![s] = size]
  /\ Open(s, <<"open">>)
  /\ UNCHANGED <<source, size, stream, faults, runs, link, broker, rows>>

\* A list in which it is smaller than the last time: a MODIFY with the volume
\* before and after.
SeeShrunk(s) ==
  /\ stream[s] = "following"
  /\ source = "open"
  /\ size < knows[s]
  /\ knows' = [knows EXCEPT ![s] = size]
  /\ Queue(s, <<knows[s], size>>)
  /\ UNCHANGED <<source, size, stream, handled, faults, runs, link, broker, rows>>

\* A list that no longer has it, rightly or because the list is wrong.
SeeGone(s) ==
  /\ stream[s] = "following"
  /\ knows[s] > 0
  /\ \/ source = "gone" /\ UNCHANGED faults
     \/ source = "open" /\ faults < MaxFaults /\ faults' = faults + 1
  /\ knows' = [knows EXCEPT ![s] = 0]
  /\ handled' = [handled EXCEPT ![ProcessOf[s]] = FALSE]
  /\ Queue(s, <<"close">>)
  /\ UNCHANGED <<source, size, stream, runs, link, broker, rows>>

\* A stream can be lost only while another one can follow it (the bound).
Replaceable(p) == \E z \in Streams : stream[z] = "new" /\ ProcessOf[z] = p

\* A stream fails, or its source is dropped and found again: its chain runs on.
LoseStream(s) ==
  /\ stream[s] = "following"
  /\ Replaceable(ProcessOf[s])
  /\ stream' = [stream EXCEPT ![s] = "ended"]
  /\ knows' = [knows EXCEPT ![s] = 0]
  /\ UNCHANGED handled \/ handled' = [handled EXCEPT ![ProcessOf[s]] = FALSE]
  /\ UNCHANGED <<source, size, faults, chain, runs, link, broker, rows>>

\* A worker dies: what it knows, has queued and is doing is gone.
Crash(p) ==
  LET lost == {s \in Streams : ProcessOf[s] = p} IN
  /\ faults < MaxFaults
  /\ Replaceable(p)
  /\ Torn \/ \A s \in lost : pc[s] \notin {"trimmed", "changeless"}
  /\ faults' = faults + 1
  /\ stream' = [s \in Streams |-> IF s \in lost /\ stream[s] = "following" THEN "ended" ELSE stream[s]]
  /\ knows' = [s \in Streams |-> IF s \in lost THEN 0 ELSE knows[s]]
  /\ chain' = [s \in Streams |-> IF s \in lost THEN <<>> ELSE chain[s]]
  /\ pc' = [r \in Runners |-> IF r \in lost \cup {p} THEN "idle" ELSE pc[r]]
  /\ mine' = [r \in Runners |-> IF r \in lost \cup {p} THEN 0 ELSE mine[r]]
  /\ part' = [s \in Streams |-> IF s \in lost THEN Nothing ELSE part[s]]
  /\ handled' = [handled EXCEPT ![p] = FALSE]
  /\ UNCHANGED <<source, size, link, broker, rows>>

-----------------------------------------------------------------------------
(* A run: steps of the runner r.                                           *)

At(r, from) == pc[r] = from

Goto(r, to) == pc' = [pc EXCEPT ![r] = to] /\ UNCHANGED <<mine, part, rows>>

Leave(r) ==
  /\ pc' = [pc EXCEPT ![r] = "idle"]
  /\ mine' = [mine EXCEPT ![r] = 0]
  /\ part' = IF r \in Streams THEN [part EXCEPT ![r] = Nothing] ELSE part

\* The lines of activity that are kept here: what the person is told to put right.
Told == {"MODIFY", "CLOSE"} \X {"FAILED"}

\* The run ends with a line of activity, or without one.
Record(r, event, outcome) == Leave(r) /\ rows' = rows \cup ({<<event, outcome>>} \cap Told)
Silent(r) == Leave(r) /\ UNCHANGED rows

\* updateLink: by id alone, whatever the row has become meanwhile.
Update(status, ticket, code) ==
  link' = [link EXCEPT !.status = status, !.ticket = ticket, !.code = code, !.old = FALSE]

\* The same, with the lot of the copy.
UpdateLot(status, ticket) ==
  link' = [status |-> status, ticket |-> ticket, copied |-> Lot, code |-> "none", old |-> FALSE]

\* roundToStep: the part of the copy that is as large as the share the source closed.
SharePart(copied, before, after) == (2 * copied * (before - after) + before) \div (2 * before)

\* Stop loss and take profit follow, when they changed.  The levels are no state
\* here: all that counts is whether the call fails.
Levels(s) ==
  \/ \E outcome \in {"COPIED", "SKIPPED"} : Record(s, "MODIFY", outcome)
  \/ Goto(s, "changeless")

\* runSelfCopyEvent, a MODIFY: the open copy is read, and the share is computed of
\* its recorded volume.  A part that is too small, or all of it, is not closed.
TakeModify(s, change) ==
  LET amount == SharePart(link.copied, change[1], change[2]) IN
  \/ /\ link.status = "OPEN" /\ link.ticket # 0
     /\ amount \in 1..(link.copied - 1)
     /\ pc' = [pc EXCEPT ![s] = "trim"]
     /\ mine' = [mine EXCEPT ![s] = link.ticket]
     /\ part' = [part EXCEPT ![s] = [amount |-> amount, rest |-> link.copied - amount]]
     /\ UNCHANGED rows
  \/ link.status = "OPEN" /\ link.ticket # 0 /\ amount \notin 1..(link.copied - 1) /\ Levels(s)
  \/ ~(link.status = "OPEN" /\ link.ticket # 0) /\ Silent(s)

\* The chain takes its next change.  An OPEN for which the settings cannot be
\* read three times over is given up, with a line in the log of the worker.
Take(s) ==
  /\ At(s, "idle")
  /\ chain[s] # <<>>
  /\ chain' = [chain EXCEPT ![s] = Tail(@)]
  /\ \/ Head(chain[s]) = <<"existing">> /\ Goto(s, "look")
     \/ Head(chain[s]) = <<"open">> /\ Goto(s, "plan")
     \/ Head(chain[s]) = <<"close">> /\ Goto(s, "claim")
     \/ Len(Head(chain[s])) = 2 /\ TakeModify(s, Head(chain[s]))
     \/ Head(chain[s]) # <<"close">> /\ Silent(s)
  /\ UNCHANGED <<watch, link, broker>>

\* copyOpenOnRoute, a position that was open before: dealt with already?
Look(s) ==
  /\ At(s, "look")
  /\ \/ link.status # "NONE" /\ Silent(s)
     \/ Goto(s, "plan")
  /\ UNCHANGED <<watch, chain, link, broker>>

\* Mutant of MayTryAgain: any failed attempt may be repeated.
AnyFailure == link.status = "FAILED"

\* "a failed attempt that certainly sent nothing may be tried again"
MayTryAgain == link.status = "FAILED" /\ link.code # "uncertain"

\* planSelfCopyOpen: the link and the facts are read, a gate may say no.
Plan(s) ==
  /\ At(s, "plan")
  /\ \/ Record(s, "OPEN", "SKIPPED")
     \/ Record(s, "OPEN", "FAILED")
     \/ link.status = "NONE" /\ Goto(s, "reserve")
     \/ MayTryAgain /\ Goto(s, "again")
  /\ UNCHANGED <<watch, chain, link, broker>>

\* reserveLink: the unique row of (route, position) is inserted.  A failed
\* insert may have been stored.
Reserve(s) ==
  LET insert == link.status = "NONE" /\ UpdateLot("PENDING", 0) IN
  /\ At(s, "reserve")
  /\ \/ insert /\ Goto(s, "order")
     \/ link.status # "NONE" /\ Record(s, "OPEN", "SKIPPED") /\ UNCHANGED link
     \/ (insert \/ UNCHANGED link) /\ Record(s, "OPEN", "FAILED")
  /\ UNCHANGED <<watch, chain, broker>>

\* The link of a failed attempt is taken once more.
Again(s) ==
  LET take == UpdateLot("PENDING", link.ticket) IN
  /\ At(s, "again")
  /\ \/ take /\ Goto(s, "order")
     \/ (take \/ UNCHANGED link) /\ Record(s, "OPEN", "FAILED")
  /\ UNCHANGED <<watch, chain, broker>>

\* openTrade: the order leaves, or fails before it does.
Send(s) ==
  /\ At(s, "order")
  /\ \/ /\ pc' = [pc EXCEPT ![s] = "asking"]
        /\ mine' = [mine EXCEPT ![s] = sent + 1]
        /\ sent' = sent + 1
        /\ flying' = flying \cup {sent + 1}
        /\ UNCHANGED rows
     \/ /\ Goto(s, "refused") \/ Goto(s, "unclear")
        /\ UNCHANGED <<sent, flying>>
  /\ UNCHANGED <<part, watch, chain, link, executed, volume>>

\* The broker executes an order, or does not.
BrokerActs ==
  /\ \E o \in flying :
       /\ flying' = flying \ {o}
       /\ \/ /\ executed' = executed \cup {o}
             /\ volume' = [x \in executed' |-> IF x = o THEN Lot ELSE volume[x]]
          \/ UNCHANGED <<executed, volume>>
  /\ UNCHANGED <<watch, chain, runs, link, sent, rows>>

\* Mutant of Answer: a time-out is taken for a refusal.
AnswerHasty(s) ==
  /\ At(s, "asking")
  /\ \/ mine[s] \in executed /\ Goto(s, "write")
     \/ Goto(s, "refused")
  /\ UNCHANGED <<watch, chain, link, broker>>

\* What the adapter says of the order: executed, with or without a ticket,
\* refused, or no answer.  A connection that breaks is an error without a code
\* (COPY_ENGINE_ERROR), which counts as a refusal.
Answer(s) ==
  /\ At(s, "asking")
  /\ \/ /\ mine[s] \in executed
        /\ pc' = [pc EXCEPT ![s] = "write"]
        /\ mine' \in {mine, [mine EXCEPT ![s] = 0]}
        /\ UNCHANGED <<part, rows>>
     \/ (mine[s] \in executed \cup flying => Broken) /\ Goto(s, "refused")
     \/ Goto(s, "unclear")
  /\ UNCHANGED <<watch, chain, link, broker>>

\* The ticket is written, up to four times; an answer of the database that is
\* lost means it is written again later.
Write(s) ==
  LET store == UpdateLot("OPEN", mine[s]) IN
  /\ \/ (At(s, "write") \/ At(s, "rewrite")) /\ store /\ Record(s, "OPEN", "COPIED")
     \/ At(s, "write") /\ store /\ Goto(s, "rewrite")
     \/ (At(s, "write") \/ At(s, "rewrite")) /\ Record(s, "OPEN", "FAILED") /\ UNCHANGED link
  /\ UNCHANGED <<watch, chain, broker>>

\* The attempt failed: the link says whether it may be repeated.
Fail(s) ==
  /\ \/ At(s, "refused") /\ (Update("FAILED", link.ticket, "certain") \/ UNCHANGED link)
     \/ At(s, "unclear") /\ (Update("FAILED", link.ticket, "uncertain") \/ UNCHANGED link)
  /\ Record(s, "OPEN", "FAILED")
  /\ UNCHANGED <<watch, chain, broker>>

-----------------------------------------------------------------------------
(* MODIFY, for the open copy (modifyOnLink).                               *)

\* What is left of a position at the follower's broker.
Shut(ticket, rest) == volume' = [volume EXCEPT ![ticket] = rest]

Less(x, y) == IF x > y THEN x - y ELSE 0

\* closeTrade with a volume: the part is closed; or the call fails, and it may
\* have been closed all the same.
Trim(s) ==
  LET close == Shut(mine[s], Less(volume[mine[s]], part[s].amount)) IN
  /\ At(s, "trim")
  /\ \/ mine[s] \in held /\ close /\ Goto(s, "trimmed")
     \/ (close \/ UNCHANGED volume) /\ Goto(s, "changeless")
  /\ UNCHANGED <<watch, chain, link, sent, flying, executed>>

\* Mutant of Trimmed: the rest is not written back.
TrimmedUnwritten(s) ==
  /\ At(s, "trimmed")
  /\ Levels(s)
  /\ UNCHANGED <<watch, chain, link, broker>>

\* What is left is written to the link, or cannot be written.
Trimmed(s) ==
  LET write == link' = [link EXCEPT !.copied = part[s].rest, !.old = FALSE] IN
  /\ At(s, "trimmed")
  /\ \/ write /\ Levels(s)
     \/ (write \/ UNCHANGED link) /\ Goto(s, "changeless")
  /\ UNCHANGED <<watch, chain, broker>>

\* The failure is noted in the link, whose status stays; the error of a link is
\* read only after a failed OPEN.
Changeless(s) ==
  /\ At(s, "changeless")
  /\ Record(s, "MODIFY", "FAILED")
  /\ link' \in {link, [link EXCEPT !.old = FALSE]}
  /\ UNCHANGED <<watch, chain, broker>>

-----------------------------------------------------------------------------
(* Closing, by a chain or by a recovery.                                   *)

\* Mutant of Claimable: a close that lost its worker is never taken up again.
OpenOnly == link.status = "OPEN" /\ link.ticket # 0

\* claimClose: an open copy, or one that has been closing for a minute.
Claimable == link.ticket # 0 /\ (link.status = "OPEN" \/ (link.status = "CLOSING" /\ link.old))

Claim(r) ==
  /\ At(r, "claim")
  /\ Claimable
  /\ Update("CLOSING", link.ticket, link.code)
  /\ pc' = [pc EXCEPT ![r] = "closing"]
  /\ mine' = [mine EXCEPT ![r] = link.ticket]
  /\ UNCHANGED <<watch, chain, part, broker, rows>>

\* Claimed, but the answer is lost: asked again at once, nothing is left to claim.
ClaimLost(r) ==
  /\ At(r, "claim")
  /\ Claimable
  /\ Update("CLOSING", link.ticket, link.code)
  /\ Silent(r)
  /\ UNCHANGED <<watch, chain, broker>>

\* Nothing to claim, or the database does not answer.
NoClaim(r) ==
  /\ At(r, "claim")
  /\ \/ /\ r \in Streams /\ link.status = "OPEN" /\ link.ticket = 0
        /\ Record(r, "CLOSE", "SKIPPED")
     \/ Silent(r)
  /\ UNCHANGED <<watch, chain, link, broker>>

\* closeFollower, with its repetitions: the position is closed, or gone already;
\* or it fails, which does not mean that the position is still there.
Close(r) ==
  /\ At(r, "closing")
  /\ \/ Shut(mine[r], 0) /\ Goto(r, "closed")
     \/ (Shut(mine[r], 0) \/ UNCHANGED volume) /\ Goto(r, "reopen")
  /\ UNCHANGED <<watch, chain, link, sent, flying, executed>>

\* Mutant of Closed: whatever came of the close, the copy counts as closed.
ClosedAnyway(r) ==
  /\ At(r, "closed") \/ At(r, "reopen")
  /\ Update("CLOSED", link.ticket, "none")
  /\ Record(r, "CLOSE", "COPIED")
  /\ UNCHANGED <<watch, chain, broker>>

Closed(r) ==
  /\ At(r, "closed")
  /\ \/ Update("CLOSED", link.ticket, "none") /\ Record(r, "CLOSE", "COPIED")
     \/ (Update("CLOSED", link.ticket, "none") \/ UNCHANGED link) /\ Goto(r, "reopen")
  /\ UNCHANGED <<watch, chain, broker>>

\* "put it back so the next close (or the person) can find it"
Reopen(r) ==
  /\ At(r, "reopen")
  /\ Update("OPEN", link.ticket, link.code) \/ UNCHANGED link
  /\ Record(r, "CLOSE", "FAILED")
  /\ UNCHANGED <<watch, chain, broker>>

\* STALE_CLOSING_MS pass.
Age ==
  /\ link.status = "CLOSING"
  /\ ~link.old
  /\ link' = [link EXCEPT !.old = TRUE]
  /\ UNCHANGED <<watch, chain, runs, broker, rows>>

Following(p) == \E s \in Streams : ProcessOf[s] = p /\ stream[s] = "following"

\* Mutant of ListCopies: the copies are not looked up before the live positions.
ListNothing(p) ==
  /\ At(p, "idle")
  /\ Following(p)
  /\ Goto(p, "listed")
  /\ UNCHANGED <<watch, chain, link, broker>>

\* closeVanishedPositions: the copies that could be closed, then ...
ListCopies(p) ==
  /\ At(p, "idle")
  /\ Following(p)
  /\ Claimable
  /\ Goto(p, "listed")
  /\ UNCHANGED <<watch, chain, link, broker>>

\* ... the live positions, twice; no answer ends the recovery.
Confirm(p) ==
  /\ At(p, "listed")
  /\ source # "open"
  /\ Goto(p, "claim")
  /\ UNCHANGED <<watch, chain, link, broker>>

NoConfirm(p) ==
  /\ At(p, "listed")
  /\ Silent(p)
  /\ UNCHANGED <<watch, chain, link, broker>>

-----------------------------------------------------------------------------
CopyOpen(s) ==
  Take(s) \/ Look(s) \/ Plan(s) \/ Reserve(s) \/ Again(s) \/ Send(s) \/ Answer(s) \/ Write(s) \/ Fail(s)

CopyModify(s) == Trim(s) \/ Trimmed(s) \/ Changeless(s)

CopyClose(r) == Claim(r) \/ ClaimLost(r) \/ NoClaim(r) \/ Close(r) \/ Closed(r) \/ Reopen(r)

Recover(p) == ListCopies(p) \/ Confirm(p) \/ NoConfirm(p)

Next ==
  \/ SourceMoves \/ SourceShrinks \/ BrokerActs \/ Age
  \/ \E s \in Streams : OpenStream(s) \/ SeeOpen(s) \/ SeeShrunk(s) \/ SeeGone(s) \/ LoseStream(s)
                           \/ CopyOpen(s) \/ CopyModify(s)
  \/ \E r \in Runners : CopyClose(r)
  \/ \E p \in Processes : Crash(p) \/ Recover(p)

Spec == Init /\ [][Next]_vars

\* Streams are opened, every run goes on, a recovery starts every few minutes.
\* The database and the list of positions do not fail for ever.
Fairness ==
  /\ WF_vars(Age)
  /\ \A s \in Streams : WF_vars(OpenStream(s)) /\ WF_vars(CopyOpen(s) \/ CopyModify(s))
  /\ \A r \in Runners : WF_vars(CopyClose(r))
  /\ \A p \in Processes :
       WF_vars(ListCopies(p)) /\ SF_vars(Confirm(p)) /\ SF_vars(Claim(p))

FairSpec == Spec /\ Fairness

-----------------------------------------------------------------------------
\* Every variable has its type.
TypeOK ==
  /\ source \in {"unborn", "open", "gone"}
  /\ size \in 1..Size
  /\ stream \in [Streams -> {"new", "following", "ended"}]
  /\ knows \in [Streams -> 0..Size]
  /\ handled \in [Processes -> BOOLEAN]
  /\ chain \in [Streams -> Seq({<<"existing">>, <<"open">>, <<"close">>} \cup ((1..Size) \X (1..Size)))]
  /\ pc \in [Runners -> {"idle", "look", "plan", "reserve", "again", "order", "asking", "write",
                         "rewrite", "refused", "unclear", "claim", "closing", "closed", "reopen", "listed",
                         "trim", "trimmed", "changeless"}]
  /\ mine \in [Runners -> Nat]
  /\ part \in [Streams -> [amount: 0..Lot, rest: 0..Lot]]
  /\ link \in [status: {"NONE", "PENDING", "OPEN", "CLOSING", "CLOSED", "FAILED"}, ticket: Nat,
               copied: 0..Lot, code: {"none", "certain", "uncertain"}, old: BOOLEAN]
  /\ sent \in Nat
  /\ flying \subseteq 1..sent
  /\ executed \subseteq 1..sent
  /\ volume \in [executed -> 0..Lot]
  /\ rows \subseteq Told
  /\ faults \in 0..MaxFaults

\* "one order per (route, source position)": whatever is repeated, lost or
\* restarted, the follower has one copy of a position at most, executed or still
\* on its way.
OneCopy == \A o, p \in executed \cup flying : o = p

\* "a failed attempt that certainly sent nothing may be tried again": a link that
\* may be tried again has no order, executed or on its way.
RetryIsSafe == MayTryAgain => executed \cup flying = {}

\* The reservation comes before the order, and a link that says CLOSED leaves
\* nothing open at the follower, however the close and its repetitions cross.
TruthfulLink ==
  /\ sent > 0 => link.status # "NONE"
  /\ link.status = "CLOSED" => held \cup flying = {}

\* "so it can never be taken for 'the source closed it'": a recovery closes a
\* copy only when the source has closed the position, however the copy and the
\* lists cross.  "the follower closes the same share": a MODIFY never leaves less
\* of the copy than the source has left, unless one before it failed and the
\* person was told.
NeverClosedEarly ==
  [][/\ \A p \in Processes : (At(p, "closing") /\ pc'[p] \in {"closed", "reopen"}) => source = "gone"
     /\ \A s \in Streams : \A o \in executed :
          (At(s, "trim") /\ pc'[s] # "trim" /\ <<"MODIFY", "FAILED">> \notin rows /\ volume'[o] # volume[o])
             => volume'[o] * Size >= size * Lot]_vars

\* A copy whose ticket was recorded does not outlive its source position: it is
\* closed, or the person is told that it could not be.
CopiesAreClosed ==
  (source = "gone" /\ link.ticket \in held) ~> (held = {} \/ <<"CLOSE", "FAILED">> \in rows)
=============================================================================
