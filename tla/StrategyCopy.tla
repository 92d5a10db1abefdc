---------------------------- MODULE StrategyCopy ----------------------------
(***************************************************************************)
(* Copying one position of a strategy's master to one follower account:    *)
(* the runs of executeCopyForEvent over the events of that position        *)
(* (src/lib/services/copyTradingService.ts).  The copy worker runs each    *)
(* event once, in order; background jobs, an operator and the archiving of *)
(* a strategy run them again, in other processes, at any time.             *)
(*                                                                         *)
(* A row of copy_trade_links stands for each event that opens something:   *)
(* the OPEN, and the MODIFY that adds volume.  Who may follow, lots and    *)
(* levels are left out: a run may end before it has reserved anything.     *)
(***************************************************************************)
EXTENDS Naturals, FiniteSets

CONSTANTS
  Repeats,   \* runs that are not the worker's own
  RepeatOf,  \* RepeatOf[r]: the event run r is about
  Archives,  \* those of closeAllStrategyPositions, which need no CLOSE of the master
  MaxFaults, \* bound: writes of the database that fail or whose answer is lost
  MaxOrders, \* bound: orders placed for one event
  MaxCrashes \* bound: runs that end with their process

Events == {"open", "add", "change", "close"}
Openings == {"open", "add"}
Direct == "direct"
Runs == {Direct} \cup Repeats

ASSUME StrategyAssumption ==
  /\ Direct \notin Repeats /\ RepeatOf \in [Repeats -> Events]
  /\ Archives \subseteq {r \in Repeats : RepeatOf[r] = "close"}
  /\ {MaxFaults, MaxOrders, MaxCrashes} \subseteq Nat

VARIABLES
  stored,    \* the master events stored so far
  link,      \* the row of each opening: its status and the follower's ticket
  run,       \* each run: its event, where it is, the row it works on, the copies it has to do
  waiting,   \* the repeats that have not begun
  positions, \* the follower's open positions, named by event and number
  placed,    \* how many orders were placed for each opening
  unnamed,   \* those the broker has answered without a ticket
  doubt,     \* history: what has ended without a sure answer
  faults,
  crashes

orders == <<placed, unnamed>>
ghosts == <<doubt, faults, crashes>>
vars == <<stored, link, run, waiting, positions, orders, ghosts>>

None == <<"none", 0>>
Off == [event |-> "none", at |-> "off", on |-> None, todo |-> {}]

Init ==
  /\ stored = {}
  /\ link = [e \in Openings |-> [status |-> "absent", ticket |-> None]]
  /\ run = [r \in Runs |-> Off]
  /\ waiting = Repeats
  /\ positions = {}
  /\ placed = [e \in Openings |-> 0]
  /\ unnamed = {}
  /\ doubt = {}
  /\ faults = 0
  /\ crashes = 0

-----------------------------------------------------------------------------
At(r, place) == run[r].at = place
Goto(r, place) == run' = [run EXCEPT ![r].at = place]
Ends(r) == run' = [run EXCEPT ![r] = Off]
Work(r, e) == run' = [run EXCEPT ![r].at = "send", ![r].on = <<e, 0>>]

\* The opening whose row r works on.
Row(r) == run[r].on[1]

SetStatus(e, status) == link' = [link EXCEPT ![e].status = status]

\* A call of the database fails, or its answer is lost.
Fault ==
  /\ faults < MaxFaults
  /\ faults' = faults + 1
  /\ doubt' = doubt \cup {"database"}
  /\ UNCHANGED crashes

\* The master event is stored and the worker runs it: one after another.
Store(e) ==
  /\ run[Direct] = Off
  /\ e \notin stored /\ "close" \notin stored
  /\ e = "open" \/ "open" \in stored
  /\ stored' = stored \cup {e}
  /\ run' = [run EXCEPT ![Direct] = [Off EXCEPT !.event = e, !.at = "start"]]
  /\ UNCHANGED <<link, waiting, positions, orders, ghosts>>

Repeat(r) ==
  /\ r \in waiting
  /\ RepeatOf[r] \in stored \/ (r \in Archives /\ "open" \in stored)
  /\ waiting' = waiting \ {r}
  /\ run' = [run EXCEPT ![r] = [Off EXCEPT !.event = RepeatOf[r], !.at = "start"]]
  /\ UNCHANGED <<stored, link, positions, orders, ghosts>>

\* A switch is off, the database cannot be read, or the follower is not eligible.
Gated(r) ==
  /\ At(r, "start")
  /\ Ends(r)
  /\ UNCHANGED <<stored, link, waiting, positions, orders, ghosts>>

-----------------------------------------------------------------------------
(* OPEN                                                                    *)

\* The row is inserted unless the event has one for this follower already.
Reserve(r) ==
  /\ At(r, "start") /\ run[r].event = "open"
  /\ \/ /\ link["open"].status = "absent"
        /\ SetStatus("open", "PENDING")
        /\ Work(r, "open")
        /\ UNCHANGED ghosts
     \/ /\ link["open"].status # "absent"
        /\ Goto(r, "look")
        /\ UNCHANGED <<link, ghosts>>
     \/ /\ Fault
        /\ run' = [run EXCEPT ![r].at = "failed", ![r].on = <<"open", 0>>]
        /\ \/ UNCHANGED link
           \/ link["open"].status = "absent" /\ SetStatus("open", "PENDING")
  /\ UNCHANGED <<stored, waiting, positions, orders>>

\* Mutant of Retakes: a reservation that is pending is taken over, too.
RetakesPending == link["open"].status \in {"FAILED", "PENDING"}

\* Only what has failed is tried again.
Retakes == link["open"].status = "FAILED"

Look(r) ==
  /\ At(r, "look") /\ run[r].event = "open"
  /\ \/ (IF Retakes THEN Goto(r, "retake") ELSE Ends(r)) /\ UNCHANGED ghosts
     \/ Fault /\ Ends(r)
  /\ UNCHANGED <<stored, link, waiting, positions, orders>>

\* By its id, whatever has become of it since; an error is not looked at.
Retake(r) ==
  /\ At(r, "retake")
  /\ \/ SetStatus("open", "PENDING") /\ UNCHANGED ghosts
     \/ Fault /\ UNCHANGED link
  /\ Work(r, "open")
  /\ UNCHANGED <<stored, waiting, positions, orders>>

\* openTrade.  The answer may be a success that names no ticket; an order may be
\* placed although the call fails; after a refusal the next spelling of the
\* symbol is tried, which is this step again.
Order(r) ==
  LET e == Row(r)
      order == <<e, placed[e] + 1>>
      Placed == /\ placed[e] < MaxOrders
                /\ placed' = [placed EXCEPT ![e] = @ + 1]
                /\ positions' = positions \cup {order}
  IN /\ At(r, "send")
     /\ \/ /\ Placed
           /\ run' = [run EXCEPT ![r].at = "write", ![r].on = order]
           /\ unnamed' \in {unnamed, unnamed \cup {order}}
           /\ UNCHANGED doubt
        \/ /\ Goto(r, "failed")
           /\ UNCHANGED <<positions, orders, doubt>>
        \/ /\ Placed
           /\ Goto(r, "failed") \/ UNCHANGED run
           /\ doubt' = doubt \cup {"order"}
           /\ UNCHANGED unnamed
     /\ UNCHANGED <<stored, link, waiting, faults, crashes>>

\* What the answer to an order says of its ticket.
TicketOf(order) == IF order \in unnamed THEN None ELSE order

\* Where a run goes on when the row it opened is written.
Written(r) == IF run[r].event = "add" THEN Goto(r, "change") ELSE Ends(r)

\* Mutant of Recorded: the row keeps the ticket it has.
RecordedStatus(e, ticket) == [link EXCEPT ![e].status = "OPEN"]

Recorded(e, ticket) == [link EXCEPT ![e] = [status |-> "OPEN", ticket |-> ticket]]

\* The ticket is written, or null for an answer that has none, for an OPEN with
\* four attempts; for added volume the error of the one attempt is not looked at.
Write(r) ==
  /\ At(r, "write")
  /\ \/ link' = Recorded(Row(r), TicketOf(run[r].on)) /\ Written(r) /\ UNCHANGED ghosts
     \/ /\ Fault
        /\ link' = Recorded(Row(r), TicketOf(run[r].on)) \/ UNCHANGED link
        /\ IF run[r].event = "add" THEN Written(r) ELSE Goto(r, "failed")
  /\ UNCHANGED <<stored, waiting, positions, orders>>

\* Mutant of MarkFailed: the row is left as it is.
MarkFailedNothing(r) ==
  /\ At(r, "failed")
  /\ Ends(r)
  /\ UNCHANGED <<stored, link, waiting, positions, orders, ghosts>>

\* The catch: whatever the row says by now, and whoever has written it.
MarkFailed(r) ==
  /\ At(r, "failed")
  /\ Ends(r)
  /\ \/ /\ IF link[Row(r)].status = "absent" THEN UNCHANGED link ELSE SetStatus(Row(r), "FAILED")
        /\ UNCHANGED ghosts
     \/ Fault /\ UNCHANGED link
  /\ UNCHANGED <<stored, waiting, positions, orders>>

-----------------------------------------------------------------------------
(* CLOSE                                                                   *)

\* Mutant of Mapped: copies that are being closed are claimed as well.
MappedOrClosing == {e \in Openings : link[e].status \in {"OPEN", "CLOSING"} /\ link[e].ticket # None}

\* The copies of the position that are open and have a ticket; one without is
\* logged (COPY_MAPPING_NOT_FOUND) and left as it is.
Mapped == {e \in Openings : link[e].status = "OPEN" /\ link[e].ticket # None}

Tickets(es) == {link[e].ticket : e \in es}

\* The claim and the read of the claimed rows are one statement.
Claim(r) ==
  /\ At(r, "start") /\ run[r].event = "close" /\ Mapped # {}
  /\ \/ /\ run' = [run EXCEPT ![r].at = "close", ![r].todo = Tickets(Mapped)]
        /\ UNCHANGED ghosts
     \/ Fault /\ Ends(r)
  /\ link' = [e \in Openings |-> IF e \in Mapped THEN [link[e] EXCEPT !.status = "CLOSING"] ELSE link[e]]
  /\ UNCHANGED <<stored, waiting, positions, orders>>

\* The accounts could not be warmed up: the copies are given back.
GiveBack(r) ==
  /\ At(r, "close") /\ run[r].on = None
  /\ link' = [e \in Openings |->
       IF link[e].ticket \in run[r].todo /\ link[e].status = "CLOSING"
       THEN [link[e] EXCEPT !.status = "OPEN"] ELSE link[e]]
  /\ Ends(r)
  /\ UNCHANGED <<stored, waiting, positions, orders, ghosts>>

\* closeTrade: done, refused (as it is for a position that is gone), or done
\* although the call fails.
CloseTrade(r) ==
  /\ At(r, "close")
  /\ \E ticket \in run[r].todo :
       LET Then(place) == run' = [run EXCEPT ![r].at = place, ![r].on = ticket] IN
       \/ /\ ticket \in positions
          /\ positions' = positions \ {ticket}
          /\ \/ Then("closed") /\ UNCHANGED doubt
             \/ Then("reopen") /\ doubt' = doubt \cup {"close"}
       \/ Then("reopen") /\ UNCHANGED <<positions, doubt>>
  /\ UNCHANGED <<stored, link, waiting, orders, faults, crashes>>

\* The copy in hand is done.
NextCopy(r) ==
  LET left == run[r].todo \ {run[r].on} IN
  IF left = {} THEN Ends(r)
  ELSE run' = [run EXCEPT ![r].at = "close", ![r].todo = left]

\* CLOSED, or OPEN again; an error of the write is not looked at.
WriteClose(r) ==
  /\ run[r].at \in {"closed", "reopen"}
  /\ \/ /\ SetStatus(Row(r), IF At(r, "closed") THEN "CLOSED" ELSE "OPEN")
        /\ UNCHANGED ghosts
     \/ Fault /\ UNCHANGED link
  /\ NextCopy(r)
  /\ UNCHANGED <<stored, waiting, positions, orders>>

-----------------------------------------------------------------------------
(* MODIFY                                                                  *)

Read(r) ==
  /\ At(r, "start") /\ run[r].event \in {"add", "change"} /\ Mapped # {}
  /\ run' = [run EXCEPT ![r].at = IF run[r].event = "add" THEN "look" ELSE "change",
                        ![r].todo = Tickets(Mapped)]
  /\ UNCHANGED <<stored, link, waiting, positions, orders, ghosts>>

\* The volume that was added has no row yet, or one that failed.
LookAdd(r) ==
  /\ At(r, "look") /\ run[r].event = "add"
  /\ \/ /\ CASE link["add"].status = "absent" -> Goto(r, "insert")
            [] link["add"].status = "FAILED" -> Work(r, "add")
            [] OTHER -> Goto(r, "change")
        /\ UNCHANGED ghosts
     \/ Fault /\ Goto(r, "insert")
  /\ UNCHANGED <<stored, link, waiting, positions, orders>>

\* A row another run has inserted meanwhile ends this one, and so does an insert
\* that fails, although the row may be there.
InsertAdd(r) ==
  /\ At(r, "insert")
  /\ \/ /\ link["add"].status = "absent"
        /\ SetStatus("add", "PENDING") /\ Work(r, "add") /\ UNCHANGED ghosts
     \/ /\ link["add"].status # "absent"
        /\ Ends(r) /\ UNCHANGED <<link, ghosts>>
     \/ /\ Fault /\ Ends(r)
        /\ UNCHANGED link \/ (link["add"].status = "absent" /\ SetStatus("add", "PENDING"))
  /\ UNCHANGED <<stored, waiting, positions, orders>>

\* A part is closed, levels are changed; if that fails the status that was
\* read is written back.
Change(r) ==
  /\ At(r, "change")
  /\ \E ticket \in run[r].todo :
       /\ \/ ticket \in positions /\ UNCHANGED link
          \/ SetStatus(ticket[1], "OPEN")
       /\ run' = IF run[r].todo = {ticket} THEN [run EXCEPT ![r] = Off]
                 ELSE [run EXCEPT ![r].todo = @ \ {ticket}]
  /\ UNCHANGED <<stored, waiting, positions, orders, ghosts>>

-----------------------------------------------------------------------------
\* The process of a run dies.
Crash(r) ==
  /\ crashes < MaxCrashes /\ run[r] # Off
  /\ Ends(r)
  /\ crashes' = crashes + 1
  /\ doubt' = doubt \cup {"crash"}
  /\ UNCHANGED <<stored, link, waiting, positions, orders, faults>>

\* The follower's stop loss is hit, or the follower closes the position.
Stopped ==
  /\ \E ticket \in positions : positions' = positions \ {ticket}
  /\ UNCHANGED <<stored, link, run, waiting, orders, ghosts>>

Step(r) ==
  \/ Gated(r) \/ Reserve(r) \/ Look(r) \/ Retake(r) \/ Order(r) \/ Write(r) \/ MarkFailed(r)
  \/ Claim(r) \/ GiveBack(r) \/ CloseTrade(r) \/ WriteClose(r)
  \/ Read(r) \/ LookAdd(r) \/ InsertAdd(r) \/ Change(r)

Next ==
  \/ \E e \in Events : Store(e)
  \/ \E r \in Repeats : Repeat(r)
  \/ \E r \in Runs : Step(r) \/ Crash(r)
  \/ Stopped

Spec == Init /\ [][Next]_vars

\* What is asked of the broker or the database is answered or times out.
FairSpec == Spec /\ \A r \in Runs : WF_vars(Step(r))

-----------------------------------------------------------------------------
\* "Duplicate master events and follower executions are deduplicated": one order
\* for an event, unless an answer of the broker or the database was not sure.
OneOrder == doubt \cap {"order", "database"} = {} => \A e \in Openings : placed[e] <= 1

\* "A duplicate CLOSE can never send a second order": no two runs have the same
\* copy to close, whatever failed before.
OneCloser ==
  \A r, q \in Runs :
    (r # q /\ run[r].event = "close" /\ run[q].event = "close") => run[r].todo \cap run[q].todo = {}

\* Between the runs, no position of the follower is out of sight: the row of each
\* is OPEN and says what the broker's answer said, so the next CLOSE finds it by
\* its ticket, or reports it as a mapping without one.
PositionsRecorded ==
  (doubt = {} /\ \A r \in Runs : run[r] = Off) =>
    \A order \in positions : link[order[1]] = [status |-> "OPEN", ticket |-> TicketOf(order)]

\* "Recording its ticket is what lets the close find it later"
\* (copyTradingService.ts:3180): between the runs, the row of each position is
\* OPEN with the ticket the next CLOSE asks for.
ClosesFindAll ==
  (doubt = {} /\ \A r \in Runs : run[r] = Off) =>
    \A order \in positions : order[1] \in Mapped /\ link[order[1]].ticket = order

\* A reservation ends, and so does the claim for a close, unless the process died
\* or the database lost a write.
ClaimsEnd ==
  \A e \in Openings :
    link[e].status \in {"PENDING", "CLOSING"} ~>
      (link[e].status \notin {"PENDING", "CLOSING"} \/ doubt \cap {"database", "crash"} # {})
=============================================================================
