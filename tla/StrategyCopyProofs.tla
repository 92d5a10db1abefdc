------------------------- MODULE StrategyCopyProofs -------------------------
(***************************************************************************)
(* Theorems about StrategyCopy, for any number of repeated runs, faults,   *)
(* crashes and orders, with the conditions each of them names.             *)
(***************************************************************************)
EXTENDS StrategyCopy, TLAPS

USE DEF orders

\* No event that opens something is repeated twice over.
RepeatedOnce ==
  \A r, q \in Repeats : (RepeatOf[r] = RepeatOf[q] /\ RepeatOf[r] \in Openings) => r = q

\* Beside the worker's own run of the CLOSE there is one other at most, no run
\* of a MODIFY beside the worker's, and no archive.
ClosedTwiceAtMost ==
  /\ Archives = {}
  /\ \A r \in Repeats : RepeatOf[r] \in {"open", "close"}
  /\ \A r, q \in Repeats : (RepeatOf[r] = "close" /\ RepeatOf[q] = "close") => r = q

Statuses == {"absent", "PENDING", "OPEN", "FAILED", "CLOSING", "CLOSED"}
Places == {"off", "start", "look", "retake", "send", "write", "failed", "close", "closed", "reopen",
           "insert", "change"}
Orders == Openings \X Nat

RunRecords == [event : Events \cup {"none"}, at : Places, on : Orders \cup {None}, todo : SUBSET Orders]
LinkRecords == [status : Statuses, ticket : Orders \cup {None}]

\* An order that was placed.
Placed(t) == t \in Orders /\ t[2] > 0 /\ t[2] <= placed[t[1]]

\* Every variable has its type, and tickets are those of orders that were placed.
TypeOK ==
  /\ stored \subseteq Events
  /\ link \in [Openings -> LinkRecords]
  /\ run \in [Runs -> RunRecords]
  /\ waiting \subseteq Repeats
  /\ positions \subseteq Orders
  /\ placed \in [Openings -> Nat]
  /\ unnamed \subseteq Orders
  /\ doubt \subseteq {"order", "database", "close", "crash"}

TicketsPlaced ==
  /\ \A e \in Openings : link[e].ticket # None => Placed(link[e].ticket) /\ link[e].ticket[1] = e
  /\ \A t \in positions : Placed(t)
  /\ \A r \in Runs : /\ \A t \in run[r].todo : Placed(t)
                     /\ \A t, u \in run[r].todo : t[1] = u[1] => t = u
                     /\ At(r, "write") => Placed(run[r].on)

\* What a run does at each place, and what it has in hand there.
Shape(r) ==
  /\ At(r, "off") <=> run[r] = Off
  /\ At(r, "off") <=> run[r].event = "none"
  /\ At(r, "start") => run[r].todo = {}
  /\ At(r, "retake") => run[r].event = "open"
  /\ run[r].at \in {"send", "write", "failed"} =>
       run[r].event \in Openings /\ run[r].on \in Orders /\ Row(r) = run[r].event
  /\ At(r, "insert") => run[r].event = "add"
  /\ At(r, "change") => run[r].event \in {"add", "change"}
  /\ run[r].at \in {"close", "closed", "reopen"} => run[r].event = "close"
  /\ run[r].event = "close" => run[r].at \in {"start", "close", "closed", "reopen"}
  /\ run[r].at \in {"closed", "reopen"} => run[r].on \in run[r].todo
  /\ At(r, "closed") => run[r].on \notin positions

\* Every run comes once.
Scheduled ==
  /\ run[Direct].event \in stored \cup {"none"}
  /\ \A r \in Repeats : /\ run[r].event \in {RepeatOf[r], "none"}
                        /\ r \in waiting => run[r] = Off

BInv ==
  /\ TypeOK
  /\ TicketsPlaced
  /\ \A r \in Runs : Shape(r)
  /\ Scheduled

-----------------------------------------------------------------------------
Sure == doubt \cap {"order", "database"} = {}

\* A run of e that will do nothing any more.
Over(r, e) ==
  IF r = Direct THEN e \in stored /\ run[r].event # e
  ELSE RepeatOf[r] = e /\ r \notin waiting /\ run[r] = Off

\* A run that has the row of e in hand.
Holds(r, e) == run[r].event = e /\ run[r].at \in {"retake", "send", "write", "failed"}

RunsOf(e) == {Direct} \cup {r \in Repeats : RepeatOf[r] = e}

OneHolder(e) == \A r, q \in Runs : Holds(r, e) /\ Holds(q, e) => r = q

HolderKnows(e) ==
  \A r \in Runs : Holds(r, e) =>
    /\ link[e].status \in {"PENDING", "FAILED"}
    /\ IF At(r, "write") THEN placed[e] = 1 /\ run[r].on = <<e, 1>> ELSE placed[e] = 0

\* A row fails when a run is over, and an order that is not in it is that of
\* the only other run.
FailedOnce(e) ==
  link[e].status = "FAILED" =>
    /\ \E r \in RunsOf(e) : Over(r, e)
    /\ placed[e] # 0 => \A r \in RunsOf(e) : Over(r, e) \/ (Holds(r, e) /\ At(r, "write"))

RowSays(e) ==
  /\ link[e].status = "absent" => placed[e] = 0
  /\ IF link[e].ticket = None
     THEN link[e].status \in {"absent", "PENDING", "FAILED", "OPEN"}
     ELSE link[e] \in [status : {"OPEN", "CLOSING", "CLOSED"}, ticket : {<<e, 1>>}] /\ placed[e] = 1
  /\ placed[e] <= 1
  /\ \A r \in Runs : \A t \in run[r].todo : t[1] = e => link[e].ticket = t

\* The opening has one run that may place its order.
OrderedOnce(e) == OneHolder(e) /\ HolderKnows(e) /\ FailedOnce(e) /\ RowSays(e)

OrderInv == Sure => \A e \in Openings : OrderedOnce(e)

OpenRow(t) == [status |-> "OPEN", ticket |-> TicketOf(t)]

\* Each position is about to be written, open in its row, or in a closer's hands.
InSight(t) ==
  \/ \E r \in Runs : At(r, "write") /\ run[r].on = t
  \/ link[t[1]] = OpenRow(t)
  \/ /\ link[t[1]] = [status |-> "CLOSING", ticket |-> t]
     /\ t \notin unnamed
     /\ \E r \in Runs : run[r].event = "close" /\ t \in run[r].todo

SightInv == doubt = {} => \A t \in positions : InSight(t)

-----------------------------------------------------------------------------
\* The runs of the CLOSE, and those of them that have had their claim.
Closers == RunsOf("close")
HasClaimed(r) ==
  IF r = Direct THEN "close" \in stored /\ ~(run[r].event = "close" /\ At(r, "start"))
  ELSE r \notin waiting /\ ~At(r, "start")

\* The worker is past its MODIFYs when something is closed.
ModifiesOver ==
  /\ "close" \in stored => run[Direct].event \in {"none", "close"}
  /\ \A r \in Repeats : run[r].event = "close" => "close" \in stored

\* A ticket that is to be written is in no row and in nobody's hands.
NewTicket ==
  \A r \in Runs : At(r, "write") =>
    /\ \A e \in Openings : link[e].ticket # run[r].on
    /\ \A q \in Runs : /\ run[r].on \notin run[q].todo
                       /\ (At(q, "write") /\ run[q].on = run[r].on) => q = r

\* A copy somebody closes can be claimed again only when all have had their claim.
ClaimedOnce ==
  \A r \in Runs : run[r].event = "close" =>
    \A t \in run[r].todo :
      link[t[1]] = [status |-> "OPEN", ticket |-> t] => \A q \in Closers : HasClaimed(q)

CloserInv == ModifiesOver /\ NewTicket /\ ClaimedOnce /\ OneCloser

-----------------------------------------------------------------------------
(* Types and places.                                                       *)

LEMMA DirectRuns ==
  /\ Direct \in Runs /\ Repeats \subseteq Runs /\ Direct \notin Repeats
  /\ Runs = {Direct} \cup Repeats
  /\ RepeatOf \in [Repeats -> Events]
  /\ \A e \in Openings : e \in Events /\ e # "close"
  BY StrategyAssumption DEF StrategyAssumption, Runs, Openings, Events

LEMMA OffType == Off \in RunRecords /\ Off.event = "none" /\ Off.at = "off" /\ Off.on = None /\ Off.todo = {}
  BY DEF Off, RunRecords, Places

LEMMA NoneIsNoOrder == None \notin Orders
  BY DEF None, Orders, Openings

\* What a step of run r leaves of the others.
Alone(r) == \A q \in Runs \ {r} : run'[q] = run[q]

LEMMA GotoFacts ==
  ASSUME TypeOK, NEW r \in Runs, NEW place \in Places, Goto(r, place)
  PROVE  /\ run' \in [Runs -> RunRecords] /\ Alone(r)
         /\ run'[r].at = place /\ run'[r].event = run[r].event
         /\ run'[r].on = run[r].on /\ run'[r].todo = run[r].todo
<1>1. run[r] \in RunRecords
  BY DEF TypeOK
<1>2. run'[r] = [run[r] EXCEPT !.at = place]
  BY DEF Goto, TypeOK
<1>3. run'[r] \in RunRecords
  BY <1>1, <1>2 DEF RunRecords
<1> QED BY <1>1, <1>2, <1>3 DEF Goto, TypeOK, RunRecords, Alone

LEMMA EndsFacts ==
  ASSUME TypeOK, NEW r \in Runs, Ends(r)
  PROVE  run' \in [Runs -> RunRecords] /\ Alone(r) /\ run'[r] = Off
  BY OffType DEF Ends, TypeOK, Alone

LEMMA WorkFacts ==
  ASSUME TypeOK, NEW r \in Runs, NEW e \in Openings, Work(r, e)
  PROVE  /\ run' \in [Runs -> RunRecords] /\ Alone(r)
         /\ run'[r].at = "send" /\ run'[r].event = run[r].event
         /\ run'[r].on = <<e, 0>> /\ run'[r].todo = run[r].todo
<1>1. run[r] \in RunRecords /\ <<e, 0>> \in Orders
  BY DEF TypeOK, Orders
<1>2. run'[r] = [run[r] EXCEPT !.at = "send", !.on = <<e, 0>>]
  BY DEF Work, TypeOK
<1>3. run'[r] \in RunRecords
  BY <1>1, <1>2 DEF RunRecords, Places
<1> QED BY <1>1, <1>2, <1>3 DEF Work, TypeOK, RunRecords, Alone

LEMMA StatusFacts ==
  ASSUME TypeOK, NEW e, NEW status \in Statuses, SetStatus(e, status)
  PROVE  /\ link' \in [Openings -> LinkRecords]
         /\ \A o \in Openings : /\ link'[o].ticket = link[o].ticket
                                /\ o # e => link'[o] = link[o]
                                /\ o = e => link'[o].status = status
<1>1. ASSUME NEW o \in Openings
      PROVE  /\ link'[o] \in LinkRecords
             /\ link'[o].ticket = link[o].ticket
             /\ o # e => link'[o] = link[o]
             /\ o = e => link'[o].status = status
  <2>1. link[o] \in LinkRecords
    BY DEF TypeOK
  <2>2. CASE o = e
    <3>1. link'[o] = [link[o] EXCEPT !.status = status]
      BY <2>2 DEF SetStatus, TypeOK
    <3> QED BY <2>1, <2>2, <3>1 DEF LinkRecords
  <2>3. CASE o # e
    BY <2>1, <2>3 DEF SetStatus, TypeOK
  <2> QED BY <2>2, <2>3
<1>2. link' = [o \in Openings |-> link'[o]]
  BY DEF SetStatus, TypeOK
<1> QED BY <1>1, <1>2

LEMMA FaultFacts ==
  ASSUME TypeOK, Fault
  PROVE  doubt' \subseteq {"order", "database", "close", "crash"} /\ "database" \in doubt'
  BY DEF TypeOK, Fault

\* A step of run r keeps the types if it keeps those of what it changes.
LEMMA OneRun ==
  ASSUME BInv, NEW r \in Runs, Alone(r),
         run' \in [Runs -> RunRecords], link' \in [Openings -> LinkRecords],
         stored' \subseteq Events, stored \subseteq stored', waiting' \subseteq waiting,
         doubt' \subseteq {"order", "database", "close", "crash"},
         placed' \in [Openings -> Nat], \A e \in Openings : placed[e] <= placed'[e], unnamed' \subseteq Orders,
         \A t \in positions' : t \in Orders /\ Placed(t)' /\ (t \in positions \/ ~Placed(t)),
         \A e \in Openings :
           link'[e].ticket # None => Placed(link[e].ticket)' /\ link'[e].ticket[1] = e,
         \A t \in run'[r].todo : Placed(t)',
         \A t, u \in run'[r].todo : t[1] = u[1] => t = u,
         At(r, "write")' => Placed(run[r].on)',
         Shape(r)',
         r = Direct => run'[r].event \in stored' \cup {"none"},
         r \in Repeats => run'[r].event \in {RepeatOf[r], "none"} /\ (r \in waiting' => run'[r] = Off)
  PROVE  BInv'
<1> USE DEF BInv
<1>1. TypeOK'
  BY DEF TypeOK
<1>2. ASSUME NEW t, Placed(t)
      PROVE  Placed(t)'
  <2>1. t[1] \in Openings
    BY <1>2 DEF Placed, Orders
  <2>2. placed[t[1]] <= placed'[t[1]] /\ placed[t[1]] \in Nat /\ placed'[t[1]] \in Nat /\ t[2] \in Nat
    BY <1>2, <2>1 DEF TypeOK, Placed, Orders
  <2> QED BY <1>2, <2>2 DEF Placed
<1>3. TicketsPlaced'
  <2>1. ASSUME NEW q \in Runs
        PROVE  /\ \A t \in run'[q].todo : Placed(t)'
               /\ \A t, u \in run'[q].todo : t[1] = u[1] => t = u
               /\ At(q, "write")' => Placed(run[q].on)'
    <3>1. CASE q = r
      BY <3>1
    <3>2. CASE q # r
      <4>1. run'[q] = run[q]
        BY <3>2 DEF Alone
      <4>2. /\ \A t \in run[q].todo : Placed(t)
            /\ \A t, u \in run[q].todo : t[1] = u[1] => t = u
            /\ At(q, "write") => Placed(run[q].on)
        BY DEF TicketsPlaced
      <4>3. \A t \in run'[q].todo : Placed(t)'
        BY <1>2, <4>1, <4>2
      <4>4. At(q, "write")' => Placed(run[q].on)'
        BY <1>2, <4>1, <4>2 DEF At
      <4> QED BY <4>1, <4>2, <4>3, <4>4
    <3> QED BY <3>1, <3>2
  <2>2. \A e \in Openings : link'[e].ticket # None => Placed(link[e].ticket)' /\ link'[e].ticket[1] = e
    OBVIOUS
  <2>3. \A t \in positions' : Placed(t)'
    OBVIOUS
  <2> QED BY <2>1, <2>2, <2>3 DEF TicketsPlaced, At
<1>4. ASSUME NEW q \in Runs
      PROVE  Shape(q)'
  <2>1. CASE q = r
    BY <2>1
  <2>2. CASE q # r
    <3>1. run'[q] = run[q]
      BY <2>2 DEF Alone
    <3>2. At(q, "closed") => Placed(run[q].on)
      BY DEF Shape, TicketsPlaced, At
    <3> QED BY <3>1, <3>2 DEF Shape, At, Row
  <2> QED BY <2>1, <2>2
<1>5. Scheduled'
  <2>1. ASSUME NEW q \in Repeats
        PROVE  run'[q].event \in {RepeatOf[q], "none"} /\ (q \in waiting' => run'[q] = Off)
    BY DirectRuns DEF Scheduled, Alone
  <2>2. run'[Direct].event \in stored' \cup {"none"}
    BY DirectRuns DEF Scheduled, Alone
  <2> QED BY <2>1, <2>2 DEF Scheduled
<1> QED BY <1>1, <1>3, <1>4, <1>5

DoubtType == doubt' \subseteq {"order", "database", "close", "crash"}

LEMMA MappedTickets ==
  ASSUME BInv
  PROVE  /\ \A t \in Tickets(Mapped) : t \in Orders /\ Placed(t) /\ t[1] \in Mapped /\ link[t[1]].ticket = t
         /\ \A t, u \in Tickets(Mapped) : t[1] = u[1] => t = u
<1>1. ASSUME NEW t \in Tickets(Mapped)
      PROVE  t \in Orders /\ Placed(t) /\ t[1] \in Mapped /\ link[t[1]].ticket = t
  <2>1. PICK e \in Mapped : t = link[e].ticket
    BY DEF Tickets
  <2>2. e \in Openings /\ Placed(t) /\ t[1] = e
    BY <2>1 DEF Mapped, BInv, TicketsPlaced
  <2> QED BY <2>1, <2>2 DEF Placed
<1> QED BY <1>1

\* A step of a run that has begun, places no order and writes no ticket.
LEMMA QuietStep ==
  ASSUME BInv, NEW r \in Runs, run[r] # Off, Alone(r),
         run' \in [Runs -> RunRecords], link' \in [Openings -> LinkRecords],
         \A e \in Openings : link'[e].ticket = link[e].ticket,
         UNCHANGED <<stored, waiting, orders>>, positions' \subseteq positions, DoubtType,
         run'[r].event \in {run[r].event, "none"},
         run'[r].todo \subseteq run[r].todo \/ run'[r].todo = Tickets(Mapped),
         ~At(r, "write")', Shape(r)'
  PROVE  BInv'
<1>1. \A t : Placed(t)' <=> Placed(t)
  BY DEF Placed
<1>2. \A t \in positions' : t \in Orders /\ Placed(t)' /\ (t \in positions \/ ~Placed(t))
  BY <1>1 DEF BInv, TypeOK, TicketsPlaced
<1>3. \A e \in Openings : link'[e].ticket # None => Placed(link[e].ticket)' /\ link'[e].ticket[1] = e
  <2>1. \A e \in Openings : link[e].ticket # None => Placed(link[e].ticket) /\ link[e].ticket[1] = e
    BY DEF BInv, TicketsPlaced
  <2>2. ASSUME NEW e \in Openings, link[e].ticket # None, Placed(link[e].ticket)
        PROVE  Placed(link[e].ticket)'
    BY <2>2 DEF Placed
  <2> QED BY <2>1, <2>2
<1>4. /\ \A t \in run'[r].todo : Placed(t)'
      /\ \A t, u \in run'[r].todo : t[1] = u[1] => t = u
  BY <1>1, MappedTickets DEF BInv, TicketsPlaced
<1>5. \A e \in Openings : placed[e] <= placed'[e]
  BY DEF BInv, TypeOK
<1>6. /\ r = Direct => run'[r].event \in stored' \cup {"none"}
      /\ r \in Repeats => run'[r].event \in {RepeatOf[r], "none"} /\ (r \in waiting' => run'[r] = Off)
  BY DEF BInv, Scheduled
<1>7. At(r, "write")' => Placed(run[r].on)'
  OBVIOUS
<1>8. stored' \subseteq Events /\ placed' \in [Openings -> Nat] /\ unnamed' \subseteq Orders
  BY DEF BInv, TypeOK
<1> QED BY <1>2, <1>3, <1>4, <1>5, <1>6, <1>7, <1>8, OneRun DEF DoubtType

LEMMA ShapeOff == ASSUME NEW r \in Runs, run'[r] = Off PROVE Shape(r)' /\ ~At(r, "write")'
  BY OffType DEF Shape, At, Row

\* A run that stands somewhere has begun.
LEMMA Begun ==
  ASSUME BInv, NEW r \in Runs, run[r].at # "off"
  PROVE  run[r] # Off
  BY OffType

\* The run ends, whatever it stood at.
LEMMA EndingStep ==
  ASSUME BInv, NEW r \in Runs, run[r] # Off, Ends(r), link' \in [Openings -> LinkRecords],
         \A e \in Openings : link'[e].ticket = link[e].ticket,
         UNCHANGED <<stored, waiting, orders, positions>>, DoubtType
  PROVE  BInv'
<1>1. run' \in [Runs -> RunRecords] /\ Alone(r) /\ run'[r] = Off
  BY EndsFacts DEF BInv
<1> QED BY <1>1, ShapeOff, OffType, QuietStep

-----------------------------------------------------------------------------
(* Each action keeps types and places.                                     *)

LEMMA SameLink ==
  ASSUME BInv, UNCHANGED link
  PROVE  link' \in [Openings -> LinkRecords] /\ \A e \in Openings : link'[e].ticket = link[e].ticket
  BY DEF BInv, TypeOK

LEMMA StatusLink ==
  ASSUME BInv, NEW e, NEW status \in Statuses, SetStatus(e, status)
  PROVE  link' \in [Openings -> LinkRecords] /\ \A o \in Openings : link'[o].ticket = link[o].ticket
  BY StatusFacts DEF BInv

LEMMA SameDoubt ==
  ASSUME BInv, UNCHANGED ghosts \/ Fault
  PROVE  DoubtType
  BY FaultFacts DEF BInv, TypeOK, ghosts, DoubtType

LEMMA BaseGated ==
  ASSUME BInv, NEW r \in Runs, Gated(r)
  PROVE  BInv'
  BY SameLink, SameDoubt, Begun, EndingStep DEF Gated, At

LEMMA NoOrderYet == \A e \in Openings : <<e, 0>> \in Orders /\ <<e, 0>>[1] = e
  BY DEF Orders

LEMMA BaseReserve ==
  ASSUME BInv, NEW r \in Runs, Reserve(r)
  PROVE  BInv'
<1> USE DEF BInv
<1>1. run[r] # Off /\ run[r].event = "open" /\ "open" \in Openings /\ run[r].todo = {}
  BY Begun DEF Reserve, At, Openings, Shape
<1>2. DoubtType
  BY SameDoubt DEF Reserve
<1>3. link' \in [Openings -> LinkRecords] /\ \A e \in Openings : link'[e].ticket = link[e].ticket
  BY SameLink, StatusLink DEF Reserve, Statuses
<1>4. CASE Work(r, "open")
  <2>1. Shape(r)' /\ ~At(r, "write")'
    BY ZenonT(30), <1>1, <1>4, WorkFacts, OffType, NoOrderYet DEF Shape, At, Row
  <2> QED BY <1>1, <1>2, <1>3, <1>4, <2>1, WorkFacts, QuietStep DEF Reserve
<1>5. CASE Goto(r, "look")
  <2>1. Shape(r)' /\ ~At(r, "write")'
    BY <1>1, <1>5, GotoFacts, OffType DEF Shape, At, Row, Places
  <2> QED BY <1>1, <1>2, <1>3, <1>5, <2>1, GotoFacts, QuietStep DEF Reserve, Places
<1>6. CASE run' = [run EXCEPT ![r].at = "failed", ![r].on = <<"open", 0>>]
  <2>1. run'[r] = [run[r] EXCEPT !.at = "failed", !.on = <<"open", 0>>] /\ run[r] \in RunRecords
    BY <1>6 DEF TypeOK
  <2>2. <<"open", 0>> \in Orders
    BY DEF Orders, Openings
  <2>3. run'[r] \in RunRecords
    BY <2>1, <2>2 DEF RunRecords, Places
  <2>4. run' \in [Runs -> RunRecords] /\ Alone(r)
    BY <1>6, <2>3 DEF TypeOK, Alone
  <2>5. run'[r].event = "open" /\ run'[r].at = "failed" /\ run'[r].on = <<"open", 0>> /\ run'[r].todo = {}
    BY <1>1, <2>1 DEF RunRecords
  <2>6. Shape(r)' /\ ~At(r, "write")'
    BY <1>1, <2>2, <2>5, OffType DEF Shape, At, Row
  <2> QED BY <1>1, <1>2, <1>3, <2>4, <2>5, <2>6, QuietStep DEF Reserve
<1> QED BY <1>4, <1>5, <1>6 DEF Reserve

LEMMA BaseLook ==
  ASSUME BInv, NEW r \in Runs, Look(r)
  PROVE  BInv'
<1> USE DEF BInv
<1>1. run[r] # Off /\ run[r].event = "open"
  BY Begun DEF Look, At
<1>2. DoubtType
  BY SameDoubt DEF Look
<1>3. CASE Goto(r, "retake")
  <2>1. Shape(r)' /\ ~At(r, "write")'
    BY <1>1, <1>3, GotoFacts, OffType DEF Shape, At, Row, Places
  <2> QED BY <1>1, <1>2, <1>3, <2>1, GotoFacts, SameLink, QuietStep DEF Look, Places
<1>4. CASE Ends(r)
  BY <1>1, <1>2, <1>4, SameLink, EndingStep DEF Look
<1> QED BY <1>3, <1>4 DEF Look

LEMMA BaseRetake ==
  ASSUME BInv, NEW r \in Runs, Retake(r)
  PROVE  BInv'
<1> USE DEF BInv
<1>1. run[r] # Off /\ run[r].event = "open" /\ "open" \in Openings
  BY Begun DEF Retake, At, Openings, Shape
<1>2. DoubtType
  BY SameDoubt DEF Retake
<1>3. link' \in [Openings -> LinkRecords] /\ \A e \in Openings : link'[e].ticket = link[e].ticket
  BY SameLink, StatusLink DEF Retake, Statuses
<1>4. Shape(r)' /\ ~At(r, "write")'
  BY <1>1, WorkFacts, OffType, NoOrderYet DEF Shape, At, Row, Retake
<1> QED BY <1>1, <1>2, <1>3, <1>4, WorkFacts, QuietStep DEF Retake

LEMMA BaseMarkFailed ==
  ASSUME BInv, NEW r \in Runs, MarkFailed(r)
  PROVE  BInv'
<1>1. run[r] # Off
  BY Begun DEF MarkFailed, At
<1>2. link' \in [Openings -> LinkRecords] /\ \A e \in Openings : link'[e].ticket = link[e].ticket
  BY SameLink, StatusLink DEF MarkFailed, Statuses
<1> QED BY <1>1, <1>2, SameDoubt, EndingStep DEF MarkFailed

\* What is known of a run that has the row of an opening in hand.
LEMMA InHand ==
  ASSUME BInv, NEW r \in Runs, run[r].at \in {"send", "write", "failed"}
  PROVE  run[r].event \in Openings /\ run[r].on \in Orders /\ Row(r) = run[r].event /\ run[r] # Off
  BY Begun DEF BInv, Shape, At

PlaceOrder(e) ==
  /\ placed' = [placed EXCEPT ![e] = @ + 1]
  /\ positions' = positions \cup {<<e, placed[e] + 1>>}

LEMMA OrderFacts ==
  ASSUME BInv, NEW e \in Openings, PlaceOrder(e), NEW new, new = <<e, placed[e] + 1>>
  PROVE  /\ placed' \in [Openings -> Nat] /\ placed'[e] = placed[e] + 1
         /\ \A o \in Openings : o # e => placed'[o] = placed[o]
         /\ \A o \in Openings : placed[o] <= placed'[o]
         /\ \A t : Placed(t) => Placed(t)'
         /\ new \in Orders /\ new[1] = e /\ ~Placed(new) /\ Placed(new)'
         /\ \A t \in positions' : t \in Orders /\ Placed(t)' /\ (t \in positions \/ ~Placed(t))
<1>1. placed \in [Openings -> Nat] /\ placed[e] \in Nat
  BY DEF BInv, TypeOK
<1>2. placed' \in [Openings -> Nat] /\ placed'[e] = placed[e] + 1
  BY <1>1 DEF PlaceOrder
<1>3. \A o \in Openings : o # e => placed'[o] = placed[o]
  BY <1>1 DEF PlaceOrder
<1>4. \A o \in Openings : placed[o] <= placed'[o]
  BY <1>1, <1>2, <1>3
<1>5. ASSUME NEW t, Placed(t)
      PROVE  Placed(t)'
  <2>1. t[1] \in Openings /\ t[2] \in Nat
    BY <1>5 DEF Placed, Orders
  <2>2. placed[t[1]] <= placed'[t[1]] /\ placed[t[1]] \in Nat /\ placed'[t[1]] \in Nat
    BY <1>1, <1>2, <1>4, <2>1
  <2> QED BY <1>5, <2>1, <2>2 DEF Placed
<1>6. new \in Orders /\ new[1] = e /\ new[2] = placed[e] + 1
  BY <1>1 DEF Orders
<1>7. ~Placed(new) /\ Placed(new)'
  <2>1. ~Placed(new)
    BY <1>1, <1>6 DEF Placed
  <2>2. placed'[e] = placed[e] + 1 /\ placed[e] + 1 > 0
    BY <1>1, <1>2
  <2>3. Placed(new)'
    BY <1>1, <1>6, <2>2 DEF Placed
  <2> QED BY <2>1, <2>3
<1>8. \A t \in positions : t \in Orders /\ Placed(t)
  BY DEF BInv, TypeOK, TicketsPlaced
<1>9. \A t \in positions' : t \in Orders /\ Placed(t)' /\ (t \in positions \/ ~Placed(t))
  <2>1. positions' = positions \cup {new}
    BY DEF PlaceOrder
  <2> QED BY <1>5, <1>6, <1>7, <1>8, <2>1
<1> QED BY <1>2, <1>3, <1>4, <1>5, <1>6, <1>7, <1>9

\* Tickets stay those of orders that were placed.
LEMMA SameTickets ==
  ASSUME BInv, \A t : Placed(t) => Placed(t)'
  PROVE  /\ UNCHANGED link => \A e \in Openings : link'[e].ticket # None => Placed(link[e].ticket)' /\ link'[e].ticket[1] = e
         /\ \A r \in Runs : /\ \A t \in run[r].todo : Placed(t)'
                            /\ \A t, u \in run[r].todo : t[1] = u[1] => t = u
<1>1. ASSUME NEW e \in Openings, UNCHANGED link, link'[e].ticket # None
      PROVE  Placed(link[e].ticket)' /\ link'[e].ticket[1] = e
  <2>1. Placed(link[e].ticket) /\ link[e].ticket[1] = e
    BY <1>1 DEF BInv, TicketsPlaced
  <2>2. \A t : t = link[e].ticket => Placed(t)'
    BY <2>1
  <2> QED BY <1>1, <2>1, <2>2 DEF Placed
<1> QED BY <1>1 DEF BInv, TicketsPlaced

LEMMA BaseOrder ==
  ASSUME BInv, NEW r \in Runs, Order(r)
  PROVE  BInv'
<1> USE DEF BInv
<1> DEFINE e == Row(r)
           new == <<e, placed[e] + 1>>
<1>1. run[r] # Off /\ run[r].event = e /\ e \in Openings /\ run[r].on \in Orders
  BY InHand DEF Order, At
<1>2. DoubtType
  BY DEF Order, DoubtType, TypeOK
<1>3. UNCHANGED <<stored, waiting, link>>
  BY DEF Order
<1>4. link' \in [Openings -> LinkRecords] /\ stored' \subseteq Events /\ run \in [Runs -> RunRecords]
  BY <1>3 DEF TypeOK
<1>9. unnamed' \subseteq unnamed \cup {new} /\ unnamed \subseteq Orders
  BY DEF Order, TypeOK
<1>5. /\ r = Direct => run[r].event \in stored' \cup {"none"}
      /\ r \in Repeats => run[r].event \in {RepeatOf[r], "none"} /\ r \notin waiting'
  BY <1>1, <1>3 DEF Scheduled
<1>6. CASE PlaceOrder(e)
  <2>1. PICK t : t = new
    OBVIOUS
  <2> HIDE DEF e
  <2>2. /\ placed' \in [Openings -> Nat]
        /\ \A o \in Openings : placed[o] <= placed'[o]
        /\ \A x : Placed(x) => Placed(x)'
        /\ t \in Orders /\ t[1] = e /\ ~Placed(t) /\ Placed(t)'
        /\ \A x \in positions' : x \in Orders /\ Placed(x)' /\ (x \in positions \/ ~Placed(x))
    BY <1>1, <1>6, <2>1, OrderFacts
  <2>3. /\ \A o \in Openings : link'[o].ticket # None => Placed(link[o].ticket)' /\ link'[o].ticket[1] = o
        /\ \A x \in run[r].todo : Placed(x)'
        /\ \A x, u \in run[r].todo : x[1] = u[1] => x = u
    BY <1>3, <2>2, SameTickets
  <2>8. unnamed' \subseteq Orders
    BY <1>9, <2>1, <2>2
  <2>4. CASE run' = [run EXCEPT ![r].at = "write", ![r].on = t]
    <3>1. run'[r] = [run[r] EXCEPT !.at = "write", !.on = t] /\ run[r] \in RunRecords
      BY <2>4 DEF TypeOK
    <3>2. run'[r] \in RunRecords
      BY <2>2, <3>1 DEF RunRecords, Places
    <3>3. run' \in [Runs -> RunRecords] /\ Alone(r)
      BY <2>4, <3>2 DEF TypeOK, Alone
    <3>4. run'[r].event = e /\ run'[r].at = "write" /\ run'[r].on = t /\ run'[r].todo = run[r].todo
      BY <1>1, <3>1 DEF RunRecords
    <3>5. Shape(r)'
      BY <1>1, <2>2, <3>4, OffType, DirectRuns DEF Shape, At, Row, Openings
    <3>6. Placed(run[r].on)'
      BY <2>2, <3>4 DEF Placed
    <3>7. r \in Repeats => run'[r].event \in {RepeatOf[r], "none"} /\ (r \in waiting' => run'[r] = Off)
      BY <1>1, <1>5, <3>4
    <3>8. r = Direct => run'[r].event \in stored' \cup {"none"}
      BY <1>1, <1>5, <3>4
    <3> QED BY <1>2, <1>3, <1>4, <2>2, <2>3, <2>8, <3>3, <3>4, <3>5, <3>6, <3>7, <3>8, OneRun DEF DoubtType
  <2>5. CASE Goto(r, "failed")
    <3>1. /\ run' \in [Runs -> RunRecords] /\ Alone(r) /\ run'[r].at = "failed" /\ run'[r].event = e
          /\ run'[r].on = run[r].on /\ run'[r].todo = run[r].todo
      BY <1>1, <2>5, GotoFacts DEF Places
    <3>2. Shape(r)' /\ ~At(r, "write")'
      BY <1>1, <3>1, OffType DEF Shape, At, Row, Openings, e
    <3>7. r \in Repeats => run'[r].event \in {RepeatOf[r], "none"} /\ (r \in waiting' => run'[r] = Off)
      BY <1>1, <1>5, <3>1
    <3>8. r = Direct => run'[r].event \in stored' \cup {"none"}
      BY <1>1, <1>5, <3>1
    <3> QED BY <1>2, <1>3, <1>4, <2>2, <2>3, <2>8, <3>1, <3>2, <3>7, <3>8, OneRun DEF DoubtType
  <2>6. CASE UNCHANGED run
    <3>1. run' \in [Runs -> RunRecords] /\ Alone(r)
      BY <1>4, <2>6 DEF Alone
    <3>2. Shape(r) /\ At(r, "send")
      BY DEF Order
    <3>3. Shape(r)' /\ ~At(r, "write")'
      BY <2>6, <3>2 DEF Shape, At, Row
    <3>7. r \in Repeats => run'[r].event \in {RepeatOf[r], "none"} /\ (r \in waiting' => run'[r] = Off)
      BY <1>1, <1>5, <2>6
    <3>8. r = Direct => run'[r].event \in stored' \cup {"none"}
      BY <1>1, <1>5, <2>6
    <3> QED BY <1>2, <1>3, <1>4, <2>2, <2>3, <2>8, <2>6, <3>1, <3>3, <3>7, <3>8, OneRun DEF DoubtType
  <2> QED BY <1>6, <2>1, <2>4, <2>5, <2>6 DEF Order, e
<1>7. CASE Goto(r, "failed") /\ UNCHANGED <<positions, orders, doubt>>
  <2>1. /\ run' \in [Runs -> RunRecords] /\ Alone(r) /\ run'[r].at = "failed" /\ run'[r].event = e
        /\ run'[r].on = run[r].on /\ run'[r].todo = run[r].todo
    BY <1>1, <1>7, GotoFacts DEF Places
  <2>2. Shape(r)' /\ ~At(r, "write")'
    BY <1>1, <2>1, OffType DEF Shape, At, Row, Openings
  <2> QED BY <1>1, <1>2, <1>3, <1>7, <2>1, <2>2, SameLink, QuietStep
<1> QED BY <1>6, <1>7 DEF Order, PlaceOrder

LEMMA RecordedFacts ==
  ASSUME BInv, NEW e \in Openings, NEW t \in Orders \cup {None}, link' = Recorded(e, t)
  PROVE  /\ link' \in [Openings -> LinkRecords] /\ link'[e] = [status |-> "OPEN", ticket |-> t]
         /\ link'[e].status = "OPEN" /\ link'[e].ticket = t
         /\ \A o \in Openings : o # e => link'[o] = link[o]
<1>1. [status |-> "OPEN", ticket |-> t] \in LinkRecords
  BY DEF LinkRecords, Statuses
<1> QED BY <1>1 DEF Recorded, BInv, TypeOK

\* Where a run goes when its row is written: on to its changes, or away.
LEMMA WrittenFacts ==
  ASSUME BInv, NEW r \in Runs, run[r].at \in {"send", "write", "failed"}, Written(r) \/ Goto(r, "failed")
  PROVE  /\ run' \in [Runs -> RunRecords] /\ Alone(r) /\ ~At(r, "write")' /\ Shape(r)'
         /\ run'[r] # Off => run'[r].event = run[r].event /\ run'[r].on = run[r].on
         /\ run'[r].todo \subseteq run[r].todo
         /\ run'[r].event \in {run[r].event, "none"}
         /\ \/ run'[r].at = "change" /\ run[r].event = "add"
            \/ run'[r] = Off
            \/ run'[r].at = "failed"
<1> USE DEF BInv
<1>1. run[r].event \in Openings /\ run[r].on \in Orders /\ Row(r) = run[r].event /\ run[r] # Off
  BY InHand
<1>2. CASE Ends(r)
  BY <1>1, <1>2, EndsFacts, ShapeOff, OffType
<1>3. CASE Goto(r, "change") /\ run[r].event = "add"
  BY <1>1, <1>3, GotoFacts, OffType DEF Places, Shape, At
<1>4. CASE Goto(r, "failed")
  BY <1>1, <1>4, GotoFacts, OffType, DirectRuns DEF Places, Shape, At, Row, Openings
<1> QED BY <1>2, <1>3, <1>4 DEF Written

LEMMA BaseWrite ==
  ASSUME BInv, NEW r \in Runs, Write(r)
  PROVE  BInv'
<1> USE DEF BInv
<1> DEFINE e == Row(r)
<1>1. run[r] # Off /\ run[r].event = e /\ e \in Openings /\ run[r].on \in Orders /\ Placed(run[r].on)
  BY InHand DEF Write, At, TicketsPlaced
<1>2. DoubtType
  BY SameDoubt DEF Write
<1>3. UNCHANGED <<stored, waiting, positions, orders>> /\ TicketOf(run[r].on) \in {None, run[r].on}
  BY DEF Write, TicketOf
<1>4. run' \in [Runs -> RunRecords] /\ Alone(r) /\ ~At(r, "write")' /\ Shape(r)'
      /\ run'[r].todo \subseteq run[r].todo /\ run'[r].event \in {run[r].event, "none"}
  BY WrittenFacts DEF Write, At
<1>5. CASE UNCHANGED link
  BY <1>1, <1>2, <1>3, <1>4, <1>5, SameLink, QuietStep
<1>6. CASE link' = Recorded(e, TicketOf(run[r].on))
  <2>1. /\ link' \in [Openings -> LinkRecords] /\ link'[e].ticket \in {None, run[r].on}
        /\ \A o \in Openings : o # e => link'[o] = link[o]
    BY <1>1, <1>3, <1>6, RecordedFacts
  <2>2. \A t : Placed(t) => Placed(t)'
    BY <1>3 DEF Placed
  <2>3. ASSUME NEW o \in Openings, link'[o].ticket # None
        PROVE  Placed(link[o].ticket)' /\ link'[o].ticket[1] = o
    <3>1. link'[o].ticket \in Orders /\ Placed(link'[o].ticket) /\ link'[o].ticket[1] = o
      <4>1. CASE o = e
        BY <1>1, <2>1, <2>3, <4>1 DEF Row
      <4>2. CASE o # e
        BY <2>1, <2>3, <4>2 DEF TicketsPlaced, Placed
      <4> QED BY <4>1, <4>2
    <3> QED BY <1>3, <3>1 DEF Placed
  <2>4. \A x \in positions' : x \in Orders /\ Placed(x)' /\ (x \in positions \/ ~Placed(x))
    BY <1>3, <2>2 DEF TypeOK, TicketsPlaced
  <2>5. /\ \A x \in run'[r].todo : Placed(x)'
        /\ \A x, u \in run'[r].todo : x[1] = u[1] => x = u
    BY <1>4, <2>2, SameTickets
  <2>6. /\ r = Direct => run'[r].event \in stored' \cup {"none"}
        /\ r \in Repeats => run'[r].event \in {RepeatOf[r], "none"} /\ (r \in waiting' => run'[r] = Off)
    BY <1>1, <1>3, <1>4 DEF Scheduled
  <2>7. /\ stored' \subseteq Events /\ placed' \in [Openings -> Nat] /\ \A o \in Openings : placed[o] <= placed'[o]
        /\ unnamed' \subseteq Orders
    BY <1>3 DEF TypeOK
  <2> QED BY <1>2, <1>3, <1>4, <2>1, <2>3, <2>4, <2>5, <2>6, <2>7, OneRun DEF DoubtType
<1> QED BY <1>5, <1>6 DEF Write

LEMMA BaseClaim ==
  ASSUME BInv, NEW r \in Runs, Claim(r)
  PROVE  BInv'
<1> USE DEF BInv
<1>1. run[r] # Off /\ run[r].event = "close"
  BY Begun DEF Claim, At
<1>2. DoubtType
  BY SameDoubt DEF Claim
<1>3. link' \in [Openings -> LinkRecords] /\ \A e \in Openings : link'[e].ticket = link[e].ticket
  BY DEF Claim, TypeOK, LinkRecords, Statuses
<1>4. CASE Ends(r)
  BY <1>1, <1>2, <1>3, <1>4, EndingStep DEF Claim
<1>5. CASE run' = [run EXCEPT ![r].at = "close", ![r].todo = Tickets(Mapped)]
  <2>1. run'[r] = [run[r] EXCEPT !.at = "close", !.todo = Tickets(Mapped)] /\ run[r] \in RunRecords
    BY <1>5 DEF TypeOK
  <2>2. Tickets(Mapped) \subseteq Orders
    BY MappedTickets
  <2>3. run'[r] \in RunRecords
    BY <2>1, <2>2 DEF RunRecords, Places
  <2>4. run' \in [Runs -> RunRecords] /\ Alone(r)
    BY <1>5, <2>3 DEF TypeOK, Alone
  <2>5. run'[r].event = "close" /\ run'[r].at = "close" /\ run'[r].todo = Tickets(Mapped)
    BY <1>1, <2>1 DEF RunRecords
  <2>6. Shape(r)' /\ ~At(r, "write")'
    BY <2>5, OffType DEF Shape, At, Openings
  <2> QED BY <1>1, <1>2, <1>3, <2>4, <2>5, <2>6, QuietStep DEF Claim
<1> QED BY <1>4, <1>5 DEF Claim

LEMMA BaseGiveBack ==
  ASSUME BInv, NEW r \in Runs, GiveBack(r)
  PROVE  BInv'
<1>1. run[r] # Off
  BY Begun DEF GiveBack, At
<1>2. link' \in [Openings -> LinkRecords] /\ \A e \in Openings : link'[e].ticket = link[e].ticket
  BY DEF GiveBack, BInv, TypeOK, LinkRecords, Statuses
<1> QED BY <1>1, <1>2, SameDoubt, EndingStep DEF GiveBack

LEMMA BaseCloseTrade ==
  ASSUME BInv, NEW r \in Runs, CloseTrade(r)
  PROVE  BInv'
<1> USE DEF BInv
<1>1. run[r] # Off /\ run[r].event = "close" /\ run[r] \in RunRecords
  BY Begun DEF CloseTrade, At, Shape, TypeOK
<1>2. DoubtType
  BY DEF CloseTrade, DoubtType, TypeOK
<1>3. PICK t \in run[r].todo, place \in {"closed", "reopen"} :
        /\ run' = [run EXCEPT ![r].at = place, ![r].on = t]
        /\ positions' \subseteq positions
        /\ place = "closed" => positions' = positions \ {t}
  BY DEF CloseTrade
<1>4. t \in Orders
  BY <1>1 DEF RunRecords
<1>5. run'[r] = [run[r] EXCEPT !.at = place, !.on = t]
  BY <1>3 DEF TypeOK
<1>6. run'[r] \in RunRecords
  BY <1>1, <1>4, <1>5 DEF RunRecords, Places
<1>7. run' \in [Runs -> RunRecords] /\ Alone(r)
  BY <1>3, <1>6 DEF TypeOK, Alone
<1>8. run'[r].event = "close" /\ run'[r].at = place /\ run'[r].on = t /\ run'[r].todo = run[r].todo
  BY <1>1, <1>5 DEF RunRecords
<1>9. Shape(r)' /\ ~At(r, "write")'
  BY <1>3, <1>8, OffType DEF Shape, At, Openings
<1> QED BY <1>1, <1>2, <1>3, <1>7, <1>8, <1>9, SameLink, QuietStep DEF CloseTrade

LEMMA NextCopyFacts ==
  ASSUME BInv, NEW r \in Runs, run[r].at \in {"closed", "reopen"}, NextCopy(r)
  PROVE  /\ run' \in [Runs -> RunRecords] /\ Alone(r) /\ ~At(r, "write")' /\ Shape(r)'
         /\ run'[r].event \in {run[r].event, "none"} /\ run'[r].todo = run[r].todo \ {run[r].on}
         /\ run'[r] # Off => run'[r].at = "close" /\ run'[r].event = "close"
         /\ run'[r] = Off => run'[r].todo = {}
<1> USE DEF BInv
<1>1. run[r].event = "close" /\ run[r] \in RunRecords
  BY DEF At, Shape, TypeOK
<1> DEFINE left == run[r].todo \ {run[r].on}
<1>2. CASE left = {} /\ Ends(r)
  BY <1>2, EndsFacts, ShapeOff, OffType
<1>3. CASE left # {} /\ run' = [run EXCEPT ![r].at = "close", ![r].todo = left]
  <2>1. run'[r] = [run[r] EXCEPT !.at = "close", !.todo = left]
    BY <1>3 DEF TypeOK
  <2>2. run'[r] \in RunRecords
    BY <1>1, <2>1 DEF RunRecords, Places
  <2>3. run' \in [Runs -> RunRecords] /\ Alone(r)
    BY <1>3, <2>2 DEF TypeOK, Alone
  <2>4. run'[r].event = "close" /\ run'[r].at = "close" /\ run'[r].todo = left
    BY <1>1, <2>1 DEF RunRecords
  <2>5. Shape(r)' /\ ~At(r, "write")' /\ run'[r] # Off
    BY <2>4, OffType DEF Shape, At, Openings
  <2> QED BY <1>1, <2>3, <2>4, <2>5
<1> QED BY <1>2, <1>3 DEF NextCopy

LEMMA BaseWriteClose ==
  ASSUME BInv, NEW r \in Runs, WriteClose(r)
  PROVE  BInv'
<1>1. run[r] # Off
  BY Begun DEF WriteClose
<1>2. link' \in [Openings -> LinkRecords] /\ \A e \in Openings : link'[e].ticket = link[e].ticket
  BY SameLink, StatusLink DEF WriteClose, Statuses
<1> QED BY <1>1, <1>2, NextCopyFacts, SameDoubt, QuietStep DEF WriteClose

LEMMA BaseRead ==
  ASSUME BInv, NEW r \in Runs, Read(r)
  PROVE  BInv'
<1> USE DEF BInv
<1>1. run[r] # Off /\ run[r].event \in {"add", "change"}
  BY Begun DEF Read, At
<1>2. DoubtType
  BY SameDoubt DEF Read
<1>3. PICK place \in {"look", "change"} : run' = [run EXCEPT ![r].at = place, ![r].todo = Tickets(Mapped)]
  BY DEF Read
<1>4. run'[r] = [run[r] EXCEPT !.at = place, !.todo = Tickets(Mapped)] /\ run[r] \in RunRecords
  BY <1>3 DEF TypeOK
<1>5. Tickets(Mapped) \subseteq Orders
  BY MappedTickets
<1>6. run'[r] \in RunRecords
  BY <1>4, <1>5 DEF RunRecords, Places
<1>7. run' \in [Runs -> RunRecords] /\ Alone(r)
  BY <1>3, <1>6 DEF TypeOK, Alone
<1>8. run'[r].event = run[r].event /\ run'[r].at = place /\ run'[r].todo = Tickets(Mapped)
  BY <1>4 DEF RunRecords
<1>9. Shape(r)' /\ ~At(r, "write")'
  BY <1>1, <1>8, OffType DEF Shape, At, Openings
<1> QED BY <1>1, <1>2, <1>7, <1>8, <1>9, SameLink, QuietStep DEF Read

LEMMA BaseLookAdd ==
  ASSUME BInv, NEW r \in Runs, LookAdd(r)
  PROVE  BInv'
<1> USE DEF BInv
<1>1. run[r] # Off /\ run[r].event = "add" /\ "add" \in Openings
  BY Begun DEF LookAdd, At, Openings
<1>2. DoubtType
  BY SameDoubt DEF LookAdd
<1>3. /\ run' \in [Runs -> RunRecords] /\ Alone(r) /\ Shape(r)' /\ ~At(r, "write")'
      /\ run'[r].event = run[r].event /\ run'[r].todo = run[r].todo
  <2>1. CASE Work(r, "add")
    BY ZenonT(30), <1>1, <2>1, WorkFacts, OffType, NoOrderYet DEF Shape, At, Row
  <2>2. ASSUME NEW place \in {"insert", "change"}, Goto(r, place)
        PROVE  <1>3
    <3>1. place \in Places
      BY DEF Places
    <3> QED BY <1>1, <2>2, <3>1, GotoFacts, OffType DEF Shape, At, Row
  <2> QED BY <2>1, <2>2 DEF LookAdd
<1> QED BY <1>1, <1>2, <1>3, SameLink, QuietStep DEF LookAdd

LEMMA BaseInsertAdd ==
  ASSUME BInv, NEW r \in Runs, InsertAdd(r)
  PROVE  BInv'
<1> USE DEF BInv
<1>1. run[r] # Off /\ run[r].event = "add" /\ "add" \in Openings
  BY Begun DEF InsertAdd, At, Shape, Openings
<1>2. DoubtType
  BY SameDoubt DEF InsertAdd
<1>3. link' \in [Openings -> LinkRecords] /\ \A e \in Openings : link'[e].ticket = link[e].ticket
  BY SameLink, StatusLink DEF InsertAdd, Statuses
<1>4. CASE Work(r, "add")
  <2>1. Shape(r)' /\ ~At(r, "write")'
    BY ZenonT(30), <1>1, <1>4, WorkFacts, OffType, NoOrderYet DEF Shape, At, Row
  <2> QED BY <1>1, <1>2, <1>3, <1>4, <2>1, WorkFacts, QuietStep DEF InsertAdd
<1>5. CASE Ends(r)
  BY <1>1, <1>2, <1>3, <1>5, EndingStep DEF InsertAdd
<1> QED BY <1>4, <1>5 DEF InsertAdd

LEMMA ChangeFacts ==
  ASSUME BInv, NEW r \in Runs, Change(r)
  PROVE  /\ run' \in [Runs -> RunRecords] /\ Alone(r) /\ ~At(r, "write")' /\ Shape(r)'
         /\ run'[r].event \in {run[r].event, "none"} /\ run'[r].todo \subseteq run[r].todo
         /\ run'[r] # Off => run'[r].at = "change" /\ run'[r].event = run[r].event
         /\ link' \in [Openings -> LinkRecords] /\ \A e \in Openings : link'[e].ticket = link[e].ticket
         /\ run[r] # Off /\ run[r].event \in {"add", "change"}
<1> USE DEF BInv
<1>1. run[r] # Off /\ run[r].event \in {"add", "change"} /\ run[r] \in RunRecords
  BY Begun DEF Change, At, Shape, TypeOK
<1>2. PICK t \in run[r].todo :
        /\ UNCHANGED link \/ SetStatus(t[1], "OPEN")
        /\ run' = IF run[r].todo = {t} THEN [run EXCEPT ![r] = Off] ELSE [run EXCEPT ![r].todo = @ \ {t}]
  BY DEF Change
<1>3. link' \in [Openings -> LinkRecords] /\ \A e \in Openings : link'[e].ticket = link[e].ticket
  BY <1>2, SameLink, StatusLink DEF Statuses
<1>4. CASE run' = [run EXCEPT ![r] = Off]
  BY <1>1, <1>3, <1>4, EndsFacts, ShapeOff, OffType DEF Ends
<1>5. CASE run' = [run EXCEPT ![r].todo = @ \ {t}]
  <2>1. run'[r] = [run[r] EXCEPT !.todo = @ \ {t}]
    BY <1>5 DEF TypeOK
  <2>2. run'[r] \in RunRecords
    BY <1>1, <2>1 DEF RunRecords
  <2>3. run' \in [Runs -> RunRecords] /\ Alone(r)
    BY <1>5, <2>2 DEF TypeOK, Alone
  <2>4. run'[r].event = run[r].event /\ run'[r].at = "change" /\ run'[r].todo \subseteq run[r].todo
    BY <1>1, <2>1 DEF RunRecords, Change, At
  <2>5. Shape(r)' /\ ~At(r, "write")'
    BY <1>1, <2>4, OffType DEF Shape, At, Openings
  <2> QED BY <1>1, <1>3, <2>3, <2>4, <2>5
<1> QED BY <1>2, <1>4, <1>5

LEMMA BaseChange ==
  ASSUME BInv, NEW r \in Runs, Change(r)
  PROVE  BInv'
<1>1. DoubtType
  BY SameDoubt DEF Change
<1> QED BY <1>1, ChangeFacts, QuietStep DEF Change

LEMMA BaseCrash ==
  ASSUME BInv, NEW r \in Runs, Crash(r)
  PROVE  BInv'
<1>1. DoubtType
  BY DEF Crash, DoubtType, BInv, TypeOK
<1> QED BY <1>1, SameLink, EndingStep DEF Crash

\* A run begins.
Starts(r, e) == run' = [run EXCEPT ![r] = [Off EXCEPT !.event = e, !.at = "start"]]

LEMMA StartsFacts ==
  ASSUME BInv, NEW r \in Runs, NEW e \in Events, Starts(r, e)
  PROVE  /\ run' \in [Runs -> RunRecords] /\ Alone(r) /\ Shape(r)'
         /\ run'[r].event = e /\ run'[r].at = "start" /\ run'[r].todo = {} /\ run'[r].on = None
<1>1. run'[r] = [Off EXCEPT !.event = e, !.at = "start"]
  BY DEF Starts, BInv, TypeOK
<1>2. run'[r] = [event |-> e, at |-> "start", on |-> None, todo |-> {}]
  BY <1>1 DEF Off
<1>3. run'[r] \in RunRecords
  BY <1>2 DEF RunRecords, Places
<1>4. run' \in [Runs -> RunRecords] /\ Alone(r)
  BY <1>3 DEF Starts, BInv, TypeOK, Alone
<1>5. Shape(r)'
  BY <1>2, OffType DEF Shape, At, Events, Row
<1> QED BY <1>2, <1>4, <1>5

\* What a run that begins keeps.
LEMMA StartingStep ==
  ASSUME BInv, NEW r \in Runs, NEW e \in Events, Starts(r, e),
         UNCHANGED <<link, positions, orders, ghosts>>,
         stored \subseteq stored', stored' \subseteq Events, waiting' \subseteq waiting,
         r = Direct => e \in stored', r \in Repeats => e = RepeatOf[r] /\ r \notin waiting'
  PROVE  BInv'
<1> USE DEF BInv
<1>1. /\ run' \in [Runs -> RunRecords] /\ Alone(r) /\ Shape(r)' /\ ~At(r, "write")'
      /\ run'[r].event = e /\ run'[r].todo = {}
  BY StartsFacts DEF At
<1>2. \A t : Placed(t)' <=> Placed(t)
  BY DEF Placed
<1>3. \A t \in positions' : t \in Orders /\ Placed(t)' /\ (t \in positions \/ ~Placed(t))
  BY <1>2 DEF TypeOK, TicketsPlaced
<1>4. DoubtType
  BY SameDoubt
<1>5. /\ link' \in [Openings -> LinkRecords] /\ placed' \in [Openings -> Nat] /\ \A o \in Openings : placed[o] <= placed'[o]
      /\ unnamed' \subseteq Orders
  BY DEF TypeOK
<1> QED BY <1>1, <1>2, <1>3, <1>4, <1>5, SameTickets, OneRun DEF DoubtType

LEMMA BaseStore ==
  ASSUME BInv, NEW e \in Events, Store(e)
  PROVE  BInv'
  BY DirectRuns, StartingStep DEF Store, Starts, BInv, TypeOK

LEMMA BaseRepeat ==
  ASSUME BInv, NEW r \in Repeats, Repeat(r)
  PROVE  BInv'
<1>1. RepeatOf[r] \in Events /\ r \in Runs /\ r # Direct
  BY DirectRuns
<1> QED BY <1>1, DirectRuns, StartingStep DEF Repeat, Starts, BInv, TypeOK

LEMMA BaseStopped ==
  ASSUME BInv, Stopped
  PROVE  BInv'
<1>1. positions' \subseteq positions /\ UNCHANGED <<stored, link, run, waiting, orders, ghosts>>
  BY DEF Stopped
<1>2. TypeOK' /\ Scheduled'
  BY <1>1 DEF BInv, TypeOK, Scheduled, ghosts
<1>3. \A t : Placed(t)' <=> Placed(t)
  BY <1>1 DEF Placed
<1>4. TicketsPlaced'
  <2>1. \A e \in Openings : link'[e].ticket # None => Placed(link[e].ticket)' /\ link'[e].ticket[1] = e
    BY <1>1, <1>3, SameTickets
  <2>2. \A r \in Runs : At(r, "write") => Placed(run[r].on)'
    BY <1>1 DEF Placed, BInv, TicketsPlaced
  <2>3. \A r \in Runs : /\ \A t \in run[r].todo : Placed(t)'
                       /\ \A t, u \in run[r].todo : t[1] = u[1] => t = u
    BY <1>3, SameTickets
  <2> QED BY <1>1, <1>3, <2>1, <2>2, <2>3 DEF TicketsPlaced, At, BInv
<1>5. \A r \in Runs : Shape(r)'
  BY <1>1 DEF BInv, Shape, At, Row
<1> QED BY <1>2, <1>4, <1>5 DEF BInv

LEMMA BaseInit == ASSUME Init PROVE BInv
<1>1. TypeOK
  BY OffType DEF Init, TypeOK, LinkRecords, Statuses
<1>2. \A r \in Runs : run[r] = Off
  BY DEF Init
<1>3. TicketsPlaced /\ \A r \in Runs : Shape(r)
  BY <1>2, OffType DEF Init, TicketsPlaced, Shape, At, Row
<1>4. Scheduled
  BY <1>2, OffType, DirectRuns DEF Scheduled
<1> QED BY <1>1, <1>3, <1>4 DEF BInv

LEMMA BaseStep == ASSUME BInv, [Next]_vars PROVE BInv'
<1>1. CASE UNCHANGED vars
  <2> USE <1>1 DEF vars, ghosts
  <2>1. TypeOK' /\ Scheduled' /\ \A r \in Runs : Shape(r)'
    BY DEF BInv, TypeOK, Scheduled, Shape, At, Row
  <2>2. TicketsPlaced'
    BY DEF BInv, TicketsPlaced, Placed, At
  <2> QED BY <2>1, <2>2 DEF BInv
<1>2. CASE Next
  BY <1>2, BaseStore, BaseRepeat, BaseGated, BaseReserve, BaseLook, BaseRetake, BaseOrder, BaseWrite,
     BaseMarkFailed, BaseClaim, BaseGiveBack, BaseCloseTrade, BaseWriteClose, BaseRead, BaseLookAdd,
     BaseInsertAdd, BaseChange, BaseCrash, BaseStopped DEF Next, Step
<1> QED BY <1>1, <1>2

\* Whatever fails and whoever runs an event again, every variable has its type
\* and every ticket in a row or in a run's hands is that of an order that was
\* placed for that row's event: executeCopyForEvent mixes up no tickets.
THEOREM StrategyTypes == Spec => []BInv
<1>1. Init => BInv
  BY BaseInit
<1>2. BInv /\ [Next]_vars => BInv'
  BY BaseStep
<1> QED BY <1>1, <1>2, PTL DEF Spec

-----------------------------------------------------------------------------
(* One order for an event.                                                 *)

LEMMA HoldersRuns ==
  ASSUME BInv, NEW r \in Runs, NEW e \in Events, run[r].event = e
  PROVE  r \in RunsOf(e) /\ ~Over(r, e) /\ run[r] # Off
  BY OffType, DirectRuns DEF BInv, Scheduled, RunsOf, Over, Events

LEMMA EndIsOver ==
  ASSUME BInv, NEW r \in Runs, NEW e \in Events, run[r].event = e,
         UNCHANGED <<stored, waiting>>, run'[r] = Off
  PROVE  Over(r, e)'
<1>1. e # "none" /\ run[r] # Off
  BY OffType DEF Events
<1>2. CASE r = Direct
  BY <1>1, <1>2, OffType DEF BInv, Scheduled, Over
<1>3. CASE r # Direct
  BY <1>1, <1>3, DirectRuns DEF BInv, Scheduled, Over
<1> QED BY <1>2, <1>3

\* When the row has failed and this run is not over, the other run of the event is.
LEMMA OthersOver ==
  ASSUME BInv, RepeatedOnce, NEW e \in Openings, OrderedOnce(e), link[e].status = "FAILED",
         NEW r \in Runs, run[r].event = e
  PROVE  /\ \E q \in RunsOf(e) : q # r /\ Over(q, e)
         /\ \A q \in RunsOf(e) : q # r => Over(q, e)
         /\ \A q \in Runs : Holds(q, e) => q = r
         /\ ~At(r, "write") => placed[e] = 0
<1>1. PICK q \in RunsOf(e) : Over(q, e)
  BY DEF OrderedOnce, FailedOnce
<1>2. r \in RunsOf(e) /\ ~Over(r, e)
  BY HoldersRuns, DirectRuns
<1>3. \A x, y \in RunsOf(e) : x = Direct \/ y = Direct \/ x = y
  BY DEF RunsOf, RepeatedOnce
<1>4. \A x \in RunsOf(e) : x = q \/ x = r
  BY <1>1, <1>2, <1>3
<1>5. \A x \in Runs : Holds(x, e) => x \in RunsOf(e) /\ ~Over(x, e)
  BY HoldersRuns, DirectRuns DEF Holds
<1>6. ~At(r, "write") => placed[e] = 0
  BY <1>2 DEF OrderedOnce, FailedOnce
<1> QED BY <1>1, <1>2, <1>4, <1>5, <1>6

\* The run r takes the row, and no other run has it.
LEMMA RowTaken ==
  ASSUME BInv, NEW e \in Openings, OrderedOnce(e), NEW r \in Runs, run[r].event = e, Alone(r),
         Holds(r, e)', ~At(r, "write")', ~At(r, "write"), \A q \in Runs : Holds(q, e) => q = r,
         UNCHANGED <<stored, waiting>>, placed[e] = 0, placed'[e] = 0,
         run'[r].todo = run[r].todo, link'[e].ticket = link[e].ticket, link[e].ticket = None,
         link'[e].status \in {"PENDING", "FAILED"},
         link'[e].status = "FAILED" => link[e].status = "FAILED"
  PROVE  OrderedOnce(e)'
<1>1. \A q \in Runs : Holds(q, e)' => q = r
  BY DEF Alone, Holds
<1>2. OneHolder(e)' /\ HolderKnows(e)'
  BY <1>1 DEF OneHolder, HolderKnows
<1>3. FailedOnce(e)'
  <2>1. ~Over(r, e)
    BY HoldersRuns, DirectRuns
  <2>2. \A q \in Runs : q # r /\ Over(q, e) => Over(q, e)'
    BY DEF Over, Alone
  <2>3. RunsOf(e) \subseteq Runs
    BY DirectRuns DEF RunsOf
  <2> QED BY <2>1, <2>2, <2>3 DEF OrderedOnce, FailedOnce, RunsOf
<1>4. RowSays(e)'
  BY DEF OrderedOnce, RowSays, Alone
<1> QED BY <1>2, <1>3, <1>4 DEF OrderedOnce

\* A step that orders nothing for e, takes its row from nobody and leaves it as
\* it is, or changes the status of a row that has its ticket.
LEMMA RowKept ==
  ASSUME BInv, NEW e \in Openings, OrderedOnce(e), NEW r \in Runs, Alone(r),
         placed'[e] = placed[e], stored \subseteq stored', waiting' \subseteq waiting,
         Holds(r, e)' => Holds(r, e) /\ run'[r].on = run[r].on /\ (At(r, "write")' <=> At(r, "write")),
         Over(r, e) => Over(r, e)',
         Holds(r, e) /\ At(r, "write") => Over(r, e)' \/ (Holds(r, e)' /\ At(r, "write")'),
         \A t \in run'[r].todo : t[1] = e => link[e].ticket = t,
         link'[e].ticket = link[e].ticket,
         link'[e] = link[e] \/ (link[e].ticket # None /\ link'[e].status \in {"OPEN", "CLOSING", "CLOSED"}),
         link' \in [Openings -> LinkRecords]
  PROVE  OrderedOnce(e)'
<1>1. \A q \in Runs : Holds(q, e)' => Holds(q, e) /\ run'[q].on = run[q].on /\ (At(q, "write")' <=> At(q, "write"))
  BY DEF Alone, Holds, At
<1>2. \A q \in Runs : Over(q, e) => Over(q, e)'
  BY DEF Alone, Over
<1>3. \A q \in Runs : Holds(q, e) /\ At(q, "write") => Over(q, e)' \/ (Holds(q, e)' /\ At(q, "write")')
  BY DEF Alone, Holds, At
<1>4. OneHolder(e)'
  BY <1>1 DEF OrderedOnce, OneHolder
<1>5. link[e].ticket # None => link[e].status \in {"OPEN", "CLOSING", "CLOSED"}
  BY DEF OrderedOnce, RowSays
<1>6. HolderKnows(e)'
  BY <1>1, <1>5 DEF OrderedOnce, HolderKnows
<1>7. FailedOnce(e)'
  <2>1. RunsOf(e)' = RunsOf(e) /\ RunsOf(e) \subseteq Runs
    BY DirectRuns DEF RunsOf
  <2>2. link'[e].status = "FAILED" => link[e].status = "FAILED"
    OBVIOUS
  <2> QED BY <1>2, <1>3, <2>1, <2>2 DEF OrderedOnce, FailedOnce
<1>8. RowSays(e)'
  <2>1. /\ link[e].status = "absent" => placed[e] = 0
        /\ link[e].ticket = None => link[e].status \in {"absent", "PENDING", "FAILED", "OPEN"}
        /\ link[e].ticket # None => link[e].ticket = <<e, 1>> /\ placed[e] = 1
        /\ placed[e] <= 1
        /\ \A q \in Runs : \A t \in run[q].todo : t[1] = e => link[e].ticket = t
    BY DEF OrderedOnce, RowSays
  <2>2. link'[e] \in LinkRecords
    OBVIOUS
  <2>3. \A q \in Runs : \A t \in run'[q].todo : t[1] = e => link'[e].ticket = t
    BY <2>1 DEF Alone
  <2>4. link'[e].status = "absent" => placed'[e] = 0
    BY <2>1
  <2>5. link'[e].ticket = None => link'[e].status \in {"absent", "PENDING", "FAILED", "OPEN"}
    BY <2>1
  <2>6. link'[e].ticket # None => link'[e] \in [status : {"OPEN", "CLOSING", "CLOSED"}, ticket : {<<e, 1>>}] /\ placed'[e] = 1
    BY <1>5, <2>1, <2>2 DEF LinkRecords
  <2> QED BY <2>1, <2>3, <2>4, <2>5, <2>6 DEF RowSays
<1> QED BY <1>4, <1>6, <1>7, <1>8 DEF OrderedOnce

LEMMA SureMeansNoFault == ASSUME Sure' PROVE ~Fault
  BY DEF Sure, Fault

\* A run that is not a holder, ends or goes on without taking the row.
LEMMA NoRowTaken ==
  ASSUME BInv, NEW e \in Openings, OrderedOnce(e), NEW r \in Runs, run[r] # Off, Alone(r),
         UNCHANGED <<placed, stored, waiting>>,
         ~Holds(r, e), ~Holds(r, e)', run'[r].event \in {run[r].event, "none"},
         \A t \in run'[r].todo : t[1] = e => link[e].ticket = t,
         link' \in [Openings -> LinkRecords], link'[e].ticket = link[e].ticket,
         link'[e] = link[e] \/ (link[e].ticket # None /\ link'[e].status \in {"OPEN", "CLOSING", "CLOSED"})
  PROVE  OrderedOnce(e)'
<1>1. Over(r, e) => Over(r, e)'
  BY DEF Over, Openings
<1> QED BY <1>1, RowKept

\* What the runs have to do are tickets of the rows.
LEMMA TodoTickets ==
  ASSUME BInv, NEW e \in Openings, OrderedOnce(e)
  PROVE  /\ \A r \in Runs : \A t \in run[r].todo : t[1] = e => link[e].ticket = t /\ t # None
         /\ \A t \in Tickets(Mapped) : t[1] = e => link[e].ticket = t
<1>1. \A r \in Runs : \A t \in run[r].todo : t \in Orders
  BY DEF BInv, TypeOK, RunRecords
<1> QED BY <1>1, MappedTickets, NoneIsNoOrder DEF OrderedOnce, RowSays

LEMMA OnceReserve ==
  ASSUME BInv, NEW e \in Openings, OrderedOnce(e), Sure', NEW r \in Runs, Reserve(r)
  PROVE  OrderedOnce(e)'
<1>1. run[r] # Off /\ run[r].event = "open" /\ ~Holds(r, e) /\ ~Fault /\ run[r].at = "start"
  BY Begun, SureMeansNoFault DEF Reserve, At, Holds
<1>2. CASE link["open"].status = "absent" /\ SetStatus("open", "PENDING") /\ Work(r, "open")
  <2>1. /\ run' \in [Runs -> RunRecords] /\ Alone(r) /\ run'[r].at = "send" /\ run'[r].event = "open"
        /\ run'[r].todo = run[r].todo
    BY <1>1, <1>2, WorkFacts DEF BInv, Openings
  <2>2. /\ link' \in [Openings -> LinkRecords] /\ link'[e].ticket = link[e].ticket
        /\ e # "open" => link'[e] = link[e]
        /\ e = "open" => link'[e].status = "PENDING"
    BY <1>2, StatusFacts DEF BInv, Statuses
  <2>3. CASE e = "open"
    <3>1. link[e].ticket = None /\ placed[e] = 0 /\ \A q \in Runs : ~Holds(q, e)
      BY <1>2, <2>3 DEF OrderedOnce, RowSays, HolderKnows
    <3>2. Holds(r, e)' /\ ~At(r, "write")' /\ ~At(r, "write")
      BY <1>1, <2>1, <2>3 DEF Holds, At
    <3> QED BY <1>1, <2>1, <2>2, <2>3, <3>1, <3>2, RowTaken DEF Reserve
  <2>4. CASE e # "open"
    <3>1. ~Holds(r, e)'
      BY <2>1, <2>4 DEF Holds
    <3> QED BY <1>1, <2>1, <2>2, <2>4, <3>1, TodoTickets, NoRowTaken DEF Reserve
  <2> QED BY <2>3, <2>4
<1>3. CASE Goto(r, "look") /\ UNCHANGED link
  <2>1. Alone(r) /\ run'[r].at = "look" /\ run'[r].event = "open" /\ run'[r].todo = run[r].todo
    BY <1>1, <1>3, GotoFacts DEF BInv, Places
  <2> QED BY <1>1, <1>3, <2>1, SameLink, TodoTickets, NoRowTaken DEF Reserve, Holds
<1> QED BY <1>1, <1>2, <1>3 DEF Reserve

LEMMA OnceLook ==
  ASSUME BInv, RepeatedOnce, NEW e \in Openings, OrderedOnce(e), Sure', NEW r \in Runs, Look(r)
  PROVE  OrderedOnce(e)'
<1>1. run[r] # Off /\ run[r].event = "open" /\ ~Holds(r, e) /\ ~Fault /\ run[r].at = "look"
  BY Begun, SureMeansNoFault DEF Look, At, Holds
<1>2. UNCHANGED <<stored, link, waiting, positions, placed>>
  BY DEF Look
<1>3. CASE Ends(r)
  <2>1. Alone(r) /\ run'[r].event = "none" /\ run'[r].todo = {}
    BY <1>3, EndsFacts, OffType DEF BInv
  <2> QED BY <1>1, <1>2, <2>1, SameLink, NoRowTaken DEF Holds, Openings
<1>4. CASE link["open"].status = "FAILED" /\ Goto(r, "retake")
  <2>1. Alone(r) /\ run'[r].at = "retake" /\ run'[r].event = "open" /\ run'[r].todo = run[r].todo
    BY <1>1, <1>4, GotoFacts DEF BInv, Places
  <2>2. CASE e = "open"
    <3>1. ~At(r, "write") /\ Holds(r, e)' /\ ~At(r, "write")'
      BY <1>1, <2>1, <2>2 DEF At, Holds
    <3>2. placed[e] = 0 /\ \A q \in Runs : Holds(q, e) => q = r
      BY <1>1, <1>4, <2>2, <3>1, OthersOver
    <3>3. link[e].ticket = None
      BY <1>4, <2>2 DEF OrderedOnce, RowSays
    <3> QED BY <1>1, <1>2, <1>4, <2>1, <2>2, <3>1, <3>2, <3>3, RowTaken
  <2>3. CASE e # "open"
    BY <1>1, <1>2, <2>1, <2>3, SameLink, TodoTickets, NoRowTaken DEF Holds
  <2> QED BY <2>2, <2>3
<1> QED BY <1>1, <1>3, <1>4 DEF Look, Retakes

LEMMA OnceRetake ==
  ASSUME BInv, NEW e \in Openings, OrderedOnce(e), Sure', NEW r \in Runs, Retake(r)
  PROVE  OrderedOnce(e)'
<1>1. run[r] # Off /\ run[r].event = "open" /\ ~Fault /\ run[r].at = "retake"
  BY Begun, SureMeansNoFault DEF Retake, At, BInv, Shape
<1>2. SetStatus("open", "PENDING") /\ Work(r, "open") /\ UNCHANGED <<stored, waiting, positions, placed>>
  BY <1>1 DEF Retake
<1>3. /\ Alone(r) /\ run'[r].at = "send" /\ run'[r].event = "open" /\ run'[r].todo = run[r].todo
  BY <1>1, <1>2, WorkFacts DEF BInv, Openings
<1>4. /\ link' \in [Openings -> LinkRecords] /\ link'[e].ticket = link[e].ticket
      /\ e # "open" => link'[e] = link[e]
      /\ e = "open" => link'[e].status = "PENDING"
  BY <1>2, StatusFacts DEF BInv, Statuses
<1>5. CASE e = "open"
  <2>1. Holds(r, e) /\ Holds(r, e)' /\ ~At(r, "write") /\ ~At(r, "write")'
    BY <1>1, <1>3, <1>5 DEF Holds, At
  <2>2. placed[e] = 0 /\ link[e].status \in {"PENDING", "FAILED"} /\ \A q \in Runs : Holds(q, e) => q = r
    BY <2>1 DEF OrderedOnce, HolderKnows, OneHolder
  <2>3. link[e].ticket = None
    BY <2>2 DEF OrderedOnce, RowSays
  <2> QED BY <1>1, <1>2, <1>3, <1>4, <1>5, <2>1, <2>2, <2>3, RowTaken
<1>6. CASE e # "open"
  BY <1>1, <1>2, <1>3, <1>4, <1>6, TodoTickets, NoRowTaken DEF Holds
<1> QED BY <1>5, <1>6

LEMMA OnceOrder ==
  ASSUME BInv, RepeatedOnce, NEW e \in Openings, OrderedOnce(e), Sure', NEW r \in Runs, Order(r)
  PROVE  OrderedOnce(e)'
<1>1. run[r] # Off /\ run[r].event \in Openings /\ Row(r) = run[r].event /\ run[r].at = "send" /\ run[r] \in RunRecords
  BY InHand DEF Order, At, BInv, TypeOK
<1>2. UNCHANGED <<stored, link, waiting>> /\ "order" \notin doubt'
  BY DEF Order, Sure
<1>3. CASE Goto(r, "failed") /\ UNCHANGED <<positions, orders, doubt>>
  <2>1. /\ Alone(r) /\ run'[r].at = "failed" /\ run'[r].event = run[r].event
        /\ run'[r].on = run[r].on /\ run'[r].todo = run[r].todo
    BY <1>3, GotoFacts DEF BInv, Places
  <2>2. Holds(r, e)' => Holds(r, e) /\ run'[r].on = run[r].on /\ (At(r, "write")' <=> At(r, "write"))
    BY <1>1, <2>1 DEF Holds, At
  <2>3. ~(Holds(r, e) /\ At(r, "write"))
    BY <1>1 DEF At
  <2>4. Over(r, e) => Over(r, e)'
    BY <1>1, <1>2, <2>1 DEF Over
  <2> QED BY <1>2, <1>3, <2>1, <2>2, <2>3, <2>4, SameLink, TodoTickets, RowKept
<1>4. ASSUME PlaceOrder(Row(r)), NEW t, t = <<Row(r), placed[Row(r)] + 1>>,
             run' = [run EXCEPT ![r].at = "write", ![r].on = t]
      PROVE  OrderedOnce(e)'
  <2>1. run'[r] = [run[r] EXCEPT !.at = "write", !.on = t]
    BY <1>4 DEF BInv, TypeOK
  <2>2. run'[r].at = "write" /\ run'[r].event = run[r].event /\ run'[r].on = t /\ run'[r].todo = run[r].todo
    BY <1>1, <2>1 DEF RunRecords
  <2>3. Alone(r)
    BY <1>4 DEF Alone, BInv, TypeOK
  <2>4. placed'[Row(r)] = placed[Row(r)] + 1 /\ \A o \in Openings : o # Row(r) => placed'[o] = placed[o]
    BY <1>1, <1>4, OrderFacts
  <2>5. CASE e = run[r].event
    <3>1. Holds(r, e) /\ ~At(r, "write") /\ Holds(r, e)' /\ At(r, "write")'
      BY <1>1, <2>2, <2>5 DEF Holds, At
    <3>2. placed[e] = 0 /\ link[e].status \in {"PENDING", "FAILED"} /\ \A q \in Runs : Holds(q, e) => q = r
      BY <3>1 DEF OrderedOnce, HolderKnows, OneHolder
    <3>3. placed'[e] = 1 /\ run'[r].on = <<e, 1>>
      <4>1. Row(r) = e
        BY <1>1, <2>5
      <4>2. placed[Row(r)] + 1 = 1
        BY <3>2, <4>1
      <4> QED BY <1>4, <2>2, <2>4, <4>1, <4>2
    <3>4. \A q \in Runs : Holds(q, e)' => q = r
      BY <2>3, <3>2 DEF Alone, Holds
    <3>5. OneHolder(e)' /\ HolderKnows(e)'
      BY <1>2, <3>1, <3>2, <3>3, <3>4 DEF OneHolder, HolderKnows
    <3>6. FailedOnce(e)'
      <4>1. SUFFICES ASSUME link[e].status = "FAILED"
                     PROVE  (\E q \in RunsOf(e) : Over(q, e)') /\ \A q \in RunsOf(e) : Over(q, e)' \/ (Holds(q, e) /\ At(q, "write"))'
        BY <1>2 DEF FailedOnce, RunsOf
      <4>2. (\E q \in RunsOf(e) : q # r /\ Over(q, e)) /\ \A q \in RunsOf(e) : q # r => Over(q, e)
        BY <2>5, <4>1, OthersOver
      <4>3. \A q \in RunsOf(e) : q # r /\ Over(q, e) => Over(q, e)'
        BY <1>2, <2>3, DirectRuns DEF Over, Alone, RunsOf
      <4> QED BY <3>1, <4>2, <4>3
    <3>7. RowSays(e)'
      <4>1. link[e].ticket = None
        BY <3>2 DEF OrderedOnce, RowSays
      <4> QED BY <1>2, <2>2, <2>3, <3>2, <3>3, <4>1 DEF OrderedOnce, RowSays, Alone
    <3> QED BY <3>5, <3>6, <3>7 DEF OrderedOnce
  <2>6. CASE e # run[r].event
    <3>1. ~Holds(r, e) /\ ~Holds(r, e)' /\ placed'[e] = placed[e]
      BY <1>1, <2>2, <2>4, <2>6 DEF Holds
    <3>2. Over(r, e) => Over(r, e)'
      BY <1>1, <1>2, <2>2, <2>6 DEF Over
    <3> QED BY <1>2, <2>2, <2>3, <3>1, <3>2, SameLink, TodoTickets, RowKept
  <2> QED BY <2>5, <2>6
<1> QED BY <1>2, <1>3, <1>4 DEF Order, PlaceOrder

LEMMA OnceWrite ==
  ASSUME BInv, NEW e \in Openings, OrderedOnce(e), Sure', NEW r \in Runs, Write(r)
  PROVE  OrderedOnce(e)'
<1>1. /\ run[r] # Off /\ run[r].event \in Openings /\ Row(r) = run[r].event /\ At(r, "write")
      /\ run[r].on \in Orders /\ ~Fault
  BY InHand, SureMeansNoFault DEF Write, At
<1>2. /\ link' = Recorded(Row(r), TicketOf(run[r].on)) /\ Written(r) /\ UNCHANGED <<stored, waiting, positions, placed>>
      /\ TicketOf(run[r].on) \in {None, run[r].on}
  BY <1>1 DEF Write, TicketOf
<1>3. /\ Alone(r) /\ run'[r].at \notin {"retake", "send", "write", "failed"}
      /\ run'[r].event \in {run[r].event, "none"} /\ run'[r].todo \subseteq run[r].todo
      /\ run' \in [Runs -> RunRecords]
  <2>1. CASE Ends(r)
    BY <2>1, EndsFacts, OffType DEF BInv
  <2>2. CASE Goto(r, "change")
    BY <2>2, GotoFacts DEF BInv, Places
  <2> QED BY <1>2, <2>1, <2>2 DEF Written
<1>4. /\ link' \in [Openings -> LinkRecords] /\ link'[Row(r)] = [status |-> "OPEN", ticket |-> TicketOf(run[r].on)]
      /\ \A o \in Openings : o # Row(r) => link'[o] = link[o]
  BY <1>1, <1>2, RecordedFacts
<1>5. CASE e = run[r].event
  <2>1. Holds(r, e)
    BY <1>1, <1>5 DEF Holds, At
  <2>2. /\ placed[e] = 1 /\ run[r].on = <<e, 1>> /\ link[e].status \in {"PENDING", "FAILED"}
        /\ \A q \in Runs : Holds(q, e) => q = r
    BY <1>1, <2>1 DEF OrderedOnce, HolderKnows, OneHolder
  <2>3. link[e].ticket = None
    BY <2>2 DEF OrderedOnce, RowSays
  <2>4. \A q \in Runs : ~Holds(q, e)'
    BY <1>3, <2>2 DEF Alone, Holds
  <2>5. OneHolder(e)' /\ HolderKnows(e)'
    BY <2>4 DEF OneHolder, HolderKnows
  <2>6. FailedOnce(e)'
    BY <1>1, <1>4, <1>5 DEF FailedOnce
  <2>7. \A q \in Runs : \A t \in run'[q].todo : t[1] # e
    BY <1>3, <2>3, TodoTickets DEF Alone
  <2>8. link'[e].ticket \in {None, run[r].on} /\ link'[e].status = "OPEN"
    BY <1>1, <1>2, <1>4, <1>5
  <2>9. RowSays(e)'
    BY <1>1, <1>2, <1>4, <1>5, <2>2, <2>7, <2>8 DEF RowSays
  <2> QED BY <2>5, <2>6, <2>9 DEF OrderedOnce
<1>6. CASE e # run[r].event
  <2>1. ~Holds(r, e) /\ ~Holds(r, e)' /\ link'[e] = link[e]
    BY <1>1, <1>3, <1>4, <1>6 DEF Holds
  <2> QED BY <1>1, <1>2, <1>3, <1>4, <2>1, TodoTickets, NoRowTaken
<1> QED BY <1>5, <1>6

LEMMA OnceMarkFailed ==
  ASSUME BInv, NEW e \in Openings, OrderedOnce(e), Sure', NEW r \in Runs, MarkFailed(r)
  PROVE  OrderedOnce(e)'
<1>1. run[r] # Off /\ run[r].event \in Openings /\ Row(r) = run[r].event /\ At(r, "failed") /\ ~Fault
  BY InHand, SureMeansNoFault DEF MarkFailed, At
<1>2. Ends(r) /\ UNCHANGED <<stored, waiting, positions, placed>>
  BY DEF MarkFailed
<1>3. Alone(r) /\ run'[r] = Off /\ run'[r].event = "none" /\ run'[r].at = "off" /\ run'[r].todo = {}
  BY <1>2, EndsFacts, OffType DEF BInv
<1>4. CASE e = run[r].event
  <2>1. Holds(r, e) /\ ~At(r, "write")
    BY <1>1, <1>4 DEF Holds, At
  <2>2. placed[e] = 0 /\ link[e].status \in {"PENDING", "FAILED"} /\ \A q \in Runs : Holds(q, e) => q = r
    BY <2>1 DEF OrderedOnce, HolderKnows, OneHolder
  <2>3. link[e].ticket = None
    BY <2>2 DEF OrderedOnce, RowSays
  <2>4. SetStatus(e, "FAILED")
    BY <1>1, <1>4, <2>2 DEF MarkFailed
  <2>5. link'[e].status = "FAILED" /\ link'[e].ticket = None
    BY <2>3, <2>4, StatusFacts DEF BInv, Statuses
  <2>6. \A q \in Runs : ~Holds(q, e)'
    BY <1>3, <2>2 DEF Alone, Holds
  <2>7. OneHolder(e)' /\ HolderKnows(e)'
    BY <2>6 DEF OneHolder, HolderKnows
  <2>8. FailedOnce(e)'
    <3>1. Over(r, e)'
      BY <1>2, <1>3, <1>4, EndIsOver, DirectRuns
    <3>2. r \in RunsOf(e)
      BY <1>4, HoldersRuns, DirectRuns
    <3> QED BY <1>2, <2>2, <3>1, <3>2 DEF FailedOnce, RunsOf
  <2>9. RowSays(e)'
    <3>1. \A q \in Runs : \A t \in run'[q].todo : t[1] # e
      BY <1>3, <2>3, TodoTickets DEF Alone
    <3> QED BY <1>2, <2>2, <2>5, <3>1 DEF RowSays
  <2> QED BY <2>7, <2>8, <2>9 DEF OrderedOnce
<1>5. CASE e # run[r].event
  <2>1. ~Holds(r, e) /\ ~Holds(r, e)'
    BY <1>3, <1>5 DEF Holds
  <2>2. link' \in [Openings -> LinkRecords] /\ link'[e] = link[e]
    BY <1>1, <1>5, StatusFacts DEF MarkFailed, BInv, TypeOK, Statuses
  <2> QED BY <1>1, <1>2, <1>3, <2>1, <2>2, NoRowTaken
<1> QED BY <1>4, <1>5

LEMMA OnceLookAdd ==
  ASSUME BInv, RepeatedOnce, NEW e \in Openings, OrderedOnce(e), Sure', NEW r \in Runs, LookAdd(r)
  PROVE  OrderedOnce(e)'
<1>1. run[r] # Off /\ run[r].event = "add" /\ run[r].at = "look" /\ ~Holds(r, e) /\ ~Fault /\ ~At(r, "write")
  BY Begun, SureMeansNoFault DEF LookAdd, At, Holds
<1>2. UNCHANGED <<stored, link, waiting, positions, placed>>
  BY DEF LookAdd
<1>3. CASE Goto(r, "insert") \/ Goto(r, "change")
  <2>1. Alone(r) /\ run'[r].at \in {"insert", "change"} /\ run'[r].event = "add" /\ run'[r].todo = run[r].todo
    BY <1>1, <1>3, GotoFacts DEF BInv, Places
  <2> QED BY <1>1, <1>2, <2>1, SameLink, TodoTickets, NoRowTaken DEF Holds
<1>4. CASE link["add"].status = "FAILED" /\ Work(r, "add")
  <2>1. Alone(r) /\ run'[r].at = "send" /\ run'[r].event = "add" /\ run'[r].todo = run[r].todo
    BY <1>1, <1>4, WorkFacts DEF BInv, Openings
  <2>2. CASE e = "add"
    <3>1. Holds(r, e)' /\ ~At(r, "write")'
      BY <2>1, <2>2 DEF At, Holds
    <3>2. placed[e] = 0 /\ \A q \in Runs : Holds(q, e) => q = r
      BY <1>1, <1>4, <2>2, OthersOver
    <3>3. link[e].ticket = None
      BY <1>4, <2>2 DEF OrderedOnce, RowSays
    <3> QED BY <1>1, <1>2, <1>4, <2>1, <2>2, <3>1, <3>2, <3>3, RowTaken
  <2>3. CASE e # "add"
    BY <1>1, <1>2, <2>1, <2>3, SameLink, TodoTickets, NoRowTaken DEF Holds
  <2> QED BY <2>2, <2>3
<1> QED BY <1>1, <1>3, <1>4 DEF LookAdd

LEMMA OnceInsertAdd ==
  ASSUME BInv, NEW e \in Openings, OrderedOnce(e), Sure', NEW r \in Runs, InsertAdd(r)
  PROVE  OrderedOnce(e)'
<1>1. run[r] # Off /\ run[r].event = "add" /\ ~Holds(r, e) /\ ~Fault /\ run[r].at = "insert"
  BY Begun, SureMeansNoFault DEF InsertAdd, At, Holds, BInv, Shape
<1>2. CASE link["add"].status = "absent" /\ SetStatus("add", "PENDING") /\ Work(r, "add")
  <2>1. /\ Alone(r) /\ run'[r].at = "send" /\ run'[r].event = "add" /\ run'[r].todo = run[r].todo
    BY <1>1, <1>2, WorkFacts DEF BInv, Openings
  <2>2. /\ link' \in [Openings -> LinkRecords] /\ link'[e].ticket = link[e].ticket
        /\ e # "add" => link'[e] = link[e]
        /\ e = "add" => link'[e].status = "PENDING"
    BY <1>2, StatusFacts DEF BInv, Statuses
  <2>3. CASE e = "add"
    <3>1. link[e].ticket = None /\ placed[e] = 0 /\ \A q \in Runs : ~Holds(q, e)
      BY <1>2, <2>3 DEF OrderedOnce, RowSays, HolderKnows
    <3>2. Holds(r, e)' /\ ~At(r, "write")' /\ ~At(r, "write")
      BY <1>1, <2>1, <2>3 DEF Holds, At
    <3> QED BY <1>1, <2>1, <2>2, <2>3, <3>1, <3>2, RowTaken DEF InsertAdd
  <2>4. CASE e # "add"
    <3>1. ~Holds(r, e)'
      BY <2>1, <2>4 DEF Holds
    <3> QED BY <1>1, <2>1, <2>2, <2>4, <3>1, TodoTickets, NoRowTaken DEF InsertAdd
  <2> QED BY <2>3, <2>4
<1>3. CASE Ends(r) /\ UNCHANGED link
  <2>1. Alone(r) /\ run'[r].event = "none" /\ run'[r].todo = {}
    BY <1>3, EndsFacts, OffType DEF BInv
  <2> QED BY <1>1, <1>3, <2>1, SameLink, NoRowTaken DEF InsertAdd, Holds, Openings
<1> QED BY <1>1, <1>2, <1>3 DEF InsertAdd

\* A run that is not about an opening, or stands at its start, or at its changes.
LEMMA OnceEnding ==
  ASSUME BInv, NEW e \in Openings, OrderedOnce(e), NEW r \in Runs, run[r] # Off, Ends(r), ~Holds(r, e),
         UNCHANGED <<placed, stored, waiting>>,
         link' \in [Openings -> LinkRecords], link'[e].ticket = link[e].ticket,
         link'[e] = link[e] \/ (link[e].ticket # None /\ link'[e].status \in {"OPEN", "CLOSING", "CLOSED"})
  PROVE  OrderedOnce(e)'
<1>1. Alone(r) /\ run'[r].event = "none" /\ run'[r].todo = {}
  BY EndsFacts, OffType DEF BInv
<1> QED BY <1>1, NoRowTaken DEF Holds, Openings

LEMMA OnceGated ==
  ASSUME BInv, NEW e \in Openings, OrderedOnce(e), NEW r \in Runs, Gated(r)
  PROVE  OrderedOnce(e)'
  BY Begun, SameLink, OnceEnding DEF Gated, At, Holds

LEMMA OnceGiveBack ==
  ASSUME BInv, NEW e \in Openings, OrderedOnce(e), NEW r \in Runs, GiveBack(r)
  PROVE  OrderedOnce(e)'
<1>1. run[r] # Off /\ ~Holds(r, e)
  BY Begun DEF GiveBack, At, Holds
<1>2. link' \in [Openings -> LinkRecords] /\ link'[e].ticket = link[e].ticket
  BY DEF GiveBack, BInv, TypeOK, LinkRecords, Statuses
<1>3. link'[e] = link[e] \/ (link[e].ticket \in run[r].todo /\ link'[e].status = "OPEN")
  BY DEF GiveBack, BInv, TypeOK, LinkRecords
<1>4. \A t \in run[r].todo : t # None
  BY NoneIsNoOrder DEF BInv, TypeOK, RunRecords
<1> QED BY <1>1, <1>2, <1>3, <1>4, OnceEnding DEF GiveBack

LEMMA OnceClaim ==
  ASSUME BInv, NEW e \in Openings, OrderedOnce(e), Sure', NEW r \in Runs, Claim(r)
  PROVE  OrderedOnce(e)'
<1>1. run[r] # Off /\ run[r].event = "close" /\ ~Holds(r, e) /\ ~Fault /\ run[r] \in RunRecords
  BY Begun, SureMeansNoFault DEF Claim, At, Holds, BInv, TypeOK
<1>2. link' \in [Openings -> LinkRecords] /\ link'[e].ticket = link[e].ticket
  BY DEF Claim, BInv, TypeOK, LinkRecords, Statuses
<1>3. link'[e] = link[e] \/ (e \in Mapped /\ link'[e].status = "CLOSING")
  BY DEF Claim, BInv, TypeOK, LinkRecords
<1>4. e \in Mapped => link[e].ticket # None
  BY DEF Mapped
<1>5. run' = [run EXCEPT ![r].at = "close", ![r].todo = Tickets(Mapped)]
  BY <1>1 DEF Claim
<1>6. run'[r] = [run[r] EXCEPT !.at = "close", !.todo = Tickets(Mapped)]
  BY <1>5 DEF BInv, TypeOK
<1>7. Alone(r) /\ run'[r].event = "close" /\ run'[r].at = "close" /\ run'[r].todo = Tickets(Mapped)
  BY <1>1, <1>5, <1>6 DEF Alone, BInv, TypeOK, RunRecords
<1> QED BY <1>1, <1>2, <1>3, <1>4, <1>7, TodoTickets, NoRowTaken DEF Claim, Holds

LEMMA OnceCloseTrade ==
  ASSUME BInv, NEW e \in Openings, OrderedOnce(e), NEW r \in Runs, CloseTrade(r)
  PROVE  OrderedOnce(e)'
<1>1. run[r] # Off /\ ~Holds(r, e) /\ run[r] \in RunRecords
  BY Begun DEF CloseTrade, At, Holds, BInv, TypeOK
<1>2. PICK t \in run[r].todo, place \in {"closed", "reopen"} : run' = [run EXCEPT ![r].at = place, ![r].on = t]
  BY DEF CloseTrade
<1>3. run'[r] = [run[r] EXCEPT !.at = place, !.on = t]
  BY <1>2 DEF BInv, TypeOK
<1>4. Alone(r) /\ run'[r].event = run[r].event /\ run'[r].at = place /\ run'[r].todo = run[r].todo
  BY <1>1, <1>2, <1>3 DEF Alone, BInv, TypeOK, RunRecords
<1> QED BY <1>1, <1>4, SameLink, TodoTickets, NoRowTaken DEF CloseTrade, Holds

LEMMA OnceWriteClose ==
  ASSUME BInv, NEW e \in Openings, OrderedOnce(e), Sure', NEW r \in Runs, WriteClose(r)
  PROVE  OrderedOnce(e)'
<1>1. run[r] # Off /\ ~Holds(r, e) /\ ~Fault /\ run[r].on \in run[r].todo
  BY Begun, SureMeansNoFault DEF WriteClose, Holds, BInv, Shape
<1>2. PICK status \in {"OPEN", "CLOSED"} : SetStatus(Row(r), status)
  BY <1>1 DEF WriteClose
<1>3. /\ link' \in [Openings -> LinkRecords] /\ link'[e].ticket = link[e].ticket
      /\ e # Row(r) => link'[e] = link[e]
      /\ e = Row(r) => link'[e].status = status
  BY <1>2, StatusFacts DEF BInv, Statuses
<1>4. e = Row(r) => link[e].ticket # None
  BY <1>1, TodoTickets DEF Row
<1>5. /\ Alone(r) /\ run'[r].event \in {run[r].event, "none"} /\ run'[r].todo \subseteq run[r].todo
      /\ run'[r] = Off \/ run'[r].at = "close"
  BY NextCopyFacts DEF WriteClose
<1>6. ~Holds(r, e)'
  BY <1>5, OffType DEF Holds
<1> QED BY <1>1, <1>3, <1>4, <1>5, <1>6, TodoTickets, NoRowTaken DEF WriteClose

LEMMA OnceRead ==
  ASSUME BInv, NEW e \in Openings, OrderedOnce(e), NEW r \in Runs, Read(r)
  PROVE  OrderedOnce(e)'
<1>1. run[r] # Off /\ ~Holds(r, e) /\ run[r] \in RunRecords
  BY Begun DEF Read, At, Holds, BInv, TypeOK
<1>2. PICK place \in {"look", "change"} : run' = [run EXCEPT ![r].at = place, ![r].todo = Tickets(Mapped)]
  BY DEF Read
<1>3. run'[r] = [run[r] EXCEPT !.at = place, !.todo = Tickets(Mapped)]
  BY <1>2 DEF BInv, TypeOK
<1>4. Alone(r) /\ run'[r].event = run[r].event /\ run'[r].at = place /\ run'[r].todo = Tickets(Mapped)
  BY <1>1, <1>2, <1>3 DEF Alone, BInv, TypeOK, RunRecords
<1> QED BY ZenonT(30), <1>1, <1>4, SameLink, TodoTickets, NoRowTaken DEF Read, Holds

LEMMA OnceChange ==
  ASSUME BInv, NEW e \in Openings, OrderedOnce(e), NEW r \in Runs, Change(r)
  PROVE  OrderedOnce(e)'
<1>1. /\ run[r] # Off /\ Alone(r) /\ run'[r].event \in {run[r].event, "none"} /\ run'[r].todo \subseteq run[r].todo
      /\ run'[r] # Off => run'[r].at = "change"
      /\ link' \in [Openings -> LinkRecords] /\ link'[e].ticket = link[e].ticket
  BY ChangeFacts
<1>2. ~Holds(r, e) /\ ~Holds(r, e)'
  BY <1>1, OffType DEF Change, At, Holds
<1>3. PICK t \in run[r].todo : UNCHANGED link \/ SetStatus(t[1], "OPEN")
  BY DEF Change
<1>4. link'[e] = link[e] \/ (t[1] = e /\ link'[e].status = "OPEN")
  BY <1>3, StatusFacts DEF BInv, Statuses
<1>5. t[1] = e => link[e].ticket # None
  BY TodoTickets
<1> QED BY <1>1, <1>2, <1>4, <1>5, TodoTickets, NoRowTaken DEF Change

LEMMA OnceCrash ==
  ASSUME BInv, NEW e \in Openings, OrderedOnce(e), NEW r \in Runs, Crash(r)
  PROVE  OrderedOnce(e)'
<1>1. Alone(r) /\ run'[r] = Off /\ run'[r].event = "none" /\ run'[r].todo = {}
  BY EndsFacts, OffType DEF Crash, BInv
<1>2. ~Holds(r, e)' /\ UNCHANGED <<stored, waiting, placed>> /\ run[r] # Off
  BY <1>1 DEF Holds, Openings, Crash
<1>3. Over(r, e) => Over(r, e)'
  BY <1>1, <1>2 DEF Over, Openings
<1>4. Holds(r, e) => Over(r, e)'
  BY <1>1, <1>2, EndIsOver, DirectRuns DEF Holds
<1> QED BY <1>1, <1>2, <1>3, <1>4, SameLink, RowKept DEF Crash

LEMMA OnceStarting ==
  ASSUME BInv, NEW e \in Openings, OrderedOnce(e), NEW r \in Runs, NEW o \in Events, Starts(r, o),
         UNCHANGED <<link, placed>>, stored \subseteq stored', waiting' \subseteq waiting,
         run[r] = Off, Over(r, e) => Over(r, e)'
  PROVE  OrderedOnce(e)'
<1>1. Alone(r) /\ run'[r].at = "start" /\ run'[r].todo = {}
  BY StartsFacts
<1>2. ~Holds(r, e)' /\ ~Holds(r, e)
  BY <1>1, OffType DEF Holds
<1> QED BY <1>1, <1>2, SameLink, RowKept

LEMMA OnceStore ==
  ASSUME BInv, NEW e \in Openings, OrderedOnce(e), NEW o \in Events, Store(o)
  PROVE  OrderedOnce(e)'
<1>1. Starts(Direct, o) /\ run[Direct] = Off /\ stored \subseteq stored' /\ UNCHANGED <<link, placed, waiting>>
  BY DEF Store, Starts
<1>2. run'[Direct].event = o
  BY <1>1, StartsFacts, DirectRuns
<1>3. Over(Direct, e) => Over(Direct, e)'
  BY <1>1, <1>2 DEF Over, Store
<1> QED BY <1>1, <1>3, OnceStarting, DirectRuns

LEMMA OnceRepeat ==
  ASSUME BInv, NEW e \in Openings, OrderedOnce(e), NEW r \in Repeats, Repeat(r)
  PROVE  OrderedOnce(e)'
<1>1. /\ Starts(r, RepeatOf[r]) /\ waiting' \subseteq waiting /\ r \in waiting
      /\ UNCHANGED <<link, placed, stored>>
  BY DEF Repeat, Starts
<1>2. run[r] = Off /\ r \in Runs /\ RepeatOf[r] \in Events /\ r # Direct
  BY <1>1, DirectRuns DEF BInv, Scheduled
<1>3. ~Over(r, e)
  BY <1>1, <1>2 DEF Over
<1> QED BY <1>1, <1>2, <1>3, OnceStarting

LEMMA OnceSame ==
  ASSUME NEW e \in Openings, OrderedOnce(e), UNCHANGED <<stored, link, run, waiting, placed>>
  PROVE  OrderedOnce(e)'
<1>1. OneHolder(e)' /\ HolderKnows(e)' /\ RowSays(e)'
  BY DEF OrderedOnce, OneHolder, HolderKnows, RowSays, Holds, At
<1>2. FailedOnce(e)'
  <2>1. /\ link[e].status = "FAILED" => \E r \in RunsOf(e) : Over(r, e)
        /\ link[e].status = "FAILED" /\ placed[e] # 0 => \A r \in RunsOf(e) : Over(r, e) \/ (Holds(r, e) /\ At(r, "write"))
    BY DEF OrderedOnce, FailedOnce
  <2>2. \A r : (Over(r, e)' <=> Over(r, e)) /\ (Holds(r, e)' <=> Holds(r, e)) /\ (At(r, "write")' <=> At(r, "write"))
    BY DEF Over, Holds, At
  <2>3. RunsOf(e)' = RunsOf(e)
    BY DEF RunsOf
  <2> QED BY <2>1, <2>2, <2>3 DEF FailedOnce
<1> QED BY <1>1, <1>2 DEF OrderedOnce

LEMMA OrderInvInit == ASSUME Init PROVE OrderInv
<1>1. ASSUME NEW e \in Openings
      PROVE  OrderedOnce(e)
  <2>1. /\ \A r \in Runs : run[r] = Off /\ run[r].at = "off" /\ run[r].todo = {}
        /\ link[e].status = "absent" /\ link[e].ticket = None /\ placed[e] = 0
    BY OffType DEF Init
  <2>2. \A r \in Runs : ~Holds(r, e)
    BY <2>1 DEF Holds
  <2> QED BY <2>1, <2>2 DEF OrderedOnce, OneHolder, HolderKnows, FailedOnce, RowSays
<1> QED BY <1>1 DEF OrderInv

LEMMA OrderInvStep ==
  ASSUME BInv, OrderInv, RepeatedOnce, [Next]_vars
  PROVE  OrderInv'
<1> SUFFICES ASSUME Sure', NEW e \in Openings
             PROVE  OrderedOnce(e)'
  BY DEF OrderInv
<1>1. Sure
  BY DEF Sure, Next, Step, Store, Repeat, Gated, Reserve, Look, Retake, Order, Write, MarkFailed, Claim,
     GiveBack, CloseTrade, WriteClose, Read, LookAdd, InsertAdd, Change, Crash, Stopped, Fault, vars, ghosts
<1>2. OrderedOnce(e)
  BY <1>1 DEF OrderInv
<1>3. CASE UNCHANGED vars \/ Stopped
  BY <1>2, <1>3, OnceSame DEF vars, Stopped
<1>4. CASE \E o \in Events : Store(o)
  BY <1>2, <1>4, OnceStore
<1>5. CASE \E r \in Repeats : Repeat(r)
  BY <1>2, <1>5, OnceRepeat
<1>6. CASE \E r \in Runs : Step(r) \/ Crash(r)
  BY <1>2, <1>6, OnceGated, OnceReserve, OnceLook, OnceRetake, OnceOrder, OnceWrite, OnceMarkFailed, OnceClaim,
     OnceGiveBack, OnceCloseTrade, OnceWriteClose, OnceRead, OnceLookAdd, OnceInsertAdd, OnceChange, OnceCrash DEF Step
<1> QED BY <1>3, <1>4, <1>5, <1>6 DEF Next

\* The worker and a repeat of its event, whatever the process crashes between and
\* whatever the followers, the archives and any runs of the CLOSE do, place one
\* order for an event that opens something, unless an answer of the broker or of
\* the database was lost (executeCopyForEvent and its reservation of the row).
THEOREM StrategyOneOrder == ASSUME RepeatedOnce PROVE Spec => []OneOrder
<1>1. Init => BInv /\ OrderInv
  BY BaseInit, OrderInvInit
<1>2. (BInv /\ OrderInv) /\ [Next]_vars => (BInv /\ OrderInv)'
  BY BaseStep, OrderInvStep
<1>3. BInv /\ OrderInv => OneOrder
  BY DEF OrderInv, OneOrder, Sure, OrderedOnce, RowSays
<1> QED BY <1>1, <1>2, <1>3, PTL DEF Spec

-----------------------------------------------------------------------------
(* Nothing is hidden.                                                      *)

\* The row of t says that t is open, or being closed, as far as t has a ticket.
Says(t) ==
  /\ link[t[1]].ticket = TicketOf(t)
  /\ link[t[1]].status \in IF t \in unnamed THEN {"OPEN"} ELSE {"OPEN", "CLOSING"}

LEMMA SightKept ==
  ASSUME BInv, NEW t \in positions, InSight(t), NEW r \in Runs, Alone(r), ~At(r, "write"),
         t \in unnamed' <=> t \in unnamed,
         run[r].event = "close" /\ t \in run[r].todo =>
           (run'[r].event = "close" /\ t \in run'[r].todo) \/ link'[t[1]] = OpenRow(t),
         Says(t) => link'[t[1]] = link[t[1]] \/ link'[t[1]] = OpenRow(t)
  PROVE  InSight(t)'
<1>0. OpenRow(t)' = OpenRow(t)
  BY DEF OpenRow, TicketOf
<1>1. CASE \E q \in Runs : At(q, "write") /\ run[q].on = t
  BY <1>1 DEF InSight, Alone, At
<1>2. CASE link[t[1]] = OpenRow(t)
  <2>1. Says(t)
    BY <1>2 DEF Says, OpenRow
  <2> QED BY <1>0, <1>2, <2>1 DEF InSight
<1>3. CASE /\ link[t[1]] = [status |-> "CLOSING", ticket |-> t]
           /\ t \notin unnamed
           /\ \E q \in Runs : run[q].event = "close" /\ t \in run[q].todo
  <2>1. Says(t)
    BY <1>3 DEF Says, TicketOf
  <2>2. CASE link'[t[1]] = OpenRow(t)
    BY <1>0, <2>2 DEF InSight
  <2>3. CASE link'[t[1]] # OpenRow(t)
    <3>1. link'[t[1]] = [status |-> "CLOSING", ticket |-> t]
      BY <1>3, <2>1, <2>3
    <3>2. PICK q \in Runs : run[q].event = "close" /\ t \in run[q].todo
      BY <1>3
    <3>3. run'[q].event = "close" /\ t \in run'[q].todo
      BY <2>3, <3>2 DEF Alone
    <3> QED BY <1>3, <3>1, <3>3 DEF InSight
  <2> QED BY <2>2, <2>3
<1> QED BY <1>1, <1>2, <1>3 DEF InSight

\* A row that says so is in no run's hands, and not to be reserved.
LEMMA SaysWhat ==
  ASSUME BInv, \A e \in Openings : OrderedOnce(e), NEW t \in positions, Says(t)
  PROVE  /\ t[1] \in Openings /\ link[t[1]] \in LinkRecords
         /\ \A r \in Runs : ~Holds(r, t[1])
         /\ \A r \in Runs : \A u \in run[r].todo : u[1] = t[1] => u = t
<1>1. t[1] \in Openings
  BY DEF BInv, TypeOK, Orders
<1>2. link[t[1]].status \in {"OPEN", "CLOSING"} /\ link[t[1]].ticket \in {None, t}
  BY DEF Says, TicketOf
<1>3. ASSUME NEW r \in Runs, NEW u \in run[r].todo, u[1] = t[1]
      PROVE  u = t
  <2>1. link[t[1]].ticket = u /\ u \in Orders
    BY <1>1, <1>3 DEF OrderedOnce, RowSays, BInv, TypeOK, RunRecords
  <2> QED BY <1>2, <2>1, NoneIsNoOrder
<1> QED BY <1>1, <1>2, <1>3 DEF OrderedOnce, HolderKnows, BInv, TypeOK

\* Nor is a position that a run has to close one without a ticket.
LEMMA ClosedHasTicket ==
  ASSUME BInv, \A e \in Openings : OrderedOnce(e), NEW t \in positions, Says(t), NEW r \in Runs, t \in run[r].todo
  PROVE  link[t[1]].ticket = t /\ OpenRow(t) = [status |-> "OPEN", ticket |-> t]
<1>1. t \in Orders /\ t[1] \in Openings
  BY DEF BInv, TypeOK, Orders
<1>2. link[t[1]].ticket = t
  BY <1>1 DEF OrderedOnce, RowSays
<1> QED BY <1>1, <1>2, NoneIsNoOrder DEF Says, OpenRow, TicketOf

\* A step of a run that is neither about to write a ticket nor closes anything,
\* and changes no row but one that it holds or that has nothing.
LEMMA SightOfOpener ==
  ASSUME BInv, \A e \in Openings : OrderedOnce(e), NEW t \in positions, InSight(t),
         NEW r \in Runs, Alone(r), ~At(r, "write"), run[r].event # "close", UNCHANGED unnamed,
         \A e \in Openings : Holds(r, e) \/ link[e].status \in {"absent", "FAILED"} \/ link'[e] = link[e]
  PROVE  InSight(t)'
<1>1. Says(t) => link'[t[1]] = link[t[1]]
  BY SaysWhat DEF Says
<1> QED BY <1>1, SightKept

LEMMA SightGated ==
  ASSUME BInv, NEW t \in positions, InSight(t), NEW r \in Runs, Gated(r)
  PROVE  InSight(t)'
<1>1. Alone(r) /\ ~At(r, "write") /\ run[r].todo = {} /\ UNCHANGED unnamed
  BY EndsFacts DEF Gated, At, BInv, Shape
<1> QED BY <1>1, SightKept DEF Gated

LEMMA SightReserve ==
  ASSUME BInv, \A e \in Openings : OrderedOnce(e), NEW t \in positions, InSight(t), ~Fault, NEW r \in Runs, Reserve(r)
  PROVE  InSight(t)'
<1>1. Alone(r) /\ ~At(r, "write") /\ run[r].event # "close" /\ UNCHANGED unnamed
  BY WorkFacts, GotoFacts DEF Reserve, At, BInv, Openings, Places
<1>2. \A e \in Openings : link[e].status = "absent" \/ link'[e] = link[e]
  BY StatusFacts DEF Reserve, BInv, Statuses
<1> QED BY <1>1, <1>2, SightOfOpener

LEMMA SightLook ==
  ASSUME BInv, \A e \in Openings : OrderedOnce(e), NEW t \in positions, InSight(t), NEW r \in Runs, Look(r)
  PROVE  InSight(t)'
<1>1. Alone(r) /\ ~At(r, "write") /\ run[r].event # "close" /\ UNCHANGED <<link, unnamed>>
  BY EndsFacts, GotoFacts DEF Look, At, BInv, Places
<1> QED BY <1>1, SightOfOpener

LEMMA SightRetake ==
  ASSUME BInv, \A e \in Openings : OrderedOnce(e), NEW t \in positions, InSight(t), NEW r \in Runs, Retake(r)
  PROVE  InSight(t)'
<1>1. Alone(r) /\ ~At(r, "write") /\ run[r].event = "open" /\ Holds(r, "open") /\ UNCHANGED unnamed
  BY WorkFacts DEF Retake, At, BInv, Openings, Shape, Holds
<1>2. \A e \in Openings : e = "open" \/ link'[e] = link[e]
  BY StatusFacts DEF Retake, BInv, Statuses
<1> QED BY <1>1, <1>2, SightOfOpener

LEMMA SightOrder ==
  ASSUME BInv, NEW t \in positions', doubt' = {}, t \in positions => InSight(t), NEW r \in Runs, Order(r)
  PROVE  InSight(t)'
<1>1. /\ run[r].event \in Openings /\ Row(r) = run[r].event /\ ~At(r, "write") /\ UNCHANGED link
      /\ run[r].event # "close"
  BY InHand, DirectRuns DEF Order, At
<1>2. CASE Goto(r, "failed") /\ UNCHANGED <<positions, unnamed>>
  <2>1. Alone(r)
    BY <1>2, GotoFacts DEF BInv, Places
  <2> QED BY <1>1, <1>2, <2>1, SightKept
<1>3. ASSUME NEW u, positions' = positions \cup {u}, run' = [run EXCEPT ![r].at = "write", ![r].on = u],
             unnamed' \in {unnamed, unnamed \cup {u}}
      PROVE  InSight(t)'
  <2>1. Alone(r)
    BY <1>3 DEF BInv, TypeOK, Alone
  <2>2. run'[r] = [run[r] EXCEPT !.at = "write", !.on = u] /\ run[r] \in RunRecords
    BY <1>3 DEF BInv, TypeOK
  <2>3. run'[r].at = "write" /\ run'[r].on = u
    BY <2>2 DEF RunRecords
  <2>4. CASE t = u
    BY <2>3, <2>4 DEF InSight, At
  <2>5. CASE t \in positions /\ t # u
    <3>1. t \in unnamed' <=> t \in unnamed
      BY <1>3, <2>5
    <3> QED BY <1>1, <2>1, <2>5, <3>1, SightKept
  <2> QED BY <1>3, <2>4, <2>5
<1> QED BY <1>2, <1>3 DEF Order

LEMMA SightWrite ==
  ASSUME BInv, \A e \in Openings : OrderedOnce(e), NEW t \in positions, InSight(t), ~Fault, NEW r \in Runs, Write(r)
  PROVE  InSight(t)'
<1>1. /\ run[r].event \in Openings /\ Row(r) = run[r].event /\ At(r, "write") /\ run[r].on \in Orders
      /\ run[r].event # "close"
  BY InHand, DirectRuns DEF Write, At
<1>2. /\ link'[Row(r)] = OpenRow(run[r].on)
      /\ \A o \in Openings : o # Row(r) => link'[o] = link[o]
  BY <1>1, RecordedFacts DEF Write, TicketOf, OpenRow
<1>3. Alone(r) /\ OpenRow(t)' = OpenRow(t)
  BY WrittenFacts DEF Write, At, OpenRow, TicketOf
<1>4. CASE run[r].on = t
  BY <1>2, <1>3, <1>4 DEF InSight, Row
<1>5. CASE \E q \in Runs : q # r /\ At(q, "write") /\ run[q].on = t
  BY <1>3, <1>5 DEF InSight, Alone, At
<1>6. CASE \/ link[t[1]] = OpenRow(t)
           \/ /\ link[t[1]] = [status |-> "CLOSING", ticket |-> t] /\ t \notin unnamed
              /\ \E q \in Runs : run[q].event = "close" /\ t \in run[q].todo
  <2>1. Holds(r, Row(r))
    BY <1>1 DEF Holds, At
  <2>2. Says(t)
    BY <1>6 DEF Says, OpenRow, TicketOf
  <2>3. link'[t[1]] = link[t[1]]
    BY <1>1, <1>2, <2>1, <2>2, SaysWhat
  <2>4. CASE link[t[1]] = OpenRow(t)
    BY <1>3, <2>3, <2>4 DEF InSight
  <2>5. CASE link[t[1]] # OpenRow(t)
    <3>1. PICK q \in Runs : run[q].event = "close" /\ t \in run[q].todo
      BY <1>6, <2>5
    <3>2. run'[q].event = "close" /\ t \in run'[q].todo
      BY <1>1, <1>3, <3>1 DEF Alone
    <3>3. t \notin unnamed'
      BY <1>6, <2>5 DEF Write
    <3> QED BY <1>6, <2>3, <2>5, <3>2, <3>3 DEF InSight
  <2> QED BY <2>4, <2>5
<1> QED BY <1>4, <1>5, <1>6 DEF InSight

LEMMA SightMarkFailed ==
  ASSUME BInv, \A e \in Openings : OrderedOnce(e), NEW t \in positions, InSight(t), NEW r \in Runs, MarkFailed(r)
  PROVE  InSight(t)'
<1>1. /\ Alone(r) /\ ~At(r, "write") /\ run[r].event \in Openings /\ Row(r) = run[r].event
      /\ Holds(r, Row(r)) /\ run[r].event # "close" /\ UNCHANGED unnamed
  BY InHand, EndsFacts, DirectRuns DEF MarkFailed, At, BInv, Holds
<1>2. \A e \in Openings : e = Row(r) \/ link'[e] = link[e]
  BY StatusFacts DEF MarkFailed, BInv, Statuses
<1> QED BY <1>1, <1>2, SightOfOpener

LEMMA SightClaim ==
  ASSUME BInv, NEW t \in positions, InSight(t), ~Fault, NEW r \in Runs, Claim(r)
  PROVE  InSight(t)'
<1>1. /\ run[r].event = "close" /\ ~At(r, "write") /\ run[r].todo = {} /\ run[r] \in RunRecords
      /\ t[1] \in Openings /\ UNCHANGED unnamed
  BY DEF Claim, At, BInv, Shape, TypeOK, Orders
<1>2. run' = [run EXCEPT ![r].at = "close", ![r].todo = Tickets(Mapped)]
  BY DEF Claim
<1>3. Alone(r) /\ run'[r] = [run[r] EXCEPT !.at = "close", !.todo = Tickets(Mapped)]
  BY <1>2 DEF Alone, BInv, TypeOK
<1>4. run'[r].event = "close" /\ run'[r].todo = Tickets(Mapped)
  BY <1>1, <1>3 DEF RunRecords
<1>5. CASE link[t[1]] = OpenRow(t) /\ t \notin unnamed
  <2>1. t # None /\ link[t[1]] = [status |-> "OPEN", ticket |-> t]
    BY <1>5, NoneIsNoOrder DEF BInv, TypeOK, OpenRow, TicketOf
  <2>2. t[1] \in Mapped /\ t \in Tickets(Mapped)
    BY <1>1, <2>1 DEF Mapped, Tickets
  <2>3. link'[t[1]] = [link[t[1]] EXCEPT !.status = "CLOSING"]
    BY <1>1, <2>2 DEF Claim
  <2>4. link'[t[1]] = [status |-> "CLOSING", ticket |-> t]
    BY <2>1, <2>3
  <2> QED BY <1>1, <1>4, <1>5, <2>2, <2>4 DEF InSight
<1>6. CASE ~(link[t[1]] = OpenRow(t) /\ t \notin unnamed)
  <2>1. Says(t) => t[1] \notin Mapped
    BY <1>1, <1>6 DEF Says, OpenRow, TicketOf, Mapped, BInv, TypeOK, LinkRecords
  <2>2. Says(t) => link'[t[1]] = link[t[1]]
    BY <1>1, <2>1 DEF Claim
  <2> QED BY <1>1, <1>3, <2>2, SightKept
<1> QED BY <1>5, <1>6

LEMMA SightGiveBack ==
  ASSUME BInv, \A e \in Openings : OrderedOnce(e), NEW t \in positions, InSight(t), NEW r \in Runs, GiveBack(r)
  PROVE  InSight(t)'
<1>1. /\ Alone(r) /\ ~At(r, "write") /\ t[1] \in Openings /\ link[t[1]] \in LinkRecords
      /\ UNCHANGED unnamed
  BY EndsFacts DEF GiveBack, At, BInv, TypeOK, Orders
<1>2. link'[t[1]] = IF link[t[1]].ticket \in run[r].todo /\ link[t[1]].status = "CLOSING"
                    THEN [link[t[1]] EXCEPT !.status = "OPEN"] ELSE link[t[1]]
  BY <1>1 DEF GiveBack
<1>3. ASSUME Says(t)
      PROVE  link'[t[1]] = link[t[1]] \/ link'[t[1]] = OpenRow(t)
  BY <1>1, <1>2, <1>3 DEF Says, OpenRow, LinkRecords
<1>4. ASSUME t \in run[r].todo
      PROVE  link'[t[1]] = OpenRow(t) \/ ~Says(t)
  <2>1. Says(t) => link[t[1]].ticket = t /\ OpenRow(t) = [status |-> "OPEN", ticket |-> t]
    BY <1>4, ClosedHasTicket
  <2> QED BY <1>1, <1>2, <1>4, <2>1 DEF Says, LinkRecords
<1>5. CASE Says(t)
  BY <1>1, <1>3, <1>4, <1>5, SightKept
<1>6. CASE ~Says(t)
  <2>1. \E q \in Runs : At(q, "write") /\ run[q].on = t
    BY <1>6 DEF InSight, Says, OpenRow, TicketOf
  <2> QED BY <1>1, <2>1 DEF InSight, Alone, At
<1> QED BY <1>5, <1>6

LEMMA SightCloseTrade ==
  ASSUME BInv, NEW t \in positions, InSight(t), NEW r \in Runs, CloseTrade(r)
  PROVE  InSight(t)'
<1>1. /\ run[r] \in RunRecords /\ ~At(r, "write") /\ UNCHANGED <<link, unnamed>>
  BY DEF CloseTrade, At, BInv, TypeOK
<1>2. PICK u \in run[r].todo, place \in {"closed", "reopen"} : run' = [run EXCEPT ![r].at = place, ![r].on = u]
  BY DEF CloseTrade
<1>3. Alone(r) /\ run'[r] = [run[r] EXCEPT !.at = place, !.on = u]
  BY <1>2 DEF Alone, BInv, TypeOK
<1>4. run'[r].event = run[r].event /\ run'[r].todo = run[r].todo
  BY <1>1, <1>3 DEF RunRecords
<1> QED BY <1>1, <1>3, <1>4, SightKept

LEMMA SightWriteClose ==
  ASSUME BInv, \A e \in Openings : OrderedOnce(e), NEW t \in positions, InSight(t), ~Fault, NEW r \in Runs, WriteClose(r)
  PROVE  InSight(t)'
<1>1. /\ run[r].on \in run[r].todo /\ run[r].event = "close" /\ ~At(r, "write")
      /\ At(r, "closed") => run[r].on \notin positions
      /\ UNCHANGED unnamed
  BY DEF WriteClose, At, BInv, Shape
<1>2. /\ Alone(r) /\ run'[r].todo = run[r].todo \ {run[r].on}
      /\ run'[r] # Off => run'[r].event = "close"
      /\ run'[r] = Off => run'[r].todo = {}
  BY NextCopyFacts DEF WriteClose
<1>3. SetStatus(Row(r), IF At(r, "closed") THEN "CLOSED" ELSE "OPEN")
  BY DEF WriteClose
<1>4. t[1] \in Openings /\ link \in [Openings -> LinkRecords]
  BY DEF BInv, TypeOK, Orders
<1>5. CASE Says(t) /\ run[r].on = t
  <2>1. ~At(r, "closed") /\ Row(r) = t[1]
    BY <1>1, <1>5 DEF Row
  <2>2. link'[t[1]] = [link[t[1]] EXCEPT !.status = "OPEN"]
    BY <1>3, <1>4, <2>1 DEF SetStatus
  <2>3. link'[t[1]] = OpenRow(t)
    BY <1>4, <1>5, <2>2 DEF Says, OpenRow, LinkRecords
  <2>4. OpenRow(t)' = OpenRow(t)
    BY <1>1 DEF OpenRow, TicketOf
  <2> QED BY <2>3, <2>4 DEF InSight
<1>6. CASE Says(t) /\ run[r].on # t
  <2>1. Row(r) # t[1]
    BY <1>1, <1>6, SaysWhat DEF Row
  <2>2. link'[t[1]] = link[t[1]]
    BY <1>3, <1>4, <2>1 DEF SetStatus
  <2> QED BY <1>1, <1>2, <1>6, <2>2, SightKept
<1>7. CASE ~Says(t)
  <2>1. \E q \in Runs : At(q, "write") /\ run[q].on = t
    BY <1>7 DEF InSight, Says, OpenRow, TicketOf
  <2> QED BY <1>1, <1>2, <2>1 DEF InSight, Alone, At
<1> QED BY <1>5, <1>6, <1>7

LEMMA SightRead ==
  ASSUME BInv, NEW t \in positions, InSight(t), NEW r \in Runs, Read(r)
  PROVE  InSight(t)'
<1>1. ~At(r, "write") /\ UNCHANGED <<link, unnamed>> /\ run[r].event # "close" /\ Alone(r)
  BY DEF Read, At, BInv, TypeOK, Alone
<1> QED BY <1>1, SightKept

LEMMA SightLookAdd ==
  ASSUME BInv, NEW t \in positions, InSight(t), NEW r \in Runs, LookAdd(r)
  PROVE  InSight(t)'
<1>1. ~At(r, "write") /\ UNCHANGED <<link, unnamed>> /\ run[r].event # "close" /\ Alone(r)
  BY WorkFacts, GotoFacts DEF LookAdd, At, BInv, Openings, Places
<1> QED BY <1>1, SightKept

LEMMA SightInsertAdd ==
  ASSUME BInv, \A e \in Openings : OrderedOnce(e), NEW t \in positions, InSight(t), ~Fault, NEW r \in Runs, InsertAdd(r)
  PROVE  InSight(t)'
<1>1. Alone(r) /\ ~At(r, "write") /\ run[r].event # "close" /\ UNCHANGED unnamed
  BY WorkFacts, EndsFacts DEF InsertAdd, At, BInv, Openings, Shape
<1>2. \A e \in Openings : link[e].status = "absent" \/ link'[e] = link[e]
  BY StatusFacts DEF InsertAdd, BInv, Statuses
<1> QED BY <1>1, <1>2, SightOfOpener

LEMMA SightChange ==
  ASSUME BInv, \A e \in Openings : OrderedOnce(e), NEW t \in positions, InSight(t), NEW r \in Runs, Change(r)
  PROVE  InSight(t)'
<1>1. Alone(r) /\ ~At(r, "write") /\ run[r].event # "close" /\ UNCHANGED unnamed
  BY ChangeFacts DEF Change, At
<1>2. PICK u \in run[r].todo : UNCHANGED link \/ SetStatus(u[1], "OPEN")
  BY DEF Change
<1>3. ASSUME Says(t)
      PROVE  link'[t[1]] = link[t[1]] \/ link'[t[1]] = OpenRow(t)
  <2>1. t[1] \in Openings /\ link[t[1]] \in LinkRecords /\ (u[1] = t[1] => u = t)
    BY <1>3, SaysWhat
  <2>2. CASE SetStatus(u[1], "OPEN") /\ u[1] = t[1]
    <3>1. link'[t[1]] = [link[t[1]] EXCEPT !.status = "OPEN"]
      BY <2>1, <2>2 DEF SetStatus, BInv, TypeOK
    <3> QED BY <1>3, <2>1, <3>1 DEF Says, OpenRow, LinkRecords
  <2>3. CASE UNCHANGED link \/ (SetStatus(u[1], "OPEN") /\ u[1] # t[1])
    BY <2>1, <2>3 DEF SetStatus, BInv, TypeOK
  <2> QED BY <1>2, <2>2, <2>3
<1> QED BY <1>1, <1>3, SightKept

LEMMA SightStarting ==
  ASSUME BInv, NEW t \in positions, InSight(t), NEW r \in Runs, NEW e \in Events, Starts(r, e), run[r] = Off, UNCHANGED <<link, unnamed>>
  PROVE  InSight(t)'
<1>1. Alone(r) /\ ~At(r, "write") /\ run[r].todo = {}
  BY StartsFacts, OffType DEF At
<1> QED BY <1>1, SightKept

LEMMA SightInvStep ==
  ASSUME BInv, OrderInv, SightInv, [Next]_vars
  PROVE  SightInv'
<1> SUFFICES ASSUME doubt' = {}, NEW t \in positions'
             PROVE  InSight(t)'
  BY DEF SightInv
<1>1. doubt = {} /\ ~Fault
  BY DEF Next, Step, Store, Repeat, Gated, Reserve, Look, Retake, Order, Write, MarkFailed, Claim,
     GiveBack, CloseTrade, WriteClose, Read, LookAdd, InsertAdd, Change, Crash, Stopped, Fault, vars, ghosts
<1>2. (t \in positions => InSight(t)) /\ \A e \in Openings : OrderedOnce(e)
  BY <1>1 DEF SightInv, OrderInv, Sure
<1>3. CASE UNCHANGED vars \/ Stopped
  BY <1>2, <1>3 DEF vars, Stopped, InSight, At, OpenRow, TicketOf
<1>4. ASSUME NEW e \in Events, Store(e)
      PROVE  InSight(t)'
  <2>1. t \in positions /\ Starts(Direct, e) /\ run[Direct] = Off /\ UNCHANGED <<link, unnamed>> /\ Direct \in Runs
    BY <1>4, DirectRuns DEF Store, Starts
  <2> QED BY <1>2, <2>1, SightStarting
<1>5. ASSUME NEW r \in Repeats, Repeat(r)
      PROVE  InSight(t)'
  <2>1. t \in positions /\ Starts(r, RepeatOf[r]) /\ run[r] = Off /\ UNCHANGED <<link, unnamed>> /\ r \in Runs /\ RepeatOf[r] \in Events
    BY <1>5, DirectRuns DEF Repeat, Starts, BInv, Scheduled
  <2> QED BY <1>2, <2>1, SightStarting
<1>6. CASE \E r \in Runs : Order(r)
  BY <1>2, <1>6, SightOrder
<1>7. CASE \E r \in Runs : Crash(r)
  BY <1>7 DEF Crash
<1>8. ASSUME NEW r \in Runs, Step(r), ~Order(r)
      PROVE  InSight(t)'
  <2>1. t \in positions
    BY <1>8 DEF Step, Gated, Reserve, Look, Retake, Write, MarkFailed, Claim, GiveBack, CloseTrade, WriteClose,
       Read, LookAdd, InsertAdd, Change
  <2> QED BY <1>1, <1>2, <1>8, <2>1, SightGated, SightReserve, SightLook, SightRetake, SightWrite, SightMarkFailed,
       SightClaim, SightGiveBack, SightCloseTrade, SightWriteClose, SightRead, SightLookAdd, SightInsertAdd, SightChange DEF Step
<1> QED BY <1>3, <1>4, <1>5, <1>6, <1>7, <1>8 DEF Next

\* While no answer was lost and no process died, no position that executeCopyForEvent
\* opened is out of sight between the runs: its row is OPEN with the ticket the
\* broker's answer named, or with none if the answer named none.
THEOREM StrategyPositionsRecorded == ASSUME RepeatedOnce PROVE Spec => []PositionsRecorded
<1>1. Init => BInv /\ OrderInv /\ SightInv
  BY BaseInit, OrderInvInit DEF Init, SightInv
<1>2. (BInv /\ OrderInv /\ SightInv) /\ [Next]_vars => (BInv /\ OrderInv /\ SightInv)'
  BY BaseStep, OrderInvStep, SightInvStep
<1>3. BInv /\ OrderInv /\ SightInv => PositionsRecorded
  BY OffType DEF SightInv, PositionsRecorded, InSight, At, OpenRow
<1> QED BY <1>1, <1>2, <1>3, PTL DEF Spec

-----------------------------------------------------------------------------
(* One closer of a copy.                                                   *)

\* What a step of r means to those who close: how it changes what r has in
\* hand, and that a row is opened only with a ticket nobody closes, by a
\* MODIFY, or by one who has had its claim.
CloserStep(r) ==
  /\ Alone(r) /\ UNCHANGED <<stored, waiting>> /\ run[r] # Off
  /\ run'[r].event \in {run[r].event, "none"} /\ run'[r].at # "start"
  /\ \/ run'[r].todo \subseteq run[r].todo
     \/ /\ run'[r].todo = Tickets(Mapped)
        /\ run[r].event = "close" => At(r, "start") /\ \A e \in Mapped : link'[e].status = "CLOSING"
  /\ run'[r].at = "write" => At(r, "write") \/ (run'[r].on \in Orders /\ ~Placed(run'[r].on))
  /\ run'[r].at = "write" /\ At(r, "write") => run'[r] = run[r] /\ UNCHANGED link
  /\ \A e \in Openings :
       \/ link'[e].ticket = link[e].ticket
       \/ At(r, "write") /\ link'[e].ticket \in {None, run[r].on}
  /\ \A e \in Openings :
       \/ link'[e] = link[e] \/ link'[e].status # "OPEN"
       \/ At(r, "write") /\ link'[e].ticket \in {None, run[r].on}
       \/ run[r].event \in {"add", "change"}
       \/ run[r].event = "close" /\ ~At(r, "start") /\ \A t \in run'[r].todo : t[1] # e

LEMMA ModifiesKept ==
  ASSUME BInv, ModifiesOver, NEW r \in Runs, CloserStep(r)
  PROVE  ModifiesOver'
<1>1. "close" \in stored' => run'[Direct].event \in {"none", "close"}
  BY DirectRuns DEF ModifiesOver, CloserStep, Alone
<1>2. \A q \in Repeats : run'[q].event = "close" => "close" \in stored'
  BY DirectRuns DEF ModifiesOver, CloserStep, Alone
<1> QED BY <1>1, <1>2 DEF ModifiesOver

LEMMA NewTicketKept ==
  ASSUME BInv, NewTicket, NEW r \in Runs, CloserStep(r)
  PROVE  NewTicket'
<1>1. SUFFICES ASSUME NEW x \in Runs, run'[x].at = "write"
               PROVE  /\ \A e \in Openings : link'[e].ticket # run'[x].on
                      /\ \A q \in Runs : /\ run'[x].on \notin run'[q].todo
                                         /\ (run'[q].at = "write" /\ run'[q].on = run'[x].on) => q = x
  BY DEF NewTicket, At
<1>2. /\ \A e \in Openings : link[e].ticket = None \/ Placed(link[e].ticket)
      /\ \A q \in Runs : /\ \A t \in run[q].todo : Placed(t)
                         /\ run[q].at = "write" => Placed(run[q].on)
  BY DEF BInv, TicketsPlaced, At
<1>3. \A q \in Runs : q # r => run'[q] = run[q]
  BY DEF CloserStep, Alone
<1>4. \A t \in Tickets(Mapped) : \E e \in Openings : t = link[e].ticket
  BY DEF Tickets, Mapped
<1>5. CASE x = r /\ ~At(r, "write")
  <2>1. ~Placed(run'[r].on) /\ run'[r].on # None
    BY <1>1, <1>5, NoneIsNoOrder DEF CloserStep
  <2> QED BY <1>2, <1>3, <1>4, <1>5, <2>1, MappedTickets DEF CloserStep, At
<1>6. CASE x = r /\ At(r, "write")
  <2>1. run'[r] = run[r] /\ UNCHANGED link /\ \A q \in Runs : run'[q] = run[q]
    BY <1>1, <1>3, <1>6 DEF CloserStep
  <2> QED BY <1>1, <1>6, <2>1 DEF NewTicket, At
<1>7. CASE x # r
  <2>1. At(x, "write") /\ run'[x] = run[x] /\ Placed(run[x].on)
    BY <1>1, <1>2, <1>3, <1>7 DEF At
  <2>2. /\ \A e \in Openings : link[e].ticket # run[x].on
        /\ \A q \in Runs : /\ run[x].on \notin run[q].todo
                           /\ (At(q, "write") /\ run[q].on = run[x].on) => q = x
    BY <2>1 DEF NewTicket
  <2>3. \A e \in Openings : link'[e].ticket # run'[x].on
    <3>1. run[x].on # None
      BY <2>1, NoneIsNoOrder DEF BInv, TypeOK, Placed
    <3> QED BY <1>7, <2>1, <2>2, <3>1 DEF CloserStep
  <2>4. run[x].on \notin run'[r].todo
    BY <1>4, <2>2 DEF CloserStep
  <2>5. run'[r].at = "write" => run'[r].on # run[x].on
    BY <1>7, <2>1, <2>2 DEF CloserStep
  <2> QED BY <1>3, <2>1, <2>2, <2>3, <2>4, <2>5 DEF At
<1> QED BY <1>5, <1>6, <1>7

LEMMA ClosersAre ==
  ASSUME BInv, ClosedTwiceAtMost
  PROVE  /\ \A r \in Runs : run[r].event = "close" => r \in Closers
         /\ \A r \in Runs : run[r].event \in {"add", "change"} => r = Direct
         /\ \A x, y, z \in Closers : x = y \/ x = z \/ y = z
         /\ \A r \in Runs : run[r].event = "close" /\ run[r].at # "start" /\ ModifiesOver => HasClaimed(r)
  BY DirectRuns, OffType DEF BInv, Scheduled, Closers, RunsOf, ClosedTwiceAtMost, HasClaimed, At, ModifiesOver

LEMMA ClaimedKept ==
  ASSUME NEW r \in Runs, BInv, CloserStep(r), NEW q \in Closers, HasClaimed(q)
  PROVE  HasClaimed(q)'
  BY DirectRuns DEF HasClaimed, CloserStep, Alone, At, Closers, RunsOf

\* A copy that is open in its row is in the hands of those who have claimed.
LEMMA ClaimedOnceKept ==
  ASSUME BInv, CloserInv, ClosedTwiceAtMost, NEW r \in Runs, CloserStep(r)
  PROVE  ClaimedOnce'
<1>1. SUFFICES ASSUME NEW x \in Runs, run'[x].event = "close", NEW t \in run'[x].todo,
                      link'[t[1]] = [status |-> "OPEN", ticket |-> t], NEW q \in Closers
               PROVE  HasClaimed(q)'
  BY DEF ClaimedOnce, Closers, RunsOf
<1>2. CASE HasClaimed(q)
  BY <1>2, ClaimedKept
<1>3. CASE ~HasClaimed(q)
  <2>1. run[x].event = "close" /\ x \in Closers
    <3>1. run[x].event = "close"
      BY <1>1 DEF CloserStep, Alone
    <3> QED BY <3>1, ClosersAre
  <2>2. run'[r].todo \subseteq run[r].todo \/ x # r
    <3>1. CASE x = r /\ run'[r].todo = Tickets(Mapped) /\ \A e \in Mapped : link'[e].status = "CLOSING"
      BY <1>1, <3>1, MappedTickets
    <3> QED BY <2>1, <3>1 DEF CloserStep
  <2>3. t \in run[x].todo
    BY <1>1, <2>2 DEF CloserStep, Alone
  <2>4. t[1] \in Openings
    BY <2>3 DEF BInv, TypeOK, RunRecords, Orders
  <2>5. link[t[1]] # [status |-> "OPEN", ticket |-> t]
    BY <1>3, <2>1, <2>3 DEF CloserInv, ClaimedOnce
  <2>6. link'[t[1]] # link[t[1]] /\ link'[t[1]].status = "OPEN" /\ link'[t[1]].ticket = t
    BY <1>1, <2>5
  <2>7. ~(At(r, "write") /\ link'[t[1]].ticket \in {None, run[r].on})
    BY <2>3, <2>6, NoneIsNoOrder DEF CloserInv, NewTicket, BInv, TypeOK, RunRecords
  <2>8. run[r].event \notin {"add", "change"}
    <3>1. run[r].event \in {"add", "change"} => r = Direct
      BY ClosersAre
    <3>2. "close" \in stored
      BY <2>1, DirectRuns DEF CloserInv, ModifiesOver, BInv, Scheduled
    <3> QED BY <3>1, <3>2 DEF CloserInv, ModifiesOver
  <2>9. run[r].event = "close" /\ ~At(r, "start") /\ \A u \in run'[r].todo : u[1] # t[1]
    BY <2>4, <2>6, <2>7, <2>8 DEF CloserStep
  <2>10. x # r
    BY <1>1, <2>9
  <2>11. HasClaimed(r) /\ r \in Closers
    BY <2>9, ClosersAre DEF CloserInv, At
  <2>12. HasClaimed(x)
    <3>1. run[x].at # "start"
      BY <2>3 DEF BInv, Shape, At
    <3> QED BY <2>1, <3>1, ClosersAre DEF CloserInv
  <2>13. q = r \/ q = x
    BY <2>1, <2>10, <2>11, ClosersAre
  <2> QED BY <1>3, <2>11, <2>12, <2>13
<1> QED BY <1>2, <1>3

LEMMA OneCloserKept ==
  ASSUME BInv, CloserInv, ClosedTwiceAtMost, NEW r \in Runs, CloserStep(r)
  PROVE  OneCloser'
<1>1. ASSUME NEW q \in Runs, q # r, run'[r].event = "close", run[q].event = "close"
      PROVE  run'[r].todo \cap run[q].todo = {}
  <2>1. run[r].event = "close"
    BY <1>1 DEF CloserStep
  <2>2. CASE run'[r].todo \subseteq run[r].todo
    BY <1>1, <2>1, <2>2 DEF CloserInv, OneCloser
  <2>3. CASE run'[r].todo = Tickets(Mapped) /\ At(r, "start")
    <3>1. SUFFICES ASSUME NEW t \in Tickets(Mapped), t \in run[q].todo
                   PROVE  FALSE
      BY <2>3
    <3>2. t[1] \in Mapped /\ link[t[1]].ticket = t
      BY <3>1, MappedTickets
    <3>3. link[t[1]] = [status |-> "OPEN", ticket |-> t]
      BY <3>2 DEF Mapped, BInv, TypeOK, LinkRecords
    <3>4. HasClaimed(r)
      BY <1>1, <2>1, <3>1, <3>3, ClosersAre DEF CloserInv, ClaimedOnce
    <3> QED BY <2>1, <2>3, <3>4 DEF HasClaimed
  <2> QED BY <2>1, <2>2, <2>3 DEF CloserStep
<1>2. \A q \in Runs : q # r => run'[q] = run[q]
  BY DEF CloserStep, Alone
<1>3. ASSUME NEW x \in Runs, NEW y \in Runs, x # y, run'[x].event = "close", run'[y].event = "close"
      PROVE  run'[x].todo \cap run'[y].todo = {}
  <2>1. CASE x = r
    BY <1>1, <1>2, <1>3, <2>1
  <2>2. CASE y = r
    BY <1>1, <1>2, <1>3, <2>2
  <2>3. CASE x # r /\ y # r
    BY <1>2, <1>3, <2>3 DEF CloserInv, OneCloser
  <2> QED BY <2>1, <2>2, <2>3
<1> QED BY <1>3 DEF OneCloser

LEMMA CloserKept ==
  ASSUME BInv, CloserInv, ClosedTwiceAtMost, NEW r \in Runs, CloserStep(r)
  PROVE  CloserInv'
  BY ModifiesKept, NewTicketKept, ClaimedOnceKept, OneCloserKept DEF CloserInv

\* A step that is about to write no ticket before it or after it.
LEMMA PlainStep ==
  ASSUME BInv, NEW r \in Runs, Alone(r), UNCHANGED <<stored, waiting>>, run[r] # Off,
         run'[r].event \in {run[r].event, "none"}, run'[r].at \notin {"start", "write"},
         run'[r].todo \subseteq run[r].todo,
         \A e \in Openings : link'[e].ticket = link[e].ticket,
         \A e \in Openings : link'[e] = link[e] \/ link'[e].status # "OPEN" \/ run[r].event \in {"add", "change"}
  PROVE  CloserStep(r)
  BY DEF CloserStep

LEMMA CloserEnds ==
  ASSUME BInv, NEW r \in Runs, Ends(r), UNCHANGED <<stored, waiting>>, run[r] # Off,
         \A e \in Openings : link'[e].ticket = link[e].ticket,
         \A e \in Openings : link'[e] = link[e] \/ link'[e].status # "OPEN"
  PROVE  CloserStep(r)
<1>1. Alone(r) /\ run'[r].event = "none" /\ run'[r].at = "off" /\ run'[r].todo = {}
  BY EndsFacts, OffType DEF BInv
<1> QED BY <1>1, PlainStep

\* A status that does not open.
LEMMA NotOpened ==
  ASSUME BInv, NEW e, NEW status \in Statuses \ {"OPEN"}, SetStatus(e, status)
  PROVE  \A o \in Openings : link'[o].ticket = link[o].ticket /\ (link'[o] = link[o] \/ link'[o].status # "OPEN")
  BY StatusFacts DEF BInv

LEMMA CloserGated == ASSUME BInv, NEW r \in Runs, Gated(r) PROVE CloserStep(r)
  BY Begun, CloserEnds DEF Gated, At

LEMMA CloserReserve == ASSUME BInv, NEW r \in Runs, Reserve(r) PROVE CloserStep(r)
<1>1. run[r] # Off /\ run[r] \in RunRecords
  BY Begun DEF Reserve, At, BInv, TypeOK
<1>2. \A o \in Openings : link'[o].ticket = link[o].ticket /\ (link'[o] = link[o] \/ link'[o].status # "OPEN")
  BY NotOpened DEF Reserve, Statuses
<1>3. CASE Work(r, "open") \/ Goto(r, "look")
  BY <1>1, <1>2, <1>3, WorkFacts, GotoFacts, PlainStep DEF Reserve, BInv, Openings, Places
<1>4. CASE run' = [run EXCEPT ![r].at = "failed", ![r].on = <<"open", 0>>]
  <2>1. Alone(r) /\ run'[r] = [run[r] EXCEPT !.at = "failed", !.on = <<"open", 0>>]
    BY <1>4 DEF Alone, BInv, TypeOK
  <2>2. run'[r].event = run[r].event /\ run'[r].at = "failed" /\ run'[r].todo = run[r].todo
    BY <1>1, <2>1 DEF RunRecords
  <2> QED BY <1>1, <1>2, <2>1, <2>2, PlainStep DEF Reserve
<1> QED BY <1>3, <1>4 DEF Reserve

LEMMA CloserLook == ASSUME BInv, NEW r \in Runs, Look(r) PROVE CloserStep(r)
<1>1. run[r] # Off
  BY Begun DEF Look, At
<1>2. CASE Ends(r)
  BY <1>1, <1>2, CloserEnds DEF Look
<1>3. CASE Goto(r, "retake")
  BY <1>1, <1>3, GotoFacts, PlainStep DEF Look, BInv, Places
<1> QED BY <1>2, <1>3 DEF Look

LEMMA CloserRetake == ASSUME BInv, NEW r \in Runs, Retake(r) PROVE CloserStep(r)
<1>1. run[r] # Off
  BY Begun DEF Retake, At
<1>2. \A o \in Openings : link'[o].ticket = link[o].ticket /\ (link'[o] = link[o] \/ link'[o].status # "OPEN")
  BY NotOpened DEF Retake, Statuses
<1> QED BY <1>1, <1>2, WorkFacts, PlainStep DEF Retake, BInv, Openings

LEMMA CloserOrder == ASSUME BInv, NEW r \in Runs, Order(r) PROVE CloserStep(r)
<1>1. /\ run[r] # Off /\ Row(r) \in Openings /\ run[r].at = "send" /\ run[r] \in RunRecords
      /\ UNCHANGED <<stored, link, waiting>>
  BY InHand DEF Order, At, BInv, TypeOK
<1>2. CASE Goto(r, "failed")
  BY <1>1, <1>2, GotoFacts, PlainStep DEF BInv, Places
<1>3. CASE UNCHANGED run
  BY <1>1, <1>3, PlainStep DEF Alone
<1>4. ASSUME PlaceOrder(Row(r)), NEW t, t = <<Row(r), placed[Row(r)] + 1>>,
             run' = [run EXCEPT ![r].at = "write", ![r].on = t]
      PROVE  CloserStep(r)
  <2>1. Alone(r) /\ run'[r] = [run[r] EXCEPT !.at = "write", !.on = t]
    BY <1>4 DEF Alone, BInv, TypeOK
  <2>2. run'[r].event = run[r].event /\ run'[r].at = "write" /\ run'[r].on = t /\ run'[r].todo = run[r].todo
    BY <1>1, <2>1 DEF RunRecords
  <2>3. t \in Orders /\ ~Placed(t)
    BY <1>1, <1>4, OrderFacts
  <2> QED BY <1>1, <2>1, <2>2, <2>3 DEF CloserStep, At
<1> QED BY <1>2, <1>3, <1>4 DEF Order, PlaceOrder

LEMMA CloserWrite == ASSUME BInv, NEW r \in Runs, Write(r) PROVE CloserStep(r)
<1>1. run[r] # Off /\ Row(r) \in Openings /\ At(r, "write") /\ run[r].on \in Orders
  BY InHand DEF Write, At
<1>2. /\ Alone(r) /\ run'[r].at \notin {"write", "start"} /\ run'[r].todo \subseteq run[r].todo
      /\ run'[r].event \in {run[r].event, "none"}
  BY WrittenFacts, OffType DEF Write, At
<1>3. \A e \in Openings : link'[e] = link[e] \/ (e = Row(r) /\ link'[e].ticket \in {None, run[r].on})
  BY <1>1, RecordedFacts DEF Write, TicketOf
<1> QED BY <1>1, <1>2, <1>3 DEF CloserStep, Write

LEMMA CloserMarkFailed == ASSUME BInv, NEW r \in Runs, MarkFailed(r) PROVE CloserStep(r)
<1>1. run[r] # Off
  BY Begun DEF MarkFailed, At
<1>2. \A o \in Openings : link'[o].ticket = link[o].ticket /\ (link'[o] = link[o] \/ link'[o].status # "OPEN")
  BY NotOpened DEF MarkFailed, Statuses
<1> QED BY <1>1, <1>2, CloserEnds DEF MarkFailed

LEMMA CloserClaim == ASSUME BInv, NEW r \in Runs, Claim(r) PROVE CloserStep(r)
<1>1. run[r] # Off /\ run[r].event = "close" /\ run[r] \in RunRecords /\ At(r, "start")
  BY Begun DEF Claim, At, BInv, TypeOK
<1>2. /\ \A e \in Openings : /\ link'[e].ticket = link[e].ticket
                             /\ link'[e] = link[e] \/ link'[e].status = "CLOSING"
      /\ \A e \in Mapped : link'[e].status = "CLOSING"
  BY DEF Claim, Mapped, BInv, TypeOK, LinkRecords
<1>3. CASE Ends(r)
  BY <1>1, <1>2, <1>3, CloserEnds DEF Claim
<1>4. CASE run' = [run EXCEPT ![r].at = "close", ![r].todo = Tickets(Mapped)]
  <2>1. Alone(r) /\ run'[r] = [run[r] EXCEPT !.at = "close", !.todo = Tickets(Mapped)]
    BY <1>4 DEF Alone, BInv, TypeOK
  <2>2. run'[r].event = "close" /\ run'[r].at = "close" /\ run'[r].todo = Tickets(Mapped)
    BY <1>1, <2>1 DEF RunRecords
  <2> QED BY <1>1, <1>2, <2>1, <2>2 DEF CloserStep, Claim
<1> QED BY <1>3, <1>4 DEF Claim

LEMMA CloserGiveBack == ASSUME BInv, NEW r \in Runs, GiveBack(r) PROVE CloserStep(r)
<1>1. run[r] # Off /\ run[r].event = "close" /\ ~At(r, "start") /\ ~At(r, "write")
  BY Begun DEF GiveBack, At, BInv, Shape
<1>2. \A e \in Openings : link'[e].ticket = link[e].ticket
  BY DEF GiveBack, BInv, TypeOK, LinkRecords
<1>3. Alone(r) /\ run'[r].event = "none" /\ run'[r].at = "off" /\ run'[r].todo = {}
  BY EndsFacts, OffType DEF BInv, GiveBack
<1> QED BY <1>1, <1>2, <1>3 DEF CloserStep, GiveBack

LEMMA CloserCloseTrade == ASSUME BInv, NEW r \in Runs, CloseTrade(r) PROVE CloserStep(r)
<1>1. run[r] # Off /\ run[r] \in RunRecords
  BY Begun DEF CloseTrade, At, BInv, TypeOK
<1>2. PICK t \in run[r].todo, place \in {"closed", "reopen"} : run' = [run EXCEPT ![r].at = place, ![r].on = t]
  BY DEF CloseTrade
<1>3. Alone(r) /\ run'[r] = [run[r] EXCEPT !.at = place, !.on = t]
  BY <1>2 DEF Alone, BInv, TypeOK
<1>4. run'[r].event = run[r].event /\ run'[r].at = place /\ run'[r].todo = run[r].todo
  BY <1>1, <1>3 DEF RunRecords
<1> QED BY <1>1, <1>3, <1>4, PlainStep DEF CloseTrade

LEMMA CloserWriteClose == ASSUME BInv, NEW r \in Runs, WriteClose(r) PROVE CloserStep(r)
<1>1. /\ run[r] # Off /\ run[r].event = "close" /\ run[r].on \in run[r].todo
      /\ ~At(r, "start") /\ ~At(r, "write")
  BY Begun DEF WriteClose, At, BInv, Shape
<1>2. /\ Alone(r) /\ run'[r].todo = run[r].todo \ {run[r].on} /\ run'[r].event \in {run[r].event, "none"}
      /\ run'[r].at \in {"close", "off"}
  BY NextCopyFacts, OffType DEF WriteClose
<1>3. \A t \in run'[r].todo : t[1] # Row(r)
  BY <1>1, <1>2 DEF BInv, TicketsPlaced, Row
<1>4. \A e \in Openings : link'[e].ticket = link[e].ticket /\ (e = Row(r) \/ link'[e] = link[e])
  BY StatusFacts DEF WriteClose, BInv, Statuses
<1> QED BY <1>1, <1>2, <1>3, <1>4 DEF CloserStep, WriteClose

LEMMA CloserRead == ASSUME BInv, NEW r \in Runs, Read(r) PROVE CloserStep(r)
<1>1. run[r] # Off /\ run[r] \in RunRecords /\ run[r].event # "close"
  BY Begun DEF Read, At, BInv, TypeOK
<1>2. PICK place \in {"look", "change"} : run' = [run EXCEPT ![r].at = place, ![r].todo = Tickets(Mapped)]
  BY DEF Read
<1>3. Alone(r) /\ run'[r] = [run[r] EXCEPT !.at = place, !.todo = Tickets(Mapped)]
  BY <1>2 DEF Alone, BInv, TypeOK
<1>4. run'[r].event = run[r].event /\ run'[r].at = place /\ run'[r].todo = Tickets(Mapped)
  BY <1>1, <1>3 DEF RunRecords
<1> QED BY <1>1, <1>3, <1>4 DEF CloserStep, Read

LEMMA CloserLookAdd == ASSUME BInv, NEW r \in Runs, LookAdd(r) PROVE CloserStep(r)
<1>1. run[r] # Off
  BY Begun DEF LookAdd, At
<1> QED BY <1>1, WorkFacts, GotoFacts, PlainStep DEF LookAdd, BInv, Openings, Places

LEMMA CloserInsertAdd == ASSUME BInv, NEW r \in Runs, InsertAdd(r) PROVE CloserStep(r)
<1>1. run[r] # Off
  BY Begun DEF InsertAdd, At
<1>2. \A o \in Openings : link'[o].ticket = link[o].ticket /\ (link'[o] = link[o] \/ link'[o].status # "OPEN")
  BY NotOpened DEF InsertAdd, Statuses
<1>3. CASE Ends(r)
  BY <1>1, <1>2, <1>3, CloserEnds DEF InsertAdd
<1>4. CASE Work(r, "add")
  BY <1>1, <1>2, <1>4, WorkFacts, PlainStep DEF InsertAdd, BInv, Openings
<1> QED BY <1>3, <1>4 DEF InsertAdd

LEMMA CloserChange == ASSUME BInv, NEW r \in Runs, Change(r) PROVE CloserStep(r)
<1>1. run'[r].at \notin {"start", "write"}
  BY ChangeFacts, OffType
<1> QED BY <1>1, ChangeFacts, PlainStep DEF Change

LEMMA CloserCrash == ASSUME BInv, NEW r \in Runs, Crash(r) PROVE CloserStep(r)
  BY CloserEnds DEF Crash

\* A run that begins has nothing in hand.
LEMMA StartingKeeps ==
  ASSUME BInv, NewTicket, OneCloser, NEW r \in Runs, NEW e \in Events, Starts(r, e), UNCHANGED link
  PROVE  NewTicket' /\ OneCloser'
<1>1. Alone(r) /\ run'[r].at = "start" /\ run'[r].todo = {}
  BY StartsFacts
<1>2. NewTicket'
  BY <1>1 DEF NewTicket, Alone, At
<1>3. OneCloser'
  BY <1>1 DEF OneCloser, Alone
<1> QED BY <1>2, <1>3

LEMMA CloserStore ==
  ASSUME BInv, CloserInv, ClosedTwiceAtMost, NEW e \in Events, Store(e)
  PROVE  CloserInv'
<1>1. /\ Starts(Direct, e) /\ Direct \in Runs /\ run[Direct] = Off /\ UNCHANGED link
      /\ "close" \notin stored /\ stored' = stored \cup {e}
  BY DirectRuns DEF Store, Starts
<1>2. Alone(Direct) /\ run'[Direct].event = e /\ run'[Direct].todo = {}
  BY <1>1, StartsFacts
<1>3. \A q \in Repeats : run'[q] = run[q] /\ run'[q].event # "close"
  BY <1>1, <1>2, DirectRuns DEF CloserInv, ModifiesOver, Alone
<1>4. ModifiesOver'
  BY <1>1, <1>2, <1>3 DEF ModifiesOver
<1>5. ClaimedOnce'
  BY <1>2, <1>3, DirectRuns DEF ClaimedOnce
<1> QED BY <1>1, <1>4, <1>5, StartingKeeps DEF CloserInv

LEMMA CloserRepeat ==
  ASSUME BInv, CloserInv, ClosedTwiceAtMost, NEW r \in Repeats, Repeat(r)
  PROVE  CloserInv'
<1>1. /\ Starts(r, RepeatOf[r]) /\ r \in Runs /\ r # Direct /\ RepeatOf[r] \in Events /\ RepeatOf[r] \in stored
      /\ r \in waiting /\ waiting' = waiting \ {r} /\ UNCHANGED <<link, stored>>
  BY DirectRuns DEF Repeat, Starts, ClosedTwiceAtMost
<1>2. Alone(r) /\ run'[r].event = RepeatOf[r] /\ run'[r].todo = {} /\ run'[r].at = "start"
  BY <1>1, StartsFacts
<1>3. ModifiesOver'
  BY <1>1, <1>2, DirectRuns DEF CloserInv, ModifiesOver, Alone
<1>4. ClaimedOnce'
  <2>1. SUFFICES ASSUME NEW x \in Runs, run'[x].event = "close", NEW t \in run'[x].todo,
                        link'[t[1]] = [status |-> "OPEN", ticket |-> t], NEW q \in Closers
                 PROVE  HasClaimed(q)'
    BY DEF ClaimedOnce, Closers, RunsOf
  <2>2. x # r /\ run'[x] = run[x]
    BY <1>2, <2>1 DEF Alone
  <2>3. HasClaimed(q)
    BY <1>1, <2>1, <2>2 DEF CloserInv, ClaimedOnce
  <2>4. q # r
    BY <1>1, <2>3 DEF HasClaimed
  <2>5. run'[q] = run[q]
    BY <1>2, <2>4, DirectRuns DEF Alone, Closers, RunsOf
  <2> QED BY <1>1, <2>3, <2>4, <2>5 DEF HasClaimed, At
<1> QED BY <1>1, <1>3, <1>4, StartingKeeps DEF CloserInv

LEMMA CloserInvStep ==
  ASSUME BInv, CloserInv, ClosedTwiceAtMost, [Next]_vars
  PROVE  CloserInv'
<1>1. CASE UNCHANGED vars \/ Stopped
  <2>1. UNCHANGED <<stored, link, run, waiting>>
    BY <1>1 DEF vars, Stopped
  <2>2. ModifiesOver' /\ NewTicket' /\ OneCloser'
    BY <2>1 DEF CloserInv, ModifiesOver, NewTicket, OneCloser, At
  <2>3. ClaimedOnce'
    BY <2>1 DEF CloserInv, ClaimedOnce, HasClaimed, Closers, RunsOf, At
  <2> QED BY <2>2, <2>3 DEF CloserInv
<1>2. CASE \E e \in Events : Store(e)
  BY <1>2, CloserStore
<1>3. CASE \E r \in Repeats : Repeat(r)
  BY <1>3, CloserRepeat
<1>4. ASSUME NEW r \in Runs, Step(r) \/ Crash(r)
      PROVE  CloserInv'
  <2>1. CloserStep(r)
    BY <1>4, CloserGated, CloserReserve, CloserLook, CloserRetake, CloserOrder, CloserWrite, CloserMarkFailed,
       CloserClaim, CloserGiveBack, CloserCloseTrade, CloserWriteClose, CloserRead, CloserLookAdd,
       CloserInsertAdd, CloserChange, CloserCrash DEF Step
  <2> QED BY <2>1, CloserKept
<1> QED BY <1>1, <1>2, <1>3, <1>4 DEF Next

\* The worker's run of a CLOSE and one that repeats it never have the same copy
\* to close, whatever failed, was lost or crashed before, and whatever a job does
\* with the OPEN: the claim of handleCloseEvent decides.
THEOREM StrategyOneCloser == ASSUME ClosedTwiceAtMost PROVE Spec => []OneCloser
<1>1. Init => BInv /\ CloserInv
  <2> SUFFICES ASSUME Init PROVE CloserInv
    BY BaseInit
  <2>2. \A r \in Runs : run[r].event = "none" /\ run[r].at = "off"
    BY OffType DEF Init
  <2>3. Repeats \subseteq Runs /\ stored = {}
    BY DirectRuns DEF Init
  <2> QED BY <2>2, <2>3 DEF CloserInv, ModifiesOver, NewTicket, ClaimedOnce, OneCloser, At
<1>2. (BInv /\ CloserInv) /\ [Next]_vars => (BInv /\ CloserInv)'
  BY BaseStep, CloserInvStep
<1>3. CloserInv => OneCloser
  BY DEF CloserInv
<1> QED BY <1>1, <1>2, <1>3, PTL DEF Spec
=============================================================================
