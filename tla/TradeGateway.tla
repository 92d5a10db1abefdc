---------------------------- MODULE TradeGateway ----------------------------
(***************************************************************************)
(* The trade gateway: how one click on Buy / Sell becomes at most one      *)
(* order at the broker.  Web server instances (runOrder and                *)
(* sendThroughGateway in webTradeService.ts, gatewayQueue.ts,              *)
(* directLaneClient.ts) and AWS workers (gatewayWorker.ts,                 *)
(* directLaneServer.ts) share the table trade_commands (gatewayStore.ts,   *)
(* migrations 060 and 062).  Messages are lost and late, database calls    *)
(* fail or commit without their answer arriving, workers crash.            *)
(*                                                                         *)
(* A request is one (user, clientRequestId); a call is one HTTP request    *)
(* of the panel for it.  The order in which the commands of one account    *)
(* start (KeyedChains) does not matter here: a queued command may start    *)
(* at any time.                                                            *)
(***************************************************************************)
EXTENDS Naturals, FiniteSets

CONSTANTS
  Requests,     \* the (user, clientRequestId) pairs
  Calls,        \* HTTP calls of the panel
  ReqOf,        \* ReqOf[c]: the request a call carries
  Instances,    \* web server instances, each with its own WebTradeGuard
  InstOf,       \* InstOf[c]: the instance that serves a call
  Workers,      \* AWS workers with a GatewayWorker
  DirectLane,   \* the direct lane is configured and the workers listen on it
  LocalBridge,  \* the web server has a bridge of its own (route "direct")
  MaxCrashes    \* bound: how many worker crashes happen

ASSUME GatewayAssumption ==
  /\ ReqOf \in [Calls -> Requests]
  /\ InstOf \in [Calls -> Instances]
  /\ Workers # {}
  /\ DirectLane \in BOOLEAN
  /\ LocalBridge \in BOOLEAN
  /\ MaxCrashes \in Nat

\* What a person, or a repeated request, can be answered about an order.
Answers == {"ok", "refused", "not_sent", "uncertain"}

\* One HTTP request on the direct lane: a call's first try and its repetition.
Handlers == Calls \X {1, 2}

VARIABLES
  status,     \* trade_commands.status of each request
  errorCode,  \* trade_commands.error_code, folded into what it tells
  age,        \* 0: fresh, 1: past expires_at, 2: RUNNING for more than LOST_AFTER_MS
  pc,         \* where each call is inside runOrder
  told,       \* what each call answered
  wire,       \* direct lane requests on their way to a worker
  waiting,    \* of each worker: the direct requests it has not answered yet
  reply,      \* what a worker answered to a direct request, on its way back
  entry,      \* GatewayWorker.directSeen of each worker: how far it is, or the answer
  tasks,      \* commands a worker holds: queued, checked, at the broker, being stored
  inflight,   \* orders on their way to the broker
  placed,     \* orders the broker executed
  verdict,    \* the broker's answer
  crashes

db     == <<status, errorCode, age>>
web    == <<pc, told>>
lane   == <<wire, waiting, reply, entry>>
broker == <<inflight, placed, verdict>>
vars   == <<db, web, lane, tasks, broker, crashes>>

Task == [req: Requests, worker: Workers, lane: {"db", "direct"},
         stage: {"queued", "checked", "broker", "storing"}, res: Answers \cup {"none"}]

Finished(r) == status[r] \in {"DONE", "FAILED", "EXPIRED"}

\* commandAnswer: WORKER_LOST and every unclear failure ask the person to check.
AnswerOf(r) ==
  IF status[r] = "DONE" THEN "ok"
  ELSE IF errorCode[r] = "lost" THEN "uncertain" ELSE errorCode[r]

Init ==
  /\ status = [r \in Requests |-> "NONE"]
  /\ errorCode = [r \in Requests |-> "none"]
  /\ age = [r \in Requests |-> 0]
  /\ pc = [c \in Calls |-> "idle"]
  /\ told = [c \in Calls |-> "none"]
  /\ wire = {}
  /\ waiting = [w \in Workers |-> {}]
  /\ reply = [h \in Handlers |-> "none"]
  /\ entry = [w \in Workers |-> [r \in Requests |-> "none"]]
  /\ tasks = {}
  /\ inflight = [r \in Requests |-> 0]
  /\ placed = [r \in Requests |-> 0]
  /\ verdict = [r \in Requests |-> "none"]
  /\ crashes = 0

-----------------------------------------------------------------------------
(* The web server: one call of runOrder.                                   *)

Go(c, from, to) ==
  /\ pc[c] = from
  /\ pc' = [pc EXCEPT ![c] = to]
  /\ UNCHANGED told

\* The call ends.  A success is remembered by its instance (guard.remember).
Tell(c, a) ==
  /\ pc' = [pc EXCEPT ![c] = "done"]
  /\ told' = [told EXCEPT ![c] = a]

\* The calls that carry the same request through the same instance.
Same(c) == {d \in Calls \ {c} : InstOf[d] = InstOf[c] /\ ReqOf[d] = ReqOf[c]}

\* guard.recall and guard.begin.  A success may be forgotten again (rememberMs,
\* a recycled instance); a request on its way is always known.
Remembered(c) == \E d \in Same(c) : told[d] = "ok"
InProgress(c) == \E d \in Same(c) : pc[d] \notin {"idle", "done"}

\* The start of runOrder up to the choice of the route.  A gate (rate limit,
\* subscription, account, risk, no route) may stop the call; the gates only read.
Start(c) ==
  /\ pc[c] = "idle"
  /\ \/ /\ Remembered(c)
        /\ Tell(c, "ok")
        /\ UNCHANGED wire
     \/ /\ InProgress(c)
        /\ Tell(c, "in_progress")
        /\ UNCHANGED wire
     \/ /\ ~InProgress(c)
        /\ \/ /\ Tell(c, "stopped")
              /\ UNCHANGED wire
           \/ /\ DirectLane                        \* ... and not marked down
              /\ Go(c, "idle", "lane1")
              /\ wire' = wire \cup {<<c, 1>>}
           \/ /\ Go(c, "idle", "enqueue")
              /\ UNCHANGED wire
           \/ /\ LocalBridge                       \* no fresh heartbeat
              /\ Go(c, "idle", "local")
              /\ UNCHANGED wire
  /\ UNCHANGED <<db, waiting, reply, entry, tasks, broker, crashes>>

\* enqueueCommand: insert; on 23505 the row that exists.  A failed call may
\* have inserted the row all the same; the person is told nothing was sent.
Enqueue(c) ==
  LET r == ReqOf[c] IN
  /\ pc[c] = "enqueue"
  /\ \/ /\ Finished(r)
        /\ Tell(c, AnswerOf(r))
        /\ UNCHANGED status
     \/ /\ ~Finished(r)
        /\ Go(c, "enqueue", "wait")
        /\ status' = [status EXCEPT ![r] = IF @ = "NONE" THEN "PENDING" ELSE @]
     \/ /\ Tell(c, "unavailable")
        /\ \/ UNCHANGED status
           \/ /\ status[r] = "NONE"
              /\ status' = [status EXCEPT ![r] = "PENDING"]
  /\ UNCHANGED <<errorCode, age, lane, tasks, broker, crashes>>

\* Mutant of Look: the wait has no deadline.
LookForever(c, here, after) ==
  /\ pc[c] = here
  /\ Finished(ReqOf[c])
  /\ Tell(c, AnswerOf(ReqOf[c]))
  /\ UNCHANGED <<db, lane, tasks, broker, crashes>>

\* awaitCommand / waitForCommand, lookupCommandByRequest and the last look of
\* 1.5 s: the finished row is the answer, or time runs out.
Look(c, here, after) ==
  /\ pc[c] = here
  /\ \/ /\ Finished(ReqOf[c])
        /\ Tell(c, AnswerOf(ReqOf[c]))
     \/ IF after = "uncertain" THEN Tell(c, "uncertain") ELSE Go(c, here, after)
  /\ UNCHANGED <<db, lane, tasks, broker, crashes>>

Wait(c)   == Look(c, "wait", "abandon")
Late(c)   == Look(c, "late", "uncertain")
Lookup(c) == Look(c, "lookup", "uncertain")

\* Mutant of Abandon: a command a worker has taken is closed as well.
AbandonTaken(c) ==
  LET r == ReqOf[c] IN
  /\ pc[c] = "abandon"
  /\ status[r] \in {"PENDING", "RUNNING"}
  /\ status' = [status EXCEPT ![r] = "EXPIRED"]
  /\ errorCode' = [errorCode EXCEPT ![r] = "not_sent"]
  /\ Tell(c, "not_sent")
  /\ UNCHANGED <<age, lane, tasks, broker, crashes>>

\* abandonCommand, its update: only a PENDING command is closed.  The update
\* may fail, or commit without its answer arriving.
Abandon(c) ==
  LET r == ReqOf[c]
      close == /\ status[r] = "PENDING"
               /\ status' = [status EXCEPT ![r] = "EXPIRED"]
               /\ errorCode' = [errorCode EXCEPT ![r] = "not_sent"]
  IN
  /\ pc[c] = "abandon"
  /\ \/ close /\ Tell(c, "not_sent")
     \/ close /\ Go(c, "abandon", "reread")
     \/ Go(c, "abandon", "reread") /\ UNCHANGED <<status, errorCode>>
  /\ UNCHANGED <<age, lane, tasks, broker, crashes>>

\* abandonCommand, its second read, when the update closed nothing.  A read
\* that fails counts as FINISHED, a call that throws as RUNNING.
Reread(c) ==
  /\ pc[c] = "reread"
  /\ \/ /\ status[ReqOf[c]] \in {"PENDING", "RUNNING"}
        /\ Tell(c, "uncertain")
     \/ /\ status[ReqOf[c]] \notin {"PENDING", "RUNNING"}
        /\ Go(c, "reread", "late")
     \/ Go(c, "reread", "late")
     \/ Tell(c, "uncertain")
  /\ UNCHANGED <<db, lane, tasks, broker, crashes>>

\* The program counter of the first try of the direct lane and of its repetition.
Lane(n) == IF n = 1 THEN "lane1" ELSE "lane2"

\* The caller's end of the connection is closed.
HangUp(h) ==
  /\ waiting' = [w \in Workers |-> waiting[w] \ {h}]
  /\ reply' = [reply EXCEPT ![h] = "none"]
  /\ UNCHANGED entry

\* sendDirect, "answered": the signed reply of the worker.
LaneAnswered(c, n) ==
  /\ pc[c] = Lane(n)
  /\ reply[<<c, n>>] # "none"
  /\ Tell(c, reply[<<c, n>>])
  /\ HangUp(<<c, n>>)
  /\ UNCHANGED <<db, wire, tasks, broker, crashes>>

\* sendDirect, "not_sent": no connection, a 3xx / 4xx, DIRECT_BUSY.  The first
\* try falls back to the database, the repetition only looks.  The request is
\* gone - or a proxy refused it (408) after passing it on, which the code
\* trusts not to happen and which the reservation has to survive.
LaneNotSent(c, n) ==
  /\ IF n = 1 THEN Go(c, "lane1", "enqueue") ELSE Go(c, "lane2", "lookup")
  /\ HangUp(<<c, n>>)
  /\ wire' = wire \ {<<c, n>>} \/ UNCHANGED wire
  /\ UNCHANGED <<db, tasks, broker, crashes>>

\* sendDirect, "uncertain": once more while time is left, then only looking.
\* The request may still reach a worker later.
LaneUncertain(c, n) ==
  /\ \/ /\ n = 1
        /\ Go(c, "lane1", "lane2")
        /\ wire' = wire \cup {<<c, 2>>}
     \/ /\ Go(c, Lane(n), "lookup")
        /\ UNCHANGED wire
  /\ HangUp(<<c, n>>)
  /\ UNCHANGED <<db, tasks, broker, crashes>>

\* executeTradeCommand inside the web server: no row, no reservation.
LocalRun(c) ==
  LET r == ReqOf[c] IN
  /\ pc[c] = "local"
  /\ \/ /\ placed' = [placed EXCEPT ![r] = @ + 1]
        /\ Tell(c, "ok") \/ Tell(c, "uncertain")
     \/ /\ UNCHANGED placed
        /\ Tell(c, "refused") \/ Tell(c, "uncertain")
  /\ UNCHANGED <<db, lane, tasks, inflight, verdict, crashes>>

-----------------------------------------------------------------------------
(* The AWS worker: commands from the table and from the direct lane.       *)

NewTask(r, w, l) ==
  [req |-> r, worker |-> w, lane |-> l, stage |-> "queued", res |-> "none"]

\* claim_trade_commands(_wait): one statement, only fresh PENDING rows.  The
\* rows of a claim whose answer is lost stay RUNNING with nobody at work.
Claim(w, r) ==
  /\ status[r] = "PENDING"
  /\ age[r] = 0
  /\ status' = [status EXCEPT ![r] = "RUNNING"]
  /\ \/ tasks' = tasks \cup {NewTask(r, w, "db")}
     \/ UNCHANGED tasks
  /\ UNCHANGED <<errorCode, age, web, lane, broker, crashes>>

\* The promise of an entry of directSeen resolves: everybody waiting on it is
\* answered, the entry keeps the answer.
Settle(w, r, a) ==
  LET asked == {h \in waiting[w] : ReqOf[h[1]] = r} IN
  /\ entry' = [entry EXCEPT ![w][r] = a]
  /\ waiting' = [waiting EXCEPT ![w] = @ \ asked]
  /\ reply' = [h \in Handlers |-> IF h \in asked THEN a ELSE reply[h]]
  /\ UNCHANGED wire

\* runDirect: answered from memory, joined to the one being answered, or a new
\* entry.  An answered entry may be forgotten (ten minutes, or 5000 entries).
\* A request whose caller has hung up is run all the same.
RunDirect(w, h) ==
  LET r == ReqOf[h[1]]
      listening == pc[h[1]] = Lane(h[2])
      join == waiting' = IF listening THEN [waiting EXCEPT ![w] = @ \cup {h}] ELSE waiting
  IN
  /\ h \in wire
  /\ wire' = wire \ {h}
  /\ \/ /\ entry[w][r] \in Answers
        /\ reply' = IF listening THEN [reply EXCEPT ![h] = entry[w][r]] ELSE reply
        /\ UNCHANGED <<waiting, entry>>
     \/ /\ entry[w][r] \in {"reserving", "reading", "running"}
        /\ join
        /\ UNCHANGED <<reply, entry>>
     \/ /\ entry[w][r] \in Answers \cup {"none"}
        /\ join
        /\ entry' = [entry EXCEPT ![w][r] = "reserving"]
        /\ UNCHANGED reply
  /\ UNCHANGED <<db, web, tasks, broker, crashes>>

\* answerDirect goes on with the entry.
Step(w, r, stage) ==
  /\ entry' = [entry EXCEPT ![w][r] = stage]
  /\ UNCHANGED <<wire, waiting, reply>>

\* Mutant of Reserve: the order runs although its row could not be written.
ReserveAnyway(w, r) ==
  /\ entry[w][r] = "reserving"
  /\ status[r] \in {"NONE", "PENDING"}
  /\ UNCHANGED status
  /\ Step(w, r, "running")
  /\ tasks' = tasks \cup {NewTask(r, w, "direct")}
  /\ UNCHANGED <<errorCode, age, web, broker, crashes>>

\* reserveDirect: insert a RUNNING row before the broker is touched.  A
\* conflict leads to a look at the row; any other failure - committed or not -
\* is answered "uncertain" and the order is not sent.
Reserve(w, r) ==
  LET insert == /\ status[r] = "NONE"
                /\ status' = [status EXCEPT ![r] = "RUNNING"]
  IN
  /\ entry[w][r] = "reserving"
  /\ \/ insert /\ Step(w, r, "running") /\ tasks' = tasks \cup {NewTask(r, w, "direct")}
     \/ status[r] # "NONE" /\ Step(w, r, "reading") /\ UNCHANGED <<status, tasks>>
     \/ insert /\ Settle(w, r, "uncertain") /\ UNCHANGED tasks
     \/ Settle(w, r, "uncertain") /\ UNCHANGED <<status, tasks>>
  /\ UNCHANGED <<errorCode, age, web, broker, crashes>>

\* Mutant of ReadEarlier: an open row is taken for an order that was not sent.
ReadEarlierHopeful(w, r) ==
  /\ entry[w][r] = "reading"
  /\ Settle(w, r, IF Finished(r) THEN AnswerOf(r) ELSE "not_sent")
  /\ UNCHANGED <<db, web, tasks, broker, crashes>>

\* earlierDirectAnswer: a finished row is the answer, anything else - and a
\* failed read - is "uncertain".
ReadEarlier(w, r) ==
  /\ entry[w][r] = "reading"
  /\ \/ Finished(r) /\ Settle(w, r, AnswerOf(r))
     \/ Settle(w, r, "uncertain")
  /\ UNCHANGED <<db, web, tasks, broker, crashes>>

Moved(t, stage, res) ==
  [req |-> t.req, worker |-> t.worker, lane |-> t.lane, stage |-> stage, res |-> res]

Move(t, stage, res) == tasks' = (tasks \ {t}) \cup {Moved(t, stage, res)}

\* What answerDirect does when the command has run: reply now, store later.
Answered(t, res) ==
  /\ Move(t, "storing", res)
  /\ IF t.lane = "direct" THEN Settle(t.worker, t.req, res) ELSE UNCHANGED lane

\* runCommand, up to its first await: an order past its expiry is not sent, an
\* unreadable one is refused.
Check(t) ==
  /\ t.stage = "queued"
  /\ \/ /\ age[t.req] = 0
        /\ Move(t, "checked", "none")
        /\ UNCHANGED lane
     \/ age[t.req] > 0 /\ Answered(t, "not_sent")
     \/ Answered(t, "refused")
  /\ UNCHANGED <<db, web, broker, crashes>>

\* After the owner check - a database read, unless it is cached - the order
\* leaves for the broker.  The expiry and the row are not looked at again.
Send(t) ==
  /\ t.stage = "checked"
  /\ \/ /\ Move(t, "broker", "none")
        /\ inflight' = [inflight EXCEPT ![t.req] = @ + 1]
        /\ UNCHANGED lane
     \/ /\ Answered(t, "refused")
        /\ UNCHANGED inflight
  /\ UNCHANGED <<db, web, placed, verdict, crashes>>

\* The broker's answer arrives, or the adapter gives up waiting for it.  One
\* call of the adapter is one order and an answer is true: BrokerCall.
Ran(t) ==
  /\ t.stage = "broker"
  /\ \/ verdict[t.req] # "none" /\ Answered(t, verdict[t.req])
     \/ Answered(t, "uncertain")
  /\ UNCHANGED <<db, web, broker, crashes>>

\* complete / fail / recordDirect, with their retries: a RUNNING row is closed,
\* any other row is left alone.  All retries may fail.
Store(t) ==
  /\ t.stage = "storing"
  /\ tasks' = tasks \ {t}
  /\ \/ /\ status[t.req] = "RUNNING"
        /\ status' = [status EXCEPT ![t.req] = IF t.res = "ok" THEN "DONE" ELSE "FAILED"]
        /\ errorCode' = [errorCode EXCEPT ![t.req] = IF t.res = "ok" THEN "none" ELSE t.res]
     \/ UNCHANGED <<status, errorCode>>
  /\ UNCHANGED <<age, web, lane, broker, crashes>>

\* A worker dies and is started again: its memory and connections are gone.
Crash(w) ==
  /\ crashes < MaxCrashes
  /\ crashes' = crashes + 1
  /\ tasks' = {t \in tasks : t.worker # w}
  /\ entry' = [entry EXCEPT ![w] = [r \in Requests |-> "none"]]
  /\ waiting' = [waiting EXCEPT ![w] = {}]
  /\ UNCHANGED <<db, web, wire, reply, broker>>

-----------------------------------------------------------------------------
(* The clock, the sweep of any worker, and the broker.                     *)

\* expires_at passes, then (for a claimed command) LOST_AFTER_MS.
Tick(r) ==
  /\ \/ age[r] = 0 /\ status[r] # "NONE"
     \/ age[r] = 1 /\ status[r] = "RUNNING"
  /\ age' = [age EXCEPT ![r] = @ + 1]
  /\ UNCHANGED <<status, errorCode, web, lane, tasks, broker, crashes>>

\* Mutant of SweepExpired: whatever is past its expiry is closed as not sent.
SweepAllExpired(r) ==
  /\ status[r] \in {"PENDING", "RUNNING"}
  /\ age[r] > 0
  /\ status' = [status EXCEPT ![r] = "EXPIRED"]
  /\ errorCode' = [errorCode EXCEPT ![r] = "not_sent"]
  /\ UNCHANGED <<age, web, lane, tasks, broker, crashes>>

\* A command nobody picked up before it expired never runs.
SweepExpired(r) ==
  /\ status[r] = "PENDING"
  /\ age[r] > 0
  /\ status' = [status EXCEPT ![r] = "EXPIRED"]
  /\ errorCode' = [errorCode EXCEPT ![r] = "not_sent"]
  /\ UNCHANGED <<age, web, lane, tasks, broker, crashes>>

\* Mutant of SweepLost: the command of a lost worker is queued once more.
SweepRequeue(r) ==
  /\ status[r] = "RUNNING"
  /\ age[r] = 2
  /\ status' = [status EXCEPT ![r] = "PENDING"]
  /\ age' = [age EXCEPT ![r] = 0]
  /\ UNCHANGED <<errorCode, web, lane, tasks, broker, crashes>>

\* A command claimed LOST_AFTER_MS ago and not finished counts as lost, whether
\* its worker died or is only slow.
SweepLost(r) ==
  /\ status[r] = "RUNNING"
  /\ age[r] = 2
  /\ status' = [status EXCEPT ![r] = "FAILED"]
  /\ errorCode' = [errorCode EXCEPT ![r] = "lost"]
  /\ UNCHANGED <<age, web, lane, tasks, broker, crashes>>

\* Finished rows are deleted after three days.  The panel keeps a request id
\* for 90 s, so no call for it is left by then; GONE is a row nobody asks for.
SweepPurge(r) ==
  /\ Finished(r)
  /\ \A c \in Calls : ReqOf[c] = r => pc[c] = "done" /\ <<c, 1>> \notin wire /\ <<c, 2>> \notin wire
  /\ \A w \in Workers : entry[w][r] \in Answers \cup {"none"}
  /\ \A t \in tasks : t.req # r
  /\ status' = [status EXCEPT ![r] = "GONE"]
  /\ UNCHANGED <<errorCode, age, web, lane, tasks, broker, crashes>>

\* The broker executes or refuses an order that is on its way to it.
BrokerActs(r) ==
  /\ inflight[r] > 0
  /\ inflight' = [inflight EXCEPT ![r] = @ - 1]
  /\ \/ /\ placed' = [placed EXCEPT ![r] = @ + 1]
        /\ verdict' = [verdict EXCEPT ![r] = "ok"]
     \/ /\ UNCHANGED placed
        /\ verdict' = [verdict EXCEPT ![r] = "refused"]
  /\ UNCHANGED <<db, web, lane, tasks, crashes>>

-----------------------------------------------------------------------------
Proceed(c) ==
  \/ Enqueue(c) \/ Wait(c) \/ Abandon(c) \/ Reread(c) \/ Late(c) \/ Lookup(c)
  \/ LocalRun(c)
  \/ \E n \in {1, 2} : LaneAnswered(c, n) \/ LaneNotSent(c, n) \/ LaneUncertain(c, n)

\* Mutant of Sweep: commands of a lost worker are left alone.
SweepHalf(r) == SweepExpired(r)

\* sweepOnce, as far as open commands are concerned.
Sweep(r) == SweepExpired(r) \/ SweepLost(r)

Next ==
  \/ \E c \in Calls : Start(c) \/ Proceed(c)
  \/ \E w \in Workers, r \in Requests : Claim(w, r) \/ Reserve(w, r) \/ ReadEarlier(w, r)
  \/ \E w \in Workers, h \in Handlers : RunDirect(w, h)
  \/ \E w \in Workers : Crash(w)
  \/ \E t \in tasks : Check(t) \/ Send(t) \/ Ran(t) \/ Store(t)
  \/ \E r \in Requests : Tick(r) \/ Sweep(r) \/ SweepPurge(r) \/ BrokerActs(r)

Spec == Init /\ [][Next]_vars

\* Every wait of a call has a deadline; the clock runs; a housekeeping loop
\* sweeps.  Nothing is assumed of the network, the broker or a command's run.
Fairness ==
  /\ \A c \in Calls : WF_vars(Proceed(c))
  /\ \A r \in Requests : WF_vars(Tick(r)) /\ WF_vars(Sweep(r))

FairSpec == Spec /\ Fairness

-----------------------------------------------------------------------------
TypeDb ==
  /\ status \in [Requests -> {"NONE", "PENDING", "RUNNING", "DONE", "FAILED", "EXPIRED", "GONE"}]
  /\ errorCode \in [Requests -> {"none", "refused", "not_sent", "uncertain", "lost"}]
  /\ age \in [Requests -> 0..2]

TypeWeb ==
  /\ pc \in [Calls -> {"idle", "enqueue", "wait", "abandon", "reread", "late",
                       "lane1", "lane2", "lookup", "local", "done"}]
  /\ told \in [Calls -> Answers \cup {"none", "in_progress", "stopped", "unavailable"}]

TypeLane ==
  /\ wire \subseteq Handlers
  /\ waiting \in [Workers -> SUBSET Handlers]
  /\ reply \in [Handlers -> Answers \cup {"none"}]
  /\ entry \in [Workers -> [Requests -> Answers \cup {"none", "reserving", "reading", "running"}]]

TypeBroker ==
  /\ inflight \in [Requests -> Nat]
  /\ placed \in [Requests -> Nat]
  /\ verdict \in [Requests -> {"none", "ok", "refused"}]

\* Every variable has its type.
TypeOK ==
  TypeDb /\ TypeWeb /\ TypeLane /\ tasks \subseteq Task /\ TypeBroker /\ crashes \in 0..MaxCrashes

\* Whatever is repeated, lost, late or restarted, one request id is one order
\* at the broker: executed and on its way together, at most one.  (The promise
\* of enqueueCommand, reserveDirect and the sweep, gatewayWorker.ts:25.)
AtMostOnce == \A r \in Requests : placed[r] + inflight[r] <= 1

\* Nobody is told something false: "ok" is an executed order; after "refused"
\* or "not sent" there is none, and none will follow from any late message,
\* queued command or other call.
TruthfulAnswers ==
  \A c \in Calls :
    /\ told[c] = "ok" => placed[ReqOf[c]] = 1
    /\ told[c] \in {"refused", "not_sent"} => placed[ReqOf[c]] = 0 /\ inflight[ReqOf[c]] = 0

\* The stored history agrees with the broker: a DONE row is an executed order,
\* an EXPIRED one, and a FAILED one with a clear reason, is not.
TruthfulRows ==
  \A r \in Requests :
    /\ status[r] = "DONE" => placed[r] = 1
    /\ Finished(r) /\ errorCode[r] \in {"refused", "not_sent"} => placed[r] = 0 /\ inflight[r] = 0

\* "The order could not be queued" is said with the remark "nothing was sent:
\* this is not an uncertain order" (webTradeService.ts:1009): if no other call
\* carries the request, nothing may exist at the broker.
NothingWasSent ==
  \A c \in Calls :
    (told[c] = "unavailable" /\ \A d \in Calls \ {c} : ReqOf[d] # ReqOf[c])
      => placed[ReqOf[c]] = 0 /\ inflight[ReqOf[c]] = 0

\* The panel: "an order whose answer never came: sent again, it keeps its id, so
\* it can never be placed twice" (WsaTradePanel.tsx:404).
NeverPlacedTwice == \A r \in Requests : placed[r] <= 1

\* An order leaves for the broker only under a row of its own - the reservation
\* is durable before the broker is touched - and never under one that was closed
\* as not sent: the row is RUNNING, or the sweep has given it up as uncertain
\* while the worker was still checking it.
SentOnlyReserved ==
  [][\A r \in Requests : inflight'[r] > inflight[r] =>
       (status[r] = "RUNNING" \/ (status[r] = "FAILED" /\ errorCode[r] = "lost"))]_vars

\* The first outcome stored for a command stands: a late answer of a worker, a
\* caller that gives up or the sweep never changes a finished row.
FinishedIsFinal ==
  [][\A r \in Requests : Finished(r) =>
       (status'[r] = "GONE" \/ (status'[r] = status[r] /\ errorCode'[r] = errorCode[r]))]_vars

\* Every call that started is answered, whatever is lost on the way.
EveryCallAnswered == \A c \in Calls : pc[c] # "idle" ~> pc[c] = "done"

\* No command stays open for ever: one nobody takes expires, one whose worker
\* died or whose answer could not be stored is closed by the sweep.
EveryRowCloses == \A r \in Requests : status[r] \in {"PENDING", "RUNNING"} ~> Finished(r)

-----------------------------------------------------------------------------
(* Refinement of TradeOrder.                                               *)

\* Nothing will ever send r: it is reserved or closed and nobody holds it.
Dead(r) ==
  /\ status[r] \notin {"NONE", "PENDING"}
  /\ \A t \in tasks : t.req = r => t.stage \notin {"queued", "checked"}

Fate(r) ==
  IF placed[r] > 0 THEN "placed"
  ELSE IF inflight[r] > 0 THEN "sent"
  ELSE IF verdict[r] = "refused" THEN "refused"
  ELSE IF Dead(r) THEN "dead" ELSE "open"

Promise == INSTANCE TradeOrder WITH order <- [r \in Requests |-> Fate(r)]

\* The gateway is an implementation of TradeOrder.
ImplementsTradeOrder == Promise!OSpec
=============================================================================
