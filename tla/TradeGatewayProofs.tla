------------------------- MODULE TradeGatewayProofs -------------------------
(***************************************************************************)
(* Theorems about TradeGateway, for any number of requests, calls, web     *)
(* instances, workers and crashes.                                         *)
(***************************************************************************)
EXTENDS TradeGateway, TLAPS

-----------------------------------------------------------------------------
(* Types.                                                                  *)

\* A new command of a worker has the type of a command.
LEMMA NewTaskType ==
  ASSUME NEW r \in Requests, NEW w \in Workers, NEW l \in {"db", "direct"}
  PROVE  NewTask(r, w, l) \in Task
  BY DEF NewTask, Task

\* A command that moves on keeps its type.
LEMMA MoveType ==
  ASSUME tasks \subseteq Task, NEW t \in tasks,
         NEW stage \in {"queued", "checked", "broker", "storing"},
         NEW res \in Answers \cup {"none"},
         Move(t, stage, res)
  PROVE  tasks' \subseteq Task
  BY DEF Move, Moved, Task

\* A call that goes on or is answered keeps the types of the web server.
LEMMA GoType ==
  ASSUME TypeWeb, NEW c \in Calls, NEW from,
         NEW to \in {"enqueue", "wait", "abandon", "reread", "late", "lane1", "lane2", "lookup", "local"},
         Go(c, from, to)
  PROVE  TypeWeb'
  BY DEF TypeWeb, Go

\* An answered call keeps them too.
LEMMA TellType ==
  ASSUME TypeWeb, NEW c \in Calls,
         NEW a \in Answers \cup {"none", "in_progress", "stopped", "unavailable"}, Tell(c, a)
  PROVE  TypeWeb'
  BY DEF TypeWeb, Tell

\* An answered entry of directSeen keeps the direct lane well typed.
LEMMA SettleType ==
  ASSUME TypeLane, NEW w \in Workers, NEW r \in Requests, NEW a \in Answers \cup {"none"},
         Settle(w, r, a)
  PROVE  TypeLane'
  BY DEF TypeLane, Settle

\* So does an entry that is one step further.
LEMMA EntryType ==
  ASSUME TypeLane, NEW w \in Workers, NEW r \in Requests,
         NEW stage \in {"reserving", "reading", "running"},
         entry' = entry \/ entry' = [entry EXCEPT ![w][r] = stage]
  PROVE  entry' \in [Workers -> [Requests -> Answers \cup {"none", "reserving", "reading", "running"}]]
  BY DEF TypeLane

\* So does a caller that hangs up, whatever it leaves on the wire.
LEMMA HangUpType ==
  ASSUME TypeLane, NEW h \in Handlers, HangUp(h), wire' \subseteq Handlers
  PROVE  TypeLane'
  BY DEF TypeLane, HangUp

\* What a row answers.
LEMMA AnswerOfType ==
  ASSUME TypeDb, NEW r \in Requests
  PROVE  AnswerOf(r) \in Answers \cup {"none"}
  BY DEF TypeDb, AnswerOf, Answers

\* TypeOK is kept by every step: the bookkeeping of no action leaves its types.
LEMMA TypeStep ==
  ASSUME GatewayAssumption, TypeOK, [Next]_vars
  PROVE  TypeOK'
<1> USE DEF GatewayAssumption, TypeOK
<1>1. ASSUME NEW c \in Calls, Start(c)
      PROVE  TypeOK'
  <2>1. TypeWeb'
    BY <1>1, GoType, TellType DEF Start, Answers
  <2>2. TypeLane'
    BY <1>1 DEF Start, TypeLane, Handlers
  <2>3. TypeDb' /\ (tasks \subseteq Task)' /\ TypeBroker' /\ (crashes \in 0..MaxCrashes)'
    BY <1>1 DEF Start, TypeDb, db, TypeBroker, broker
  <2> QED BY <2>1, <2>2, <2>3
<1>2. ASSUME NEW c \in Calls, Enqueue(c)
      PROVE  TypeOK'
  <2>1. TypeDb'
    BY <1>2 DEF Enqueue, TypeDb
  <2>2. TypeWeb'
    BY <1>2, GoType, TellType, AnswerOfType DEF Enqueue, Answers
  <2>3. TypeLane' /\ (tasks \subseteq Task)' /\ TypeBroker' /\ (crashes \in 0..MaxCrashes)'
    BY <1>2 DEF Enqueue, TypeLane, lane, TypeBroker, broker
  <2> QED BY <2>1, <2>2, <2>3
<1>3. ASSUME NEW c \in Calls, NEW here, NEW after \in {"abandon", "uncertain"}, Look(c, here, after)
      PROVE  TypeOK'
  <2>1. TypeWeb'
    BY <1>3, GoType, TellType, AnswerOfType DEF Look, Answers
  <2>2. TypeDb' /\ TypeLane' /\ (tasks \subseteq Task)' /\ TypeBroker' /\ (crashes \in 0..MaxCrashes)'
    BY <1>3 DEF Look, TypeDb, db, TypeLane, lane, TypeBroker, broker
  <2> QED BY <2>1, <2>2
<1>4. ASSUME NEW c \in Calls, Abandon(c)
      PROVE  TypeOK'
  <2>1. TypeDb'
    BY <1>4 DEF Abandon, TypeDb
  <2>2. TypeWeb'
    BY <1>4, GoType, TellType DEF Abandon, Answers
  <2>3. TypeLane' /\ (tasks \subseteq Task)' /\ TypeBroker' /\ (crashes \in 0..MaxCrashes)'
    BY <1>4 DEF Abandon, TypeLane, lane, TypeBroker, broker
  <2> QED BY <2>1, <2>2, <2>3
<1>5. ASSUME NEW c \in Calls, Reread(c)
      PROVE  TypeOK'
  <2>1. TypeWeb'
    BY <1>5, GoType, TellType DEF Reread, Answers
  <2>2. TypeDb' /\ TypeLane' /\ (tasks \subseteq Task)' /\ TypeBroker' /\ (crashes \in 0..MaxCrashes)'
    BY <1>5 DEF Reread, TypeDb, db, TypeLane, lane, TypeBroker, broker
  <2> QED BY <2>1, <2>2
<1>6. ASSUME NEW c \in Calls, NEW n \in {1, 2}, LaneAnswered(c, n)
      PROVE  TypeOK'
  <2>1. TypeWeb'
    BY <1>6, TellType DEF LaneAnswered, TypeLane, Handlers
  <2>2. TypeLane'
    BY <1>6, HangUpType DEF LaneAnswered, TypeLane, Handlers
  <2>3. TypeDb' /\ (tasks \subseteq Task)' /\ TypeBroker' /\ (crashes \in 0..MaxCrashes)'
    BY <1>6 DEF LaneAnswered, TypeDb, db, TypeBroker, broker
  <2> QED BY <2>1, <2>2, <2>3
<1>7. ASSUME NEW c \in Calls, NEW n \in {1, 2}, LaneNotSent(c, n)
      PROVE  TypeOK'
  <2>1. TypeWeb'
    BY <1>7, GoType DEF LaneNotSent
  <2>2. TypeLane'
    BY <1>7, HangUpType DEF LaneNotSent, TypeLane, Handlers
  <2>3. TypeDb' /\ (tasks \subseteq Task)' /\ TypeBroker' /\ (crashes \in 0..MaxCrashes)'
    BY <1>7 DEF LaneNotSent, TypeDb, db, TypeBroker, broker
  <2> QED BY <2>1, <2>2, <2>3
<1>8. ASSUME NEW c \in Calls, NEW n \in {1, 2}, LaneUncertain(c, n)
      PROVE  TypeOK'
  <2>1. TypeWeb'
    BY <1>8, GoType DEF LaneUncertain
  <2>2. TypeLane'
    BY <1>8, HangUpType DEF LaneUncertain, TypeLane, Handlers
  <2>3. TypeDb' /\ (tasks \subseteq Task)' /\ TypeBroker' /\ (crashes \in 0..MaxCrashes)'
    BY <1>8 DEF LaneUncertain, TypeDb, db, TypeBroker, broker
  <2> QED BY <2>1, <2>2, <2>3
<1>9. ASSUME NEW c \in Calls, LocalRun(c)
      PROVE  TypeOK'
  <2>1. TypeWeb'
    BY <1>9, TellType DEF LocalRun, Answers
  <2>2. TypeBroker'
    BY <1>9 DEF LocalRun, TypeBroker
  <2>3. TypeDb' /\ TypeLane' /\ (tasks \subseteq Task)' /\ (crashes \in 0..MaxCrashes)'
    BY <1>9 DEF LocalRun, TypeDb, db, TypeLane, lane
  <2> QED BY <2>1, <2>2, <2>3
<1>10. ASSUME NEW w \in Workers, NEW r \in Requests, Claim(w, r)
      PROVE  TypeOK'
  <2>1. TypeDb'
    BY <1>10 DEF Claim, TypeDb
  <2>2. (tasks \subseteq Task)'
    BY <1>10, NewTaskType DEF Claim
  <2>3. TypeWeb' /\ TypeLane' /\ TypeBroker' /\ (crashes \in 0..MaxCrashes)'
    BY <1>10 DEF Claim, TypeWeb, web, TypeLane, lane, TypeBroker, broker
  <2> QED BY <2>1, <2>2, <2>3
<1>11. ASSUME NEW w \in Workers, NEW h \in Handlers, RunDirect(w, h)
      PROVE  TypeOK'
  <2> DEFINE r == ReqOf[h[1]]
  <2>3. r \in Requests
    BY DEF Handlers
  <2>4. /\ wire' = wire \ {h}
        /\ waiting' = waiting \/ waiting' = [waiting EXCEPT ![w] = @ \cup {h}]
        /\ reply' = reply \/ (entry[w][r] \in Answers /\ reply' = [reply EXCEPT ![h] = entry[w][r]])
        /\ entry' = entry \/ entry' = [entry EXCEPT ![w][r] = "reserving"]
    BY <1>11 DEF RunDirect
  <2>1. TypeLane'
    <3> HIDE DEF r
    <3>1. wire' \subseteq Handlers
      BY <2>4 DEF TypeLane
    <3>2. waiting' \in [Workers -> SUBSET Handlers]
      BY <2>4 DEF TypeLane
    <3>3. reply' \in [Handlers -> Answers \cup {"none"}]
      BY <2>4 DEF TypeLane
    <3>4. entry' \in [Workers -> [Requests -> Answers \cup {"none", "reserving", "reading", "running"}]]
      BY <2>3, <2>4, EntryType
    <3> QED BY <3>1, <3>2, <3>3, <3>4 DEF TypeLane
  <2>2. TypeDb' /\ TypeWeb' /\ (tasks \subseteq Task)' /\ TypeBroker' /\ (crashes \in 0..MaxCrashes)'
    BY <1>11 DEF RunDirect, TypeDb, db, TypeWeb, web, TypeBroker, broker
  <2> QED BY <2>1, <2>2
<1>12. ASSUME NEW w \in Workers, NEW r \in Requests, Reserve(w, r)
      PROVE  TypeOK'
  <2>1. TypeDb'
    BY <1>12 DEF Reserve, TypeDb
  <2>2. TypeLane'
    <3>1. Settle(w, r, "uncertain") \/ Step(w, r, "running") \/ Step(w, r, "reading")
      BY <1>12 DEF Reserve
    <3>2. CASE Settle(w, r, "uncertain")
      BY <3>2, SettleType DEF Answers
    <3>3. CASE Step(w, r, "running") \/ Step(w, r, "reading")
      BY SMTT(30), <3>3 DEF Step, TypeLane
    <3> QED BY <3>1, <3>2, <3>3
  <2>3. (tasks \subseteq Task)'
    BY <1>12, NewTaskType DEF Reserve
  <2>4. TypeWeb' /\ TypeBroker' /\ (crashes \in 0..MaxCrashes)'
    BY <1>12 DEF Reserve, TypeWeb, web, TypeBroker, broker
  <2> QED BY <2>1, <2>2, <2>3, <2>4
<1>13. ASSUME NEW w \in Workers, NEW r \in Requests, ReadEarlier(w, r)
      PROVE  TypeOK'
  <2>1. TypeLane'
    BY <1>13, SettleType, AnswerOfType DEF ReadEarlier, Answers
  <2>2. TypeDb' /\ TypeWeb' /\ (tasks \subseteq Task)' /\ TypeBroker' /\ (crashes \in 0..MaxCrashes)'
    BY <1>13 DEF ReadEarlier, TypeDb, db, TypeWeb, web, TypeBroker, broker
  <2> QED BY <2>1, <2>2
<1>14. ASSUME NEW t \in tasks, Check(t) \/ Send(t)
      PROVE  TypeOK'
  <2>1. TypeLane'
    BY <1>14, SettleType DEF Check, Send, Answered, Task, Answers, lane, TypeLane
  <2>2. (tasks \subseteq Task)'
    BY <1>14, MoveType DEF Check, Send, Answered, Answers
  <2>3. TypeBroker'
    BY <1>14 DEF Check, Send, Task, TypeBroker, broker
  <2>4. TypeDb' /\ TypeWeb' /\ (crashes \in 0..MaxCrashes)'
    BY <1>14 DEF Check, Send, TypeDb, db, TypeWeb, web
  <2> QED BY <2>1, <2>2, <2>3, <2>4
<1>15. ASSUME NEW t \in tasks, Ran(t)
      PROVE  TypeOK'
  <2>1. TypeLane'
    BY <1>15, SettleType DEF Ran, Answered, Task, Answers, TypeBroker, lane, TypeLane
  <2>2. (tasks \subseteq Task)'
    BY <1>15, MoveType DEF Ran, Answered, Task, Answers, TypeBroker
  <2>3. TypeDb' /\ TypeWeb' /\ TypeBroker' /\ (crashes \in 0..MaxCrashes)'
    BY <1>15 DEF Ran, TypeDb, db, TypeWeb, web, TypeBroker, broker
  <2> QED BY <2>1, <2>2, <2>3
<1>16. ASSUME NEW t \in tasks, Store(t)
      PROVE  TypeOK'
  <2>1. TypeDb'
    BY <1>16 DEF Store, Task, Answers, TypeDb
  <2>2. (tasks \subseteq Task)'
    BY <1>16 DEF Store
  <2>3. TypeWeb' /\ TypeLane' /\ TypeBroker' /\ (crashes \in 0..MaxCrashes)'
    BY <1>16 DEF Store, TypeWeb, web, TypeLane, lane, TypeBroker, broker
  <2> QED BY <2>1, <2>2, <2>3
<1>17. ASSUME NEW w \in Workers, Crash(w)
      PROVE  TypeOK'
  <2>1. TypeLane'
    BY <1>17 DEF Crash, TypeLane
  <2>2. (tasks \subseteq Task)'
    BY <1>17 DEF Crash
  <2>3. (crashes \in 0..MaxCrashes)'
    BY <1>17 DEF Crash
  <2>4. TypeDb' /\ TypeWeb' /\ TypeBroker'
    BY <1>17 DEF Crash, TypeDb, db, TypeWeb, web, TypeBroker, broker
  <2> QED BY <2>1, <2>2, <2>3, <2>4
<1>18. ASSUME NEW r \in Requests, Tick(r)
      PROVE  TypeOK'
  <2>1. TypeDb'
    BY <1>18 DEF Tick, TypeDb
  <2>2. TypeWeb' /\ TypeLane' /\ (tasks \subseteq Task)' /\ TypeBroker' /\ (crashes \in 0..MaxCrashes)'
    BY <1>18 DEF Tick, TypeWeb, web, TypeLane, lane, TypeBroker, broker
  <2> QED BY <2>1, <2>2
<1>19. ASSUME NEW r \in Requests, Sweep(r)
      PROVE  TypeOK'
  <2>1. TypeDb'
    BY <1>19 DEF Sweep, SweepExpired, SweepLost, TypeDb
  <2>2. TypeWeb' /\ TypeLane' /\ (tasks \subseteq Task)' /\ TypeBroker' /\ (crashes \in 0..MaxCrashes)'
    BY <1>19 DEF Sweep, SweepExpired, SweepLost, TypeWeb, web, TypeLane, lane, TypeBroker, broker
  <2> QED BY <2>1, <2>2
<1>20. ASSUME NEW r \in Requests, SweepPurge(r)
      PROVE  TypeOK'
  <2>1. TypeDb'
    BY <1>20 DEF SweepPurge, TypeDb
  <2>2. TypeWeb' /\ TypeLane' /\ (tasks \subseteq Task)' /\ TypeBroker' /\ (crashes \in 0..MaxCrashes)'
    BY <1>20 DEF SweepPurge, TypeWeb, web, TypeLane, lane, TypeBroker, broker
  <2> QED BY <2>1, <2>2
<1>21. ASSUME NEW r \in Requests, BrokerActs(r)
      PROVE  TypeOK'
  <2>1. TypeBroker'
    BY <1>21 DEF BrokerActs, TypeBroker
  <2>2. TypeDb' /\ TypeWeb' /\ TypeLane' /\ (tasks \subseteq Task)' /\ (crashes \in 0..MaxCrashes)'
    BY <1>21 DEF BrokerActs, TypeDb, db, TypeWeb, web, TypeLane, lane
  <2> QED BY <2>1, <2>2
<1>22. CASE UNCHANGED vars
  BY <1>22 DEF TypeDb, TypeWeb, TypeLane, TypeBroker, vars, db, web, lane, broker
<1> HIDE DEF TypeOK
<1> QED
  BY <1>1, <1>2, <1>3, <1>4, <1>5, <1>6, <1>7, <1>8, <1>9, <1>10, <1>11, <1>12, <1>13, <1>14, <1>15, <1>16, <1>17, <1>18, <1>19, <1>20, <1>21, <1>22
  DEF Next, Proceed, Wait, Late, Lookup

\* Every variable keeps its type in every behaviour.
THEOREM TypeCorrect == Spec => []TypeOK
<1>1. Init => TypeOK
  BY GatewayAssumption DEF Init, TypeOK, TypeDb, TypeWeb, TypeLane, TypeBroker, GatewayAssumption
<1>2. TypeOK /\ [Next]_vars => TypeOK'
  BY GatewayAssumption, TypeStep
<1> QED BY <1>1, <1>2, PTL DEF Spec

-----------------------------------------------------------------------------
(* The strengthening behind AtMostOnce, TruthfulRows and TruthfulAnswers.  *)

\* Nobody may have sent r: its row is not there, or nobody has taken it.
Unsent(r) == status[r] \in {"NONE", "PENDING"}

\* A worker is about to send r.
Queued(r) == \E t \in tasks : t.req = r /\ t.stage \in {"queued", "checked"}

\* The broker has not seen r.
Untouched(r) == placed[r] = 0 /\ inflight[r] = 0 /\ verdict[r] = "none"

\* No order of r exists and none ever will.
Never(r) == placed[r] = 0 /\ inflight[r] = 0 /\ ~Unsent(r) /\ ~Queued(r)

\* What an answer about r claims.
Holds(a, r) ==
  /\ a = "ok" => placed[r] = 1
  /\ a = "refused" => Never(r)
  /\ a = "not_sent" => Never(r) /\ verdict[r] = "none"

\* A command in a worker's hands is reserved, or was given up by the sweep.
Reserved == \A t \in tasks :
  \/ status[t.req] = "RUNNING"
  \/ status[t.req] = "FAILED" /\ errorCode[t.req] = "lost"

\* A request is in the hands of one worker, once.
Single == \A t, u \in tasks : t.req = u.req => t = u

\* The broker sees a request at most once, after it was taken from a queue.
OneOrder == \A r \in Requests :
  /\ placed[r] + inflight[r] <= 1
  /\ verdict[r] = "ok" => placed[r] = 1
  /\ verdict[r] = "refused" => placed[r] = 0 /\ inflight[r] = 0
  /\ Unsent(r) \/ Queued(r) => Untouched(r)

\* What a worker is about to store, and what is stored, is true.
TaskTrue == \A t \in tasks : Holds(t.res, t.req)

RowTrue == \A r \in Requests :
  /\ status[r] = "DONE" => placed[r] = 1
  /\ Finished(r) => Holds(errorCode[r], r)

\* What a worker, an answer on its way and a call say is true.
EntriesTrue == \A w \in Workers, r \in Requests : Holds(entry[w][r], r)
RepliesTrue == \A h \in Handlers : Holds(reply[h], ReqOf[h[1]])
ToldTrue    == \A c \in Calls : Holds(told[c], ReqOf[c])

\* A call that was answered has ended.
ToldOnce == \A c \in Calls : told[c] = "none" \/ pc[c] = "done"

\* No call executes an order without a row.
NoLocal == \A c \in Calls : pc[c] # "local"

Inv ==
  /\ TypeOK /\ NoLocal /\ ToldOnce
  /\ Reserved /\ Single /\ OneOrder
  /\ TaskTrue /\ RowTrue
  /\ EntriesTrue /\ RepliesTrue /\ ToldTrue

-----------------------------------------------------------------------------
(* Reservation: a worker holds a request only under a row of its own.      *)

\* The actions that leave the rows, the workers' commands and the broker alone.
Outside ==
  \/ \E c \in Calls : \/ Start(c) \/ Wait(c) \/ Reread(c) \/ Late(c) \/ Lookup(c)
                     \/ \E n \in {1, 2} : LaneAnswered(c, n) \/ LaneNotSent(c, n) \/ LaneUncertain(c, n)
  \/ \E w \in Workers, r \in Requests : ReadEarlier(w, r)
  \/ \E w \in Workers, h \in Handlers : RunDirect(w, h)
  \/ UNCHANGED vars

\* They do.
LEMMA OutsideLeaves ==
  ASSUME Outside
  PROVE  UNCHANGED <<db, tasks, broker>>
  BY DEF Outside, Start, Wait, Late, Lookup, Look, Reread, LaneAnswered, LaneNotSent,
         LaneUncertain, ReadEarlier, RunDirect, vars

\* Every other step, named.
LEMMA StepKinds ==
  ASSUME [Next]_vars
  PROVE  \/ Outside
         \/ \E c \in Calls : Enqueue(c) \/ Abandon(c) \/ LocalRun(c)
         \/ \E w \in Workers, r \in Requests : Claim(w, r) \/ Reserve(w, r)
         \/ \E t \in tasks : Check(t) \/ Send(t) \/ Ran(t) \/ Store(t)
         \/ \E w \in Workers : Crash(w)
         \/ \E r \in Requests : Tick(r) \/ SweepExpired(r) \/ SweepLost(r) \/ SweepPurge(r) \/ BrokerActs(r)
  BY DEF Next, Proceed, Sweep, Outside

\* No step lets two workers hold a request, or one hold it without its row: a
\* row is taken once, and only the sweep takes it away from a worker.
LEMMA ReservedStep ==
  ASSUME TypeOK, Reserved, Single, [Next]_vars
  PROVE  Reserved' /\ Single'
<1> USE DEF TypeOK, TypeDb, GatewayAssumption
<1>1. CASE Outside
  BY <1>1, OutsideLeaves DEF Reserved, Single, db
<1>2. ASSUME NEW c \in Calls, Enqueue(c)
      PROVE  Reserved' /\ Single'
  BY <1>2, GatewayAssumption DEF Enqueue, Reserved, Single, Task
<1>3. ASSUME NEW c \in Calls, Abandon(c)
      PROVE  Reserved' /\ Single'
  BY <1>3, GatewayAssumption DEF Abandon, Reserved, Single, Task
<1>4. ASSUME NEW c \in Calls, LocalRun(c)
      PROVE  Reserved' /\ Single'
  BY <1>4 DEF LocalRun, Reserved, Single, db
<1>5. ASSUME NEW w \in Workers, NEW r \in Requests, Claim(w, r)
      PROVE  Reserved' /\ Single'
  BY <1>5 DEF Claim, NewTask, Reserved, Single, Task
<1>6. ASSUME NEW w \in Workers, NEW r \in Requests, Reserve(w, r)
      PROVE  Reserved' /\ Single'
  BY <1>6 DEF Reserve, NewTask, Reserved, Single, Task
<1>7. ASSUME NEW t \in tasks, Check(t) \/ Send(t) \/ Ran(t)
      PROVE  Reserved' /\ Single'
  <2>1. PICK stage, res : Move(t, stage, res)
    BY <1>7 DEF Check, Send, Ran, Answered
  <2>2. UNCHANGED db
    BY <1>7 DEF Check, Send, Ran
  <2> QED BY <2>1, <2>2 DEF Move, Moved, Reserved, Single, db
<1>8. ASSUME NEW t \in tasks, Store(t)
      PROVE  Reserved' /\ Single'
  BY <1>8 DEF Store, Reserved, Single, Task
<1>9. ASSUME NEW w \in Workers, Crash(w)
      PROVE  Reserved' /\ Single'
  BY <1>9 DEF Crash, Reserved, Single, db
<1>10. ASSUME NEW r \in Requests, Tick(r)
       PROVE  Reserved' /\ Single'
  BY <1>10 DEF Tick, Reserved, Single, Task
<1>11. ASSUME NEW r \in Requests, SweepExpired(r) \/ SweepLost(r)
       PROVE  Reserved' /\ Single'
  BY <1>11 DEF SweepExpired, SweepLost, Reserved, Single, Task
<1>12. ASSUME NEW r \in Requests, SweepPurge(r) \/ BrokerActs(r)
       PROVE  Reserved' /\ Single'
  BY <1>12 DEF SweepPurge, BrokerActs, Reserved, Single, Task, db
<1> QED
  BY StepKinds, <1>1, <1>2, <1>3, <1>4, <1>5, <1>6, <1>7, <1>8, <1>9, <1>10, <1>11, <1>12

\* An order leaves for the broker only under a row of its own that is RUNNING or
\* that the sweep gave up as uncertain: never without a durable reservation, and
\* never when the row says that nothing was sent.
THEOREM OrdersAreReserved == Spec => SentOnlyReserved
<1> DEFINE RInv == TypeOK /\ Reserved /\ Single
<1>1. Init => RInv
  BY GatewayAssumption DEF Init, TypeOK, TypeDb, TypeWeb, TypeLane, TypeBroker,
     GatewayAssumption, Reserved, Single
<1>2. RInv /\ [Next]_vars => RInv'
  BY GatewayAssumption, TypeStep, ReservedStep
<1>3. RInv /\ [Next]_vars =>
        [\A r \in Requests : inflight'[r] > inflight[r] =>
           (status[r] = "RUNNING" \/ (status[r] = "FAILED" /\ errorCode[r] = "lost"))]_vars
  <2> SUFFICES ASSUME RInv, [Next]_vars, NEW r \in Requests, inflight'[r] > inflight[r]
               PROVE  status[r] = "RUNNING" \/ (status[r] = "FAILED" /\ errorCode[r] = "lost")
    OBVIOUS
  <2>1. inflight[r] \in Nat
    BY DEF TypeOK, TypeBroker
  <2>2. PICK t \in tasks : Send(t)
    BY StepKinds, OutsideLeaves, <2>1
    DEF Enqueue, Abandon, LocalRun, Claim, Reserve, Check, Ran, Store, Crash, Tick, SweepExpired,
        SweepLost, SweepPurge, BrokerActs, broker, TypeOK, TypeBroker
  <2>3. t.req = r
    BY <2>1, <2>2 DEF Send, TypeOK, TypeBroker
  <2> QED BY <2>3 DEF Reserved
<1> HIDE DEF RInv
<1> QED BY <1>1, <1>2, <1>3, PTL DEF Spec, SentOnlyReserved

-----------------------------------------------------------------------------
(* The first outcome stands.                                               *)

\* What is finished is left alone by every action that writes a row: each asks
\* for the row's status in the statement that changes it.
THEOREM FinishedStaysFinished == Spec => FinishedIsFinal
<1>1. ASSUME TypeOK, [Next]_vars, NEW r \in Requests, Finished(r)
      PROVE  status'[r] = "GONE" \/ (status'[r] = status[r] /\ errorCode'[r] = errorCode[r])
  <2> DEFINE Kept == status'[r] = "GONE" \/ (status'[r] = status[r] /\ errorCode'[r] = errorCode[r])
  <2>1. status[r] \notin {"NONE", "PENDING", "RUNNING"}
    BY <1>1 DEF Finished
  <2>2. ASSUME NEW q \in Requests, status[q] \in {"NONE", "PENDING", "RUNNING"},
               NEW new, UNCHANGED status \/ status' = [status EXCEPT ![q] = new],
               NEW code, UNCHANGED errorCode \/ errorCode' = [errorCode EXCEPT ![q] = code]
        PROVE  Kept
    BY <1>1, <2>1, <2>2 DEF TypeOK, TypeDb
  <2>3. CASE UNCHANGED <<status, errorCode>>
    BY <2>3
  <2>4. ASSUME NEW c \in Calls, Enqueue(c)
        PROVE  Kept
    <3>1. UNCHANGED errorCode
      BY <2>4 DEF Enqueue
    <3>2. UNCHANGED status \/ status' = [status EXCEPT ![r] = @]
                           \/ (status[ReqOf[c]] = "NONE" /\ status' = [status EXCEPT ![ReqOf[c]] = "PENDING"])
      BY <1>1, <2>4 DEF Enqueue, TypeOK, TypeDb
    <3> QED BY <1>1, <2>1, <3>1, <3>2 DEF TypeOK, TypeDb
  <2>5. ASSUME NEW c \in Calls, Abandon(c)
        PROVE  Kept
    BY <1>1, <2>1, <2>5 DEF Abandon, TypeOK, TypeDb
  <2>6. ASSUME NEW w \in Workers, NEW q \in Requests, Claim(w, q) \/ Reserve(w, q)
        PROVE  Kept
    BY <2>2, <2>3, <2>6 DEF Claim, Reserve
  <2>7. ASSUME NEW t \in tasks, Store(t)
        PROVE  Kept
    BY <1>1, <2>2, <2>3, <2>7 DEF Store, TypeOK, Task
  <2>8. ASSUME NEW q \in Requests, SweepExpired(q) \/ SweepLost(q)
        PROVE  Kept
    BY <2>2, <2>8 DEF SweepExpired, SweepLost
  <2>9. ASSUME NEW q \in Requests, SweepPurge(q)
        PROVE  Kept
    BY <1>1, <2>9 DEF SweepPurge, TypeOK, TypeDb
  <2>10. \/ UNCHANGED <<status, errorCode>>
         \/ \E c \in Calls : Enqueue(c) \/ Abandon(c)
         \/ \E w \in Workers, q \in Requests : Claim(w, q) \/ Reserve(w, q)
         \/ \E t \in tasks : Store(t)
         \/ \E q \in Requests : SweepExpired(q) \/ SweepLost(q) \/ SweepPurge(q)
    BY <1>1, StepKinds, OutsideLeaves DEF LocalRun, Check, Send, Ran, Crash, Tick, BrokerActs, db
  <2> QED BY <2>3, <2>4, <2>5, <2>6, <2>7, <2>8, <2>9, <2>10
<1>2. TypeOK /\ [Next]_vars => [\A r \in Requests : Finished(r) =>
        (status'[r] = "GONE" \/ (status'[r] = status[r] /\ errorCode'[r] = errorCode[r]))]_vars
  BY <1>1
<1> QED BY <1>2, TypeCorrect, PTL DEF Spec, FinishedIsFinal

-----------------------------------------------------------------------------
(* At most once.  LocalBridge = FALSE: every order goes through the table. *)

\* No call takes the local route when there is none.
LEMMA NoLocalStep ==
  ASSUME ~LocalBridge, TypeOK, NoLocal, [Next]_vars
  PROVE  NoLocal'
<1> USE DEF TypeOK, TypeWeb, NoLocal
<1>1. ASSUME NEW c \in Calls, Start(c)
      PROVE  NoLocal'
  BY <1>1 DEF Start, Go, Tell
<1>2. ASSUME NEW c \in Calls, Proceed(c)
      PROVE  NoLocal'
  BY <1>2 DEF Proceed, Enqueue, Wait, Late, Lookup, Look, Abandon, Reread, LocalRun,
     LaneAnswered, LaneNotSent, LaneUncertain, Go, Tell
<1>3. CASE UNCHANGED web
  BY <1>3 DEF web
<1>4. (\E c \in Calls : Start(c) \/ Proceed(c)) \/ UNCHANGED web
  BY StepKinds
  DEF Next, Claim, Reserve, ReadEarlier, RunDirect, Crash, Check, Send, Ran, Store, Tick,
      Sweep, SweepExpired, SweepLost, SweepPurge, BrokerActs, vars
<1> QED BY <1>1, <1>2, <1>3, <1>4

\* How one step moves one request: nothing becomes unsent again, a command is
\* queued at a worker only when it was taken from the unsent ones, the broker
\* is reached from a queue only, and executes what is on its way.
Advance(r) ==
  /\ Unsent(r)' => Unsent(r)
  /\ Queued(r)' => Queued(r) \/ Unsent(r)
  /\ \/ /\ placed'[r] = placed[r]
        /\ inflight'[r] = inflight[r]
        /\ verdict'[r] = verdict[r]
     \/ /\ Queued(r) /\ ~Queued(r)'
        /\ placed'[r] = placed[r]
        /\ inflight'[r] = inflight[r] + 1
        /\ verdict'[r] = verdict[r]
     \/ /\ inflight[r] > 0
        /\ inflight'[r] = inflight[r] - 1
        /\ \/ placed'[r] = placed[r] + 1 /\ verdict'[r] = "ok"
           \/ placed'[r] = placed[r] /\ verdict'[r] = "refused"

\* Every step of the gateway moves every request in this way.
LEMMA StepAdvances ==
  ASSUME TypeOK, Reserved, Single, NoLocal, [Next]_vars, NEW r \in Requests
  PROVE  Advance(r)
<1> USE DEF TypeOK, TypeDb, TypeBroker
<1>1. CASE Outside
  BY <1>1, OutsideLeaves DEF Advance, Unsent, Queued, db, broker
<1>2. ASSUME NEW c \in Calls, Enqueue(c) \/ Abandon(c)
      PROVE  Advance(r)
  BY <1>2 DEF Enqueue, Abandon, Advance, Unsent, Queued, broker
<1>3. ASSUME NEW w \in Workers, NEW q \in Requests, Claim(w, q) \/ Reserve(w, q)
      PROVE  Advance(r)
  BY <1>3 DEF Claim, Reserve, NewTask, Advance, Unsent, Queued, broker
<1>4. ASSUME NEW t \in tasks, Check(t)
      PROVE  Advance(r)
  <2>1. PICK stage, res : Move(t, stage, res)
    BY <1>4 DEF Check, Answered
  <2>2. Queued(r)' => Queued(r)
    BY <2>1, <1>4 DEF Queued, Move, Moved, Check
  <2> QED BY <1>4, <2>2 DEF Check, Advance, Unsent, db, broker
<1>11. ASSUME NEW t \in tasks, Send(t)
      PROVE  Advance(r)
  <2>1. PICK stage, res : Move(t, stage, res) /\ stage \notin {"queued", "checked"}
    BY <1>11 DEF Send, Answered
  <2>2. Queued(r)' => Queued(r) /\ t.req # r
    BY <2>1, <1>11 DEF Queued, Move, Moved, Single, Send
  <2>3. UNCHANGED status /\ UNCHANGED placed /\ UNCHANGED verdict
    BY <1>11 DEF Send, db
  <2>4. UNCHANGED inflight \/ inflight' = [inflight EXCEPT ![t.req] = @ + 1]
    BY <1>11 DEF Send
  <2>5. t.req = r => Queued(r)
    BY <1>11 DEF Send, Queued
  <2> QED BY <2>2, <2>3, <2>4, <2>5 DEF Advance, Unsent
<1>5. ASSUME NEW t \in tasks, Ran(t)
      PROVE  Advance(r)
  <2>1. PICK res : Move(t, "storing", res)
    BY <1>5 DEF Ran, Answered
  <2>2. UNCHANGED <<db, broker>>
    BY <1>5 DEF Ran
  <2> QED BY <2>1, <2>2 DEF Move, Moved, Advance, Unsent, Queued, db, broker
<1>6. ASSUME NEW t \in tasks, Store(t)
      PROVE  Advance(r)
  BY <1>6 DEF Store, Advance, Unsent, Queued, broker, Task
<1>7. ASSUME NEW w \in Workers, Crash(w)
      PROVE  Advance(r)
  BY <1>7 DEF Crash, Advance, Unsent, Queued, db, broker
<1>8. ASSUME NEW q \in Requests, Tick(q) \/ SweepExpired(q) \/ SweepLost(q) \/ SweepPurge(q)
      PROVE  Advance(r)
  BY <1>8 DEF Tick, SweepExpired, SweepLost, SweepPurge, Advance, Unsent, Queued, Finished, broker
<1>9. ASSUME NEW q \in Requests, BrokerActs(q)
      PROVE  Advance(r)
  BY <1>9 DEF BrokerActs, Advance, Unsent, Queued, db
<1>10. ASSUME NEW c \in Calls, LocalRun(c)
       PROVE  FALSE
  BY <1>10 DEF LocalRun, NoLocal
<1> QED
  BY StepKinds, <1>1, <1>2, <1>3, <1>4, <1>5, <1>6, <1>7, <1>8, <1>9, <1>10, <1>11

\* A request a worker is about to send is reserved.
LEMMA QueuedIsReserved ==
  ASSUME Reserved, NEW r \in Requests, Queued(r)
  PROVE  ~Unsent(r)
  BY DEF Reserved, Queued, Unsent

\* A request that only moves on in this way never becomes two orders.
LEMMA OneOrderStep ==
  ASSUME TypeOK, Reserved, Reserved', OneOrder, \A r \in Requests : Advance(r)
  PROVE  OneOrder'
<1> SUFFICES ASSUME NEW r \in Requests
             PROVE  /\ placed'[r] + inflight'[r] <= 1
                    /\ verdict'[r] = "ok" => placed'[r] = 1
                    /\ verdict'[r] = "refused" => placed'[r] = 0 /\ inflight'[r] = 0
                    /\ Unsent(r)' \/ Queued(r)' => Untouched(r)'
  BY DEF OneOrder
<1>1. /\ placed[r] \in Nat /\ inflight[r] \in Nat
      /\ verdict[r] \in {"none", "ok", "refused"}
  BY DEF TypeOK, TypeBroker
<1>2. /\ placed[r] + inflight[r] <= 1
      /\ verdict[r] = "ok" => placed[r] = 1
      /\ verdict[r] = "refused" => placed[r] = 0 /\ inflight[r] = 0
      /\ Unsent(r) \/ Queued(r) => placed[r] = 0 /\ inflight[r] = 0 /\ verdict[r] = "none"
  BY DEF OneOrder, Untouched
<1>3. Queued(r) => ~Unsent(r)
  BY QueuedIsReserved
<1>4. Advance(r)
  OBVIOUS
<1>5. CASE placed'[r] = placed[r] /\ inflight'[r] = inflight[r] /\ verdict'[r] = verdict[r]
  BY <1>2, <1>4, <1>5 DEF Advance, Untouched
<1>6. CASE /\ Queued(r) /\ ~Queued(r)'
           /\ placed'[r] = placed[r] /\ inflight'[r] = inflight[r] + 1 /\ verdict'[r] = verdict[r]
  <2>1. ~Unsent(r)' /\ ~Queued(r)'
    BY <1>3, <1>4, <1>6 DEF Advance
  <2> QED BY <1>1, <1>2, <1>6, <2>1
<1>7. CASE /\ inflight[r] > 0 /\ inflight'[r] = inflight[r] - 1
           /\ \/ placed'[r] = placed[r] + 1 /\ verdict'[r] = "ok"
              \/ placed'[r] = placed[r] /\ verdict'[r] = "refused"
  <2>1. inflight[r] = 1 /\ placed[r] = 0
    BY <1>1, <1>2, <1>7
  <2>2. ~Unsent(r)' /\ ~Queued(r)'
    BY <1>2, <1>4, <2>1 DEF Advance
  <2> QED BY <1>7, <2>1, <2>2
<1> QED BY <1>4, <1>5, <1>6, <1>7 DEF Advance

\* One request id is at most one order at the broker: for any number of calls,
\* web instances, workers and crashes, whatever is lost, late or repeated.
THEOREM AtMostOnceHolds == ASSUME ~LocalBridge PROVE Spec => []AtMostOnce
<1> DEFINE SInv == TypeOK /\ Reserved /\ Single /\ NoLocal /\ OneOrder
<1>1. Init => SInv
  BY GatewayAssumption DEF Init, TypeOK, TypeDb, TypeWeb, TypeLane, TypeBroker,
     GatewayAssumption, Reserved, Single, NoLocal, OneOrder, Untouched
<1>2. SInv /\ [Next]_vars => SInv'
  BY GatewayAssumption, TypeStep, ReservedStep, NoLocalStep, StepAdvances, OneOrderStep
<1>3. SInv => AtMostOnce
  BY DEF OneOrder, AtMostOnce
<1> HIDE DEF SInv
<1> QED BY <1>1, <1>2, <1>3, PTL DEF Spec

-----------------------------------------------------------------------------
(* Truthful rows and answers.                                              *)

\* What was true of a request stays true: answers never have to be taken back.
LEMMA HoldsStable ==
  ASSUME TypeOK, Reserved, OneOrder, NEW r \in Requests, Advance(r), NEW a, Holds(a, r)
  PROVE  Holds(a, r)'
<1>1. /\ placed[r] \in Nat /\ inflight[r] \in Nat
      /\ placed[r] + inflight[r] <= 1
  BY DEF TypeOK, TypeBroker, OneOrder
<1>2. placed[r] = 1 => placed'[r] = 1
  BY <1>1 DEF Advance
<1>3. Never(r) => Never(r)' /\ verdict'[r] = verdict[r]
  <2> SUFFICES ASSUME Never(r)
               PROVE  Never(r)' /\ verdict'[r] = verdict[r]
    OBVIOUS
  <2>1. ~Unsent(r) /\ ~Queued(r) /\ placed[r] = 0 /\ inflight[r] = 0
    BY DEF Never
  <2>2. ~Unsent(r)' /\ ~Queued(r)'
    BY <2>1 DEF Advance
  <2>3. placed'[r] = 0 /\ inflight'[r] = 0 /\ verdict'[r] = verdict[r]
    BY <2>1 DEF Advance
  <2> QED BY <2>2, <2>3 DEF Never
<1> QED BY <1>2, <1>3 DEF Holds

\* Closing a command nobody took, and an order the worker did not send.
LEMMA UntouchedNever ==
  ASSUME NEW r \in Requests, Untouched(r), Advance(r), Unsent(r) \/ Queued(r),
         Unsent(r) => UNCHANGED <<placed[r], inflight[r], verdict[r]>>,
         ~Unsent(r)', ~Queued(r)', inflight'[r] = 0
  PROVE  \A a \in {"none", "refused", "not_sent", "uncertain", "lost"} : Holds(a, r)'
<1>1. placed'[r] = 0 /\ verdict'[r] = "none"
  BY DEF Untouched, Advance
<1> QED BY <1>1 DEF Holds, Never

\* Only a worker that has the request in its queue, or the broker, moves it.
LEMMA TaskFacts ==
  ASSUME TypeOK, Reserved, Single, OneOrder, NEW t \in tasks
  PROVE  /\ t.req \in Requests
         /\ ~Unsent(t.req)
         /\ t.stage \in {"queued", "checked"} => Untouched(t.req)
         /\ t.stage \notin {"queued", "checked"} => ~Queued(t.req)
<1>1. t.req \in Requests
  BY DEF TypeOK, Task
<1>2. ~Unsent(t.req)
  BY DEF Reserved, Unsent
<1>3. t.stage \in {"queued", "checked"} => Untouched(t.req)
  BY <1>1 DEF OneOrder, Queued
<1>4. t.stage \notin {"queued", "checked"} => ~Queued(t.req)
  BY DEF Queued, Single
<1> QED BY <1>1, <1>2, <1>3, <1>4

\* What a worker answers when a command has run, is true.
LEMMA AnsweredTrue ==
  ASSUME TypeOK, Reserved, Single, OneOrder, NEW t \in tasks, Check(t) \/ Send(t) \/ Ran(t)
  PROVE  \E stage, res :
           /\ Move(t, stage, res)
           /\ Holds(res, t.req)'
           /\ \/ stage = "storing" /\ t.lane = "direct" /\ Settle(t.worker, t.req, res)
              \/ UNCHANGED lane
<1> DEFINE r == t.req
<1>1. r \in Requests /\ ~Unsent(r)
  BY TaskFacts
<1>2. UNCHANGED status /\ UNCHANGED placed /\ UNCHANGED verdict
  BY DEF Check, Send, Ran, db, broker
<1>3. ~Unsent(r)'
  BY <1>1, <1>2 DEF Unsent
<1>4. ASSUME NEW stage, NEW res, Move(t, stage, res), stage \notin {"queued", "checked"}
      PROVE  ~Queued(r)'
  BY <1>4 DEF Move, Moved, Single, Queued
<1>5. CASE (Move(t, "checked", "none") \/ Move(t, "broker", "none")) /\ UNCHANGED lane
  BY <1>5 DEF Holds
<1>6. ASSUME NEW a \in {"refused", "not_sent"}, t.stage \in {"queued", "checked"}, Answered(t, a), UNCHANGED inflight
      PROVE  Holds(a, r)'
  <2>1. Untouched(r) /\ ~Queued(r)'
    BY <1>4, <1>6, TaskFacts DEF Answered
  <2> QED BY <2>1, <1>2, <1>3, <1>6 DEF Untouched, Holds, Never
<1>7. ASSUME t.stage = "broker", verdict[r] # "none", Answered(t, verdict[r]), UNCHANGED inflight
      PROVE  Holds(verdict[r], r)' /\ UNCHANGED verdict
  <2>1. ~Queued(r)'
    BY <1>4, <1>7 DEF Answered
  <2>2. verdict[r] = "ok" \/ (verdict[r] = "refused" /\ placed[r] = 0 /\ inflight[r] = 0)
    BY <1>1, <1>7 DEF OneOrder, TypeOK, TypeBroker
  <2>3. verdict[r] = "ok" => placed[r] = 1
    BY <1>1 DEF OneOrder
  <2> QED BY <2>1, <2>2, <2>3, <1>2, <1>3, <1>7 DEF Holds, Never
<1>8. CASE Answered(t, "uncertain")
  BY <1>8 DEF Answered, Holds
<1> HIDE DEF r
<1> QED BY <1>5, <1>6, <1>7, <1>8 DEF Check, Send, Ran, Answered, broker, r

\* What is claimed about a request stays true in every step.
LEMMA StepIsStable ==
  ASSUME TypeOK, NoLocal, Reserved, Single, OneOrder, [Next]_vars
  PROVE  \A r \in Requests : \A a : Holds(a, r) => Holds(a, r)'
  BY StepAdvances, HoldsStable

\* A worker never carries a wrong result to the store.
LEMMA TaskTrueStep ==
  ASSUME TypeOK, NoLocal, Reserved, Single, OneOrder, TaskTrue, [Next]_vars
  PROVE  TaskTrue'
<1>1. \A t \in tasks : Holds(t.res, t.req)'
  BY StepIsStable, TaskFacts DEF TaskTrue
<1>2. ASSUME NEW t \in tasks, Check(t) \/ Send(t) \/ Ran(t)
      PROVE  TaskTrue'
  <2>1. PICK stage, res : Move(t, stage, res) /\ Holds(res, t.req)'
    BY <1>2, AnsweredTrue
  <2> QED BY <1>1, <2>1 DEF Move, Moved, TaskTrue
<1>3. ASSUME NEW w \in Workers, NEW r \in Requests, Claim(w, r) \/ Reserve(w, r)
      PROVE  TaskTrue'
  <2>1. tasks' = tasks \/ \E l : tasks' = tasks \cup {NewTask(r, w, l)}
    BY <1>3 DEF Claim, Reserve
  <2> QED BY <1>1, <2>1 DEF NewTask, TaskTrue, Holds
<1>4. ASSUME tasks' \subseteq tasks
      PROVE  TaskTrue'
  BY <1>1, <1>4 DEF TaskTrue
<1>5. \/ tasks' \subseteq tasks
      \/ \E w \in Workers, r \in Requests : Claim(w, r) \/ Reserve(w, r)
      \/ \E t \in tasks : Check(t) \/ Send(t) \/ Ran(t)
  BY StepKinds, OutsideLeaves
  DEF Enqueue, Abandon, LocalRun, Store, Crash, Tick, SweepExpired, SweepLost, SweepPurge, BrokerActs
<1> QED BY <1>2, <1>3, <1>4, <1>5

\* A row never tells a wrong outcome: neither its worker, nor the sweep, nor a
\* caller that gives up stores one.
LEMMA RowTrueStep ==
  ASSUME TypeOK, NoLocal, Reserved, Single, OneOrder, TaskTrue, RowTrue, [Next]_vars
  PROVE  RowTrue'
<1> SUFFICES ASSUME NEW r \in Requests
             PROVE  /\ status'[r] = "DONE" => placed'[r] = 1
                    /\ status'[r] \in {"DONE", "FAILED", "EXPIRED"} => Holds(errorCode[r], r)'
  BY DEF RowTrue, Finished
<1> DEFINE Row == /\ status'[r] = "DONE" => placed'[r] = 1
                  /\ status'[r] \in {"DONE", "FAILED", "EXPIRED"} => Holds(errorCode[r], r)'
<1>1. \A a : Holds(a, r) => Holds(a, r)'
  BY StepIsStable
<1>2. Advance(r)
  BY StepAdvances
<1>3. placed[r] = 1 => placed'[r] = 1
  BY <1>1 DEF Holds
<1>4. ASSUME status'[r] = status[r], errorCode'[r] = errorCode[r]
      PROVE  Row
  BY <1>1, <1>3, <1>4 DEF RowTrue, Finished
<1>5. ASSUME status'[r] \notin {"DONE", "FAILED", "EXPIRED"}
      PROVE  Row
  BY <1>5
<1>6. ASSUME status[r] = "PENDING", status' = [status EXCEPT ![r] = "EXPIRED"],
             errorCode' = [errorCode EXCEPT ![r] = "not_sent"], UNCHANGED <<tasks, broker>>
      PROVE  Row
  <2>1. Untouched(r) /\ ~Queued(r)
    BY <1>6, QueuedIsReserved DEF Unsent, OneOrder
  <2>2. status'[r] = "EXPIRED" /\ errorCode'[r] = "not_sent"
    BY <1>6 DEF TypeOK, TypeDb
  <2>3. ~Unsent(r)' /\ ~Queued(r)'
    BY <1>6, <2>1, <2>2 DEF Unsent, Queued
  <2>4. placed'[r] = 0 /\ inflight'[r] = 0 /\ verdict'[r] = "none"
    BY <1>6, <2>1 DEF Untouched, broker
  <2> QED BY <2>2, <2>3, <2>4 DEF Holds, Never
<1>7. ASSUME NEW t \in tasks, Store(t), t.req = r, status'[r] # status[r]
      PROVE  Row
  <2>1. \/ t.res = "ok" /\ status'[r] = "DONE" /\ errorCode'[r] = "none"
        \/ t.res # "ok" /\ status'[r] = "FAILED" /\ errorCode'[r] = t.res
    BY <1>7 DEF Store, TypeOK, TypeDb
  <2>2. Holds(t.res, r)
    BY <1>7 DEF TaskTrue
  <2>3. CASE t.res = "ok"
    BY <1>3, <2>1, <2>2, <2>3 DEF Holds
  <2>4. CASE t.res # "ok"
    BY <1>1, <2>1, <2>2, <2>4
  <2> QED BY <2>3, <2>4
<1>8. ASSUME SweepLost(r)
      PROVE  Row
  <2>1. status'[r] = "FAILED" /\ errorCode'[r] = "lost"
    BY <1>8 DEF SweepLost, TypeOK, TypeDb
  <2> QED BY <2>1 DEF Holds
<1> DEFINE Kinds ==
      \/ status'[r] = status[r] /\ errorCode'[r] = errorCode[r]
      \/ status'[r] \notin {"DONE", "FAILED", "EXPIRED"}
      \/ /\ status[r] = "PENDING" /\ status' = [status EXCEPT ![r] = "EXPIRED"]
         /\ errorCode' = [errorCode EXCEPT ![r] = "not_sent"] /\ UNCHANGED <<tasks, broker>>
      \/ \E t \in tasks : Store(t) /\ t.req = r /\ status'[r] # status[r]
      \/ SweepLost(r)
<1>9. Kinds
  <2> USE DEF TypeOK, TypeDb
  <2>1. CASE Outside
    BY <2>1, OutsideLeaves DEF db
  <2>2. ASSUME NEW c \in Calls, Enqueue(c) \/ Abandon(c) \/ LocalRun(c)
        PROVE  Kinds
    BY <2>2 DEF Enqueue, Abandon, LocalRun, db
  <2>3. ASSUME NEW w \in Workers, NEW q \in Requests, Claim(w, q) \/ Reserve(w, q) \/ Crash(w)
        PROVE  Kinds
    BY <2>3 DEF Claim, Reserve, Crash, db
  <2>4. ASSUME NEW t \in tasks, Check(t) \/ Send(t) \/ Ran(t)
        PROVE  Kinds
    BY <2>4 DEF Check, Send, Ran, db
  <2>5. ASSUME NEW t \in tasks, Store(t)
        PROVE  Kinds
    BY <2>5, TaskFacts DEF Store
  <2>6. ASSUME NEW q \in Requests, Tick(q) \/ SweepExpired(q) \/ SweepPurge(q) \/ BrokerActs(q)
        PROVE  Kinds
    BY <2>6 DEF Tick, SweepExpired, SweepPurge, BrokerActs, db
  <2>7. ASSUME NEW q \in Requests, SweepLost(q)
        PROVE  Kinds
    BY <2>7 DEF SweepLost
  <2>8. CASE \E w \in Workers : Crash(w)
    BY <2>8 DEF Crash, db
  <2> QED BY StepKinds, <2>1, <2>2, <2>3, <2>4, <2>5, <2>6, <2>7, <2>8
<1> QED BY <1>4, <1>5, <1>6, <1>7, <1>8, <1>9

\* What a finished row answers is true.
LEMMA AnswerOfTrue ==
  ASSUME RowTrue, NEW r \in Requests, Finished(r)
  PROVE  Holds(AnswerOf(r), r)
  BY DEF RowTrue, AnswerOf, Holds

\* An entry of directSeen that is answered with the truth.
LEMMA SettleTrue ==
  ASSUME TypeOK, EntriesTrue, RepliesTrue, \A r \in Requests : \A b : Holds(b, r) => Holds(b, r)',
         NEW w \in Workers, NEW q \in Requests, NEW a, Settle(w, q, a), Holds(a, q)'
  PROVE  EntriesTrue' /\ RepliesTrue'
<1>1. EntriesTrue'
  <2>1. ASSUME NEW v \in Workers, NEW r \in Requests
        PROVE  entry'[v][r] = entry[v][r] \/ (r = q /\ entry'[v][r] = a)
    BY DEF Settle, TypeOK, TypeLane
  <2> QED BY <2>1 DEF EntriesTrue, Holds
<1>2. RepliesTrue'
  <2>1. ASSUME NEW h \in Handlers
        PROVE  /\ ReqOf[h[1]] \in Requests
               /\ reply'[h] = reply[h] \/ (ReqOf[h[1]] = q /\ reply'[h] = a)
    BY GatewayAssumption DEF Settle, TypeOK, TypeLane, Handlers, GatewayAssumption
  <2> QED BY <2>1 DEF RepliesTrue, Holds
<1> QED BY <1>1, <1>2

\* A call that is told the truth.
LEMMA TellTrue ==
  ASSUME TypeOK, ToldTrue, \A r \in Requests : \A b : Holds(b, r) => Holds(b, r)',
         NEW c \in Calls, NEW a, Tell(c, a), Holds(a, ReqOf[c])'
  PROVE  ToldTrue'
<1>1. ASSUME NEW d \in Calls
      PROVE  /\ ReqOf[d] \in Requests
             /\ told'[d] = told[d] \/ (d = c /\ told'[d] = a)
  BY GatewayAssumption DEF Tell, TypeOK, TypeWeb, GatewayAssumption
<1> QED BY <1>1 DEF ToldTrue, Holds

\* What is not changed stays true.
LEMMA SameTrue ==
  ASSUME \A r \in Requests : \A b : Holds(b, r) => Holds(b, r)'
  PROVE  /\ ToldTrue /\ UNCHANGED told => ToldTrue'
         /\ EntriesTrue /\ UNCHANGED entry => EntriesTrue'
         /\ RepliesTrue /\ UNCHANGED reply => RepliesTrue'
<1>1. \A c \in Calls : ReqOf[c] \in Requests
  BY GatewayAssumption DEF GatewayAssumption
<1>2. \A h \in Handlers : ReqOf[h[1]] \in Requests
  BY <1>1 DEF Handlers
<1> QED BY <1>1, <1>2 DEF ToldTrue, EntriesTrue, RepliesTrue, Holds

\* A call that is answered is answered truthfully.
LEMMA ToldStep ==
  ASSUME TypeOK, NoLocal, Reserved, Single, OneOrder, RowTrue, RepliesTrue, ToldTrue, [Next]_vars
  PROVE  ToldTrue'
<1>1. \A r \in Requests : \A b : Holds(b, r) => Holds(b, r)'
  BY StepIsStable
<1>2. \A c \in Calls : ReqOf[c] \in Requests
  BY GatewayAssumption DEF GatewayAssumption
<1>3. ASSUME NEW c \in Calls, NEW a \in {"uncertain", "in_progress", "stopped", "unavailable"}, Tell(c, a)
      PROVE  ToldTrue'
  BY <1>1, <1>3, TellTrue DEF Holds
<1>4. ASSUME NEW c \in Calls, Finished(ReqOf[c]), Tell(c, AnswerOf(ReqOf[c]))
      PROVE  ToldTrue'
  BY <1>1, <1>2, <1>4, AnswerOfTrue, RowTrueStep, TellTrue
<1>5. ASSUME NEW c \in Calls, Start(c)
      PROVE  ToldTrue'
  <2>1. CASE Remembered(c) /\ Tell(c, "ok")
    <3>1. PICK d \in Calls : ReqOf[d] = ReqOf[c] /\ told[d] = "ok"
      BY <2>1 DEF Remembered, Same
    <3>2. Holds("ok", ReqOf[c])
      BY <3>1 DEF ToldTrue, Holds
    <3> QED BY <1>1, <1>2, <2>1, <3>2, TellTrue
  <2> QED BY <1>1, <1>3, <1>5, <2>1, SameTrue DEF Start, Go
<1>6. ASSUME NEW c \in Calls, Enqueue(c)
      PROVE  ToldTrue'
  BY <1>1, <1>3, <1>4, <1>6, SameTrue DEF Enqueue, Go
<1>7. ASSUME NEW c \in Calls, Wait(c) \/ Late(c) \/ Lookup(c)
      PROVE  ToldTrue'
  BY <1>1, <1>3, <1>4, <1>7, SameTrue DEF Wait, Late, Lookup, Look, Go
<1>8. ASSUME NEW c \in Calls, Abandon(c)
      PROVE  ToldTrue'
  <2> DEFINE r == ReqOf[c]
  <2>1. CASE /\ status[r] = "PENDING"
             /\ status' = [status EXCEPT ![r] = "EXPIRED"]
             /\ Tell(c, "not_sent")
    <3>1. Untouched(r) /\ ~Queued(r)
      BY <1>2, <2>1, QueuedIsReserved DEF Unsent, OneOrder
    <3>2. ~Unsent(r)' /\ ~Queued(r)' /\ placed'[r] = 0 /\ inflight'[r] = 0 /\ verdict'[r] = "none"
      BY <1>2, <1>8, <2>1, <3>1 DEF Abandon, Unsent, Queued, Untouched, broker, TypeOK, TypeDb
    <3>3. Holds("not_sent", r)'
      BY <3>2 DEF Holds, Never
    <3> QED BY <1>1, <1>2, <2>1, <3>3, TellTrue
  <2>2. CASE UNCHANGED told
    BY <1>1, <2>2, SameTrue
  <2> QED BY <1>8, <2>1, <2>2 DEF Abandon, Go
<1>9. ASSUME NEW c \in Calls, Reread(c)
      PROVE  ToldTrue'
  BY <1>1, <1>3, <1>9, SameTrue DEF Reread, Go
<1>10. ASSUME NEW c \in Calls, NEW n \in {1, 2}, LaneAnswered(c, n)
       PROVE  ToldTrue'
  <2>1. PICK a : a = reply[<<c, n>>]
    OBVIOUS
  <2>2. <<c, n>> \in Handlers /\ <<c, n>>[1] = c
    BY DEF Handlers
  <2>3. Holds(a, ReqOf[c])
    BY <2>1, <2>2 DEF RepliesTrue
  <2>4. Tell(c, a)
    BY <1>10, <2>1 DEF LaneAnswered
  <2> QED BY <1>1, <1>2, <2>3, <2>4, TellTrue
<1>11. ASSUME NEW c \in Calls, NEW n \in {1, 2}, LaneNotSent(c, n) \/ LaneUncertain(c, n)
       PROVE  ToldTrue'
  BY <1>1, <1>11, SameTrue DEF LaneNotSent, LaneUncertain, Go
<1>12. ASSUME NEW c \in Calls, LocalRun(c)
       PROVE  FALSE
  BY <1>12 DEF LocalRun, NoLocal
<1>13. CASE UNCHANGED told
  BY <1>1, <1>13, SameTrue
<1>14. UNCHANGED told \/ \E c \in Calls : Start(c) \/ Proceed(c)
  BY DEF Next, Claim, Reserve, ReadEarlier, RunDirect, Crash, Check, Send, Ran, Store, Tick,
         Sweep, SweepExpired, SweepLost, SweepPurge, BrokerActs, vars, web
<1> QED
  BY <1>5, <1>6, <1>7, <1>8, <1>9, <1>10, <1>11, <1>12, <1>13, <1>14 DEF Proceed

\* The memory of a worker and the answers on their way back stay true.
LEMMA LaneStep ==
  ASSUME TypeOK, NoLocal, Reserved, Single, OneOrder, RowTrue, EntriesTrue, RepliesTrue, [Next]_vars
  PROVE  EntriesTrue' /\ RepliesTrue'
<1>1. \A r \in Requests : \A b : Holds(b, r) => Holds(b, r)'
  BY StepIsStable
<1>2. \A h \in Handlers : ReqOf[h[1]] \in Requests
  BY GatewayAssumption DEF Handlers, GatewayAssumption
<1>3. ASSUME NEW h \in Handlers, HangUp(h)
      PROVE  EntriesTrue' /\ RepliesTrue'
  <2>1. \A g \in Handlers : reply'[g] = reply[g] \/ reply'[g] = "none"
    BY <1>3 DEF HangUp, TypeOK, TypeLane
  <2>2. RepliesTrue'
    BY <1>1, <1>2, <2>1 DEF RepliesTrue, Holds
  <2> QED BY <1>1, <1>3, <2>2, SameTrue DEF HangUp
<1>4. ASSUME NEW w \in Workers, NEW h \in Handlers, RunDirect(w, h)
      PROVE  EntriesTrue' /\ RepliesTrue'
  <2> DEFINE q == ReqOf[h[1]]
  <2>1. q \in Requests
    BY <1>2
  <2>2. /\ entry' = entry \/ entry' = [entry EXCEPT ![w][q] = "reserving"]
        /\ reply' = reply \/ reply' = [reply EXCEPT ![h] = entry[w][q]]
    BY <1>4 DEF RunDirect
  <2>3. EntriesTrue'
    <3>1. ASSUME NEW v \in Workers, NEW r \in Requests
          PROVE  entry'[v][r] = entry[v][r] \/ entry'[v][r] = "reserving"
      BY <2>2 DEF TypeOK, TypeLane
    <3> QED BY <1>1, <3>1 DEF EntriesTrue, Holds
  <2>4. RepliesTrue'
    <3>1. ASSUME NEW g \in Handlers
          PROVE  reply'[g] = reply[g] \/ (g = h /\ reply'[g] = entry[w][q])
      BY <2>2 DEF TypeOK, TypeLane
    <3>2. Holds(entry[w][q], q)
      BY <2>1 DEF EntriesTrue
    <3>3. PICK a : a = entry[w][q]
      OBVIOUS
    <3>4. Holds(a, q)'
      BY <1>1, <2>1, <3>2, <3>3
    <3> QED BY <1>1, <1>2, <3>1, <3>3, <3>4 DEF RepliesTrue, Holds
  <2> QED BY <2>3, <2>4
<1>5. ASSUME NEW w \in Workers, NEW q \in Requests, NEW a, Settle(w, q, a), Holds(a, q)'
      PROVE  EntriesTrue' /\ RepliesTrue'
  BY <1>1, <1>5, SettleTrue
<1>6. ASSUME NEW w \in Workers, NEW q \in Requests, NEW stage \in {"reading", "running"}, Step(w, q, stage)
      PROVE  EntriesTrue' /\ RepliesTrue'
  <2>1. ASSUME NEW v \in Workers, NEW r \in Requests
        PROVE  entry'[v][r] = entry[v][r] \/ entry'[v][r] = stage
    BY <1>6 DEF Step, TypeOK, TypeLane
  <2>2. EntriesTrue'
    BY <1>1, <2>1 DEF EntriesTrue, Holds
  <2> QED BY <1>1, <1>6, <2>2, SameTrue DEF Step
<1>7. ASSUME NEW w \in Workers, NEW q \in Requests, Reserve(w, q)
      PROVE  EntriesTrue' /\ RepliesTrue'
  <2>1. Holds("uncertain", q)'
    BY DEF Holds
  <2> QED BY <1>5, <1>6, <1>7, <2>1 DEF Reserve
<1>8. ASSUME NEW w \in Workers, NEW q \in Requests, ReadEarlier(w, q)
      PROVE  EntriesTrue' /\ RepliesTrue'
  <2>1. CASE Settle(w, q, "uncertain")
    BY <1>5, <2>1 DEF Holds
  <2>2. CASE Finished(q) /\ Settle(w, q, AnswerOf(q))
    <3>1. PICK a : a = AnswerOf(q)
      OBVIOUS
    <3>2. Holds(a, q)
      BY <2>2, <3>1, AnswerOfTrue
    <3> QED BY <1>1, <1>5, <2>2, <3>1, <3>2
  <2> QED BY <1>8, <2>1, <2>2 DEF ReadEarlier
<1>9. ASSUME NEW t \in tasks, Check(t) \/ Send(t) \/ Ran(t)
      PROVE  EntriesTrue' /\ RepliesTrue'
  <2>1. PICK stage, res : /\ Holds(res, t.req)'
                          /\ Settle(t.worker, t.req, res) \/ UNCHANGED lane
    BY <1>9, AnsweredTrue
  <2>2. t.req \in Requests /\ t.worker \in Workers
    BY DEF TypeOK, Task
  <2> QED BY <1>1, <1>5, <2>1, <2>2, SameTrue DEF lane
<1>10. ASSUME NEW w \in Workers, Crash(w)
       PROVE  EntriesTrue' /\ RepliesTrue'
  <2>1. ASSUME NEW v \in Workers, NEW r \in Requests
        PROVE  entry'[v][r] = entry[v][r] \/ entry'[v][r] = "none"
    BY <1>10 DEF Crash, TypeOK, TypeLane
  <2>2. EntriesTrue'
    BY <1>1, <2>1 DEF EntriesTrue, Holds
  <2> QED BY <1>1, <1>10, <2>2, SameTrue DEF Crash
<1>11. CASE UNCHANGED <<entry, reply>>
  BY <1>1, <1>11, SameTrue
<1>12. \/ UNCHANGED <<entry, reply>>
       \/ \E h \in Handlers : HangUp(h)
       \/ \E w \in Workers, h \in Handlers : RunDirect(w, h)
       \/ \E w \in Workers, r \in Requests : Reserve(w, r) \/ ReadEarlier(w, r)
       \/ \E t \in tasks : Check(t) \/ Send(t) \/ Ran(t)
       \/ \E w \in Workers : Crash(w)
  <2>1. \A c \in Calls, n \in {1, 2} : <<c, n>> \in Handlers
    BY DEF Handlers
  <2> QED
    BY <2>1
    DEF Next, Proceed, Start, Enqueue, Wait, Late, Lookup, Look, Abandon, Reread, LocalRun,
        LaneAnswered, LaneNotSent, LaneUncertain, Claim, Store, Tick, Sweep, SweepExpired,
        SweepLost, SweepPurge, BrokerActs, lane, vars
<1> QED
  BY <1>3, <1>4, <1>7, <1>8, <1>9, <1>10, <1>11, <1>12

\* A call is answered by a step of its own, and only once.
LEMMA ToldOnceStep ==
  ASSUME TypeOK, ToldOnce, [Next]_vars
  PROVE  /\ ToldOnce'
         /\ \A c \in Calls : told'[c] = told[c] \/ told[c] = "none"
<1> DEFINE Goal == /\ ToldOnce'
                   /\ \A c \in Calls : told'[c] = told[c] \/ told[c] = "none"
<1> USE DEF TypeOK, TypeWeb
<1>1. ASSUME NEW c \in Calls, pc[c] # "done", (\E a : Tell(c, a)) \/ (\E from, to : Go(c, from, to))
      PROVE  Goal
  <2>1. told[c] = "none"
    BY <1>1 DEF ToldOnce
  <2>2. CASE \E a : Tell(c, a)
    BY <2>1, <2>2 DEF Tell, ToldOnce
  <2>3. CASE \E from, to : Go(c, from, to)
    BY <2>1, <2>3 DEF Go, ToldOnce
  <2> QED BY <1>1, <2>2, <2>3
<1>2. ASSUME NEW c \in Calls, Start(c)
      PROVE  Goal
  BY <1>1, <1>2 DEF Start
<1>3. ASSUME NEW c \in Calls, Enqueue(c) \/ Abandon(c) \/ Reread(c) \/ LocalRun(c)
      PROVE  Goal
  BY <1>1, <1>3 DEF Enqueue, Abandon, Reread, LocalRun
<1>4. ASSUME NEW c \in Calls, Wait(c) \/ Late(c) \/ Lookup(c)
      PROVE  Goal
  BY <1>1, <1>4 DEF Wait, Late, Lookup, Look
<1>5. ASSUME NEW c \in Calls, NEW n \in {1, 2},
             LaneAnswered(c, n) \/ LaneNotSent(c, n) \/ LaneUncertain(c, n)
      PROVE  Goal
  <2>1. pc[c] # "done"
    BY <1>5 DEF LaneAnswered, LaneNotSent, LaneUncertain, Lane, Go
  <2> QED BY <1>1, <1>5, <2>1 DEF LaneAnswered, LaneNotSent, LaneUncertain
<1>6. CASE UNCHANGED web
  BY <1>6 DEF web, ToldOnce
<1>7. (\E c \in Calls : Start(c) \/ Proceed(c)) \/ UNCHANGED web
  BY DEF Next, Claim, Reserve, ReadEarlier, RunDirect, Crash, Check, Send, Ran, Store, Tick,
         Sweep, SweepExpired, SweepLost, SweepPurge, BrokerActs, vars
<1>8. ASSUME NEW c \in Calls, Proceed(c)
      PROVE  Goal
  <2> HIDE DEF Goal
  <2> QED BY <1>3, <1>4, <1>5, <1>8 DEF Proceed
<1>9. CASE \E c \in Calls : Start(c) \/ Proceed(c)
  <2>1. PICK c \in Calls : Start(c) \/ Proceed(c)
    BY <1>9
  <2>2. CASE Start(c)
    BY <1>2, <2>2
  <2>3. CASE Proceed(c)
    BY <1>8, <2>3
  <2> QED BY <2>1, <2>2, <2>3
<1> QED BY <1>6, <1>7, <1>9

\* Nothing is told, stored or on its way at the start.
LEMMA InvInit == Init => Inv
<1> SUFFICES ASSUME Init PROVE Inv
  OBVIOUS
<1>1. TypeOK /\ NoLocal /\ ToldOnce
  BY GatewayAssumption
  DEF Init, GatewayAssumption, TypeOK, TypeDb, TypeWeb, TypeLane, TypeBroker, NoLocal, ToldOnce
<1>2. Reserved /\ Single /\ OneOrder
  BY DEF Init, Reserved, Single, OneOrder, Untouched
<1>3. TaskTrue /\ RowTrue
  BY DEF Init, TaskTrue, RowTrue, Finished
<1>4. EntriesTrue
  BY DEF Init, EntriesTrue, Holds
<1>5. RepliesTrue
  BY DEF Init, RepliesTrue, Holds
<1>6. ToldTrue
  BY DEF Init, ToldTrue, Holds
<1> QED BY <1>1, <1>2, <1>3, <1>4, <1>5, <1>6 DEF Inv

\* Inv is inductive.
LEMMA InvStep == ASSUME ~LocalBridge PROVE Inv /\ [Next]_vars => Inv'
  BY GatewayAssumption, TypeStep, NoLocalStep, ToldOnceStep, ReservedStep, StepAdvances, OneOrderStep,
     TaskTrueStep, RowTrueStep, LaneStep, ToldStep
  DEF Inv

\* Nobody is ever told something false about an order, and nothing that follows
\* makes an answer false later.
THEOREM AnswersAreTruthful == ASSUME ~LocalBridge PROVE Spec => []TruthfulAnswers
<1>1. Inv => TruthfulAnswers
  BY DEF Inv, ToldTrue, Holds, Never, TruthfulAnswers
<1> QED BY <1>1, InvInit, InvStep, PTL DEF Spec

\* The stored history agrees with the broker.
THEOREM RowsAreTruthful == ASSUME ~LocalBridge PROVE Spec => []TruthfulRows
<1>1. Inv => TruthfulRows
  BY DEF Inv, RowTrue, Holds, Never, TruthfulRows
<1> QED BY <1>1, InvInit, InvStep, PTL DEF Spec

-----------------------------------------------------------------------------
(* The gateway implements TradeOrder.                                      *)

\* The fate of a request only moves on.
LEMMA FateMoves ==
  ASSUME Inv, Reserved', NEW r \in Requests, Advance(r)
  PROVE  Promise!Becomes(Fate(r), Fate(r)')
<1>1. /\ placed[r] \in Nat /\ inflight[r] \in Nat
      /\ verdict[r] \in {"none", "ok", "refused"}
      /\ placed[r] + inflight[r] <= 1
      /\ verdict[r] = "ok" => placed[r] = 1
      /\ verdict[r] = "refused" => placed[r] = 0 /\ inflight[r] = 0
      /\ Unsent(r) \/ Queued(r) => placed[r] = 0 /\ inflight[r] = 0 /\ verdict[r] = "none"
  BY DEF Inv, TypeOK, TypeBroker, OneOrder, Untouched
<1>2. Dead(r) <=> ~Unsent(r) /\ ~Queued(r)
  BY DEF Dead, Unsent, Queued
<1>3. Dead(r)' <=> ~Unsent(r)' /\ ~Queued(r)'
  BY DEF Dead, Unsent, Queued
<1>4. Dead(r) => Dead(r)'
  BY <1>2, <1>3 DEF Advance
<1>5. CASE placed'[r] = placed[r] /\ inflight'[r] = inflight[r] /\ verdict'[r] = verdict[r]
  BY <1>4, <1>5 DEF Fate, Promise!Becomes
<1>6. CASE /\ Queued(r) /\ ~Queued(r)'
           /\ placed'[r] = placed[r] /\ inflight'[r] = inflight[r] + 1 /\ verdict'[r] = verdict[r]
  <2>1. Fate(r) = "open"
    BY <1>1, <1>2, <1>6 DEF Fate
  <2>2. Fate(r)' = "sent"
    BY <1>1, <1>6 DEF Fate
  <2> QED BY <2>1, <2>2 DEF Promise!Becomes
<1>7. CASE /\ inflight[r] > 0 /\ inflight'[r] = inflight[r] - 1
           /\ \/ placed'[r] = placed[r] + 1 /\ verdict'[r] = "ok"
              \/ placed'[r] = placed[r] /\ verdict'[r] = "refused"
  <2>1. inflight[r] = 1 /\ placed[r] = 0
    BY <1>1, <1>7
  <2>2. Fate(r) = "sent"
    BY <2>1 DEF Fate
  <2>3. Fate(r)' = "placed" \/ Fate(r)' = "refused"
    BY <1>7, <2>1 DEF Fate
  <2> QED BY <2>2, <2>3 DEF Promise!Becomes
<1> QED BY <1>5, <1>6, <1>7 DEF Advance

\* Each answer is one the fate of the order allows.
LEMMA ToldFits ==
  ASSUME Inv, NEW c \in Calls
  PROVE  Promise!True(told[c], Fate(ReqOf[c]))
<1> DEFINE r == ReqOf[c]
<1>1. Holds(told[c], r) /\ r \in Requests
  BY GatewayAssumption DEF Inv, ToldTrue, GatewayAssumption
<1>2. told[c] = "ok" => Fate(r) = "placed"
  BY <1>1 DEF Holds, Fate
<1>3. Never(r) => placed[r] = 0 /\ inflight[r] = 0 /\ Dead(r)
  BY DEF Never, Dead, Unsent, Queued
<1>4. told[c] = "not_sent" => Fate(r) = "dead"
  BY <1>1, <1>3 DEF Holds, Fate
<1>5. told[c] = "refused" => Fate(r) \in {"refused", "dead"}
  BY <1>1, <1>3 DEF Holds, Fate
<1> QED BY <1>2, <1>4, <1>5 DEF Promise!True

\* At every moment, and so after every step, all answers given fit.
LEMMA EveryAnswerFits == Inv => \A c \in Calls : Promise!True(told[c], Fate(ReqOf[c]))
  BY ToldFits

\* The tables, lanes, retries and crashes of the gateway are invisible: to the
\* person it is an order that is sent at most once, and answers that are true.
THEOREM GatewayKeepsPromise == ASSUME ~LocalBridge PROVE Spec => ImplementsTradeOrder
<1>1. Init => Promise!OInit
  BY DEF Init, Promise!OInit, Fate, Dead
<1>2. Inv /\ Inv' /\ [Next]_vars => [Promise!ONext]_Promise!orderVars
  <2> SUFFICES ASSUME Inv, Inv', [Next]_vars
               PROVE  Promise!ONext
    OBVIOUS
  <2>1. \A r \in Requests : Promise!Becomes(Fate(r), Fate(r)')
    BY FateMoves, StepAdvances DEF Inv
  <2>2. \A c \in Calls : ReqOf[c] \in Requests
    BY GatewayAssumption DEF GatewayAssumption
  <2>3. \A c \in Calls : told'[c] = told[c] \/ told[c] = "none"
    BY ToldOnceStep DEF Inv
  <2>4. (\A c \in Calls : Promise!True(told[c], Fate(ReqOf[c])))'
    BY EveryAnswerFits, PTL
  <2> QED BY <2>1, <2>2, <2>3, <2>4 DEF Promise!ONext
<1> QED BY <1>1, <1>2, InvInit, InvStep, PTL DEF Spec, ImplementsTradeOrder, Promise!OSpec
=============================================================================
