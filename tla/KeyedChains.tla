----------------------------- MODULE KeyedChains -----------------------------
(***************************************************************************)
(* KeyedChains (src/lib/copy/keyedChains.ts): work that runs in order for  *)
(* one key - a broker account, a master position - and in parallel across  *)
(* keys, at most MaxConcurrent tasks at once.  The gateway worker, its     *)
(* picture refresh and the copy worker all queue their broker calls here.  *)
(*                                                                         *)
(* JavaScript runs one callback at a time, so what a callback does up to   *)
(* its next await is one action; every continuation of a promise is an     *)
(* action of its own, because other callbacks run in between.              *)
(***************************************************************************)
EXTENDS Naturals, Sequences, FiniteSets

CONSTANTS
  Tasks,          \* the calls of run() that may happen
  Keys,
  KeyOf,          \* KeyOf[t]: the key of a task
  NoTask,         \* no entry of tails
  MaxConcurrent   \* the cap; no fewer than |Tasks| is Number.POSITIVE_INFINITY

ASSUME ChainsAssumption ==
  /\ IsFiniteSet(Tasks)
  /\ KeyOf \in [Tasks -> Keys]
  /\ NoTask \notin Tasks
  /\ MaxConcurrent \in Nat \ {0}

VARIABLES
  phase,     \* how far each task is
  previous,  \* the task whose promise each task was chained to
  turn,      \* history: which call of run() queued a task, 0 for none
  calls,     \* history: calls of run() so far
  tails,     \* the map of the last promise of each key
  active,    \* the counter of running tasks
  waiting,   \* the tasks that wait for a slot
  idler,     \* one call of idle(): how far it is
  awaited    \* the promises it waits for

queue == <<previous, turn, calls, tails>>
slots == <<active, waiting>>
idle  == <<idler, awaited>>
vars  == <<phase, queue, slots, idle>>

\* The promise of the task is resolved: what is chained to it may go on.
Resolved(t) == phase[t] \in {"done", "forgotten"}

Begun(t) == phase[t] \notin {"new", "queued"}

Init ==
  /\ phase = [t \in Tasks |-> "new"]
  /\ previous = [t \in Tasks |-> NoTask]
  /\ turn = [t \in Tasks |-> 0]
  /\ calls = 0
  /\ tails = [k \in Keys |-> NoTask]
  /\ active = 0
  /\ waiting = <<>>
  /\ idler = "no"
  /\ awaited = {}

To(t, next) == phase' = [phase EXCEPT ![t] = next]

\* run(): chain the task to the tail of its key and become the tail.
Run(t) ==
  /\ phase[t] = "new"
  /\ To(t, "queued")
  /\ previous' = [previous EXCEPT ![t] = tails[KeyOf[t]]]
  /\ calls' = calls + 1
  /\ turn' = [turn EXCEPT ![t] = calls + 1]
  /\ tails' = [tails EXCEPT ![KeyOf[t]] = t]
  /\ UNCHANGED <<slots, idle>>

\* previous.then: acquire() takes a free slot or waits for one.
Acquire(t) ==
  /\ phase[t] = "queued"
  /\ previous[t] # NoTask => Resolved(previous[t])
  /\ \/ /\ active < MaxConcurrent
        /\ active' = active + 1
        /\ To(t, "granted")
        /\ UNCHANGED waiting
     \/ /\ active >= MaxConcurrent
        /\ waiting' = Append(waiting, t)
        /\ To(t, "slot")
        /\ UNCHANGED active
  /\ UNCHANGED <<queue, idle>>

\* The promise of acquire() is resolved: the task itself starts.
Begin(t) ==
  /\ phase[t] = "granted"
  /\ To(t, "running")
  /\ UNCHANGED <<queue, slots, idle>>

\* Mutant of Finish: the slot is freed, but nobody who waits is woken.
FinishSilently(t) ==
  /\ phase[t] = "running"
  /\ To(t, "released")
  /\ active' = active - 1
  /\ UNCHANGED <<queue, waiting, idle>>

\* Mutant of Finish: the woken task does not count itself.
FinishUncounted(t) ==
  /\ phase[t] = "running"
  /\ active' = active - 1
  /\ \/ /\ waiting = <<>>
        /\ To(t, "released")
        /\ UNCHANGED waiting
     \/ /\ waiting # <<>>
        /\ phase' = [phase EXCEPT ![t] = "released", ![Head(waiting)] = "granted"]
        /\ waiting' = Tail(waiting)
  /\ UNCHANGED <<queue, idle>>

\* The task ends, well or with an error: release() in the same callback frees
\* the slot and hands it to the first that waits.
Finish(t) ==
  /\ phase[t] = "running"
  /\ \/ /\ waiting = <<>>
        /\ active' = IF active > 0 THEN active - 1 ELSE 0
        /\ To(t, "released")
        /\ UNCHANGED waiting
     \/ /\ waiting # <<>>
        /\ active' = (IF active > 0 THEN active - 1 ELSE 0) + 1
        /\ phase' = [phase EXCEPT ![t] = "released", ![Head(waiting)] = "granted"]
        /\ waiting' = Tail(waiting)
  /\ UNCHANGED <<queue, idle>>

\* The promise that run() returned is resolved.
Resolve(t) ==
  /\ phase[t] = "released"
  /\ To(t, "done")
  /\ UNCHANGED <<queue, slots, idle>>

\* Mutant of Forget: the key is deleted whoever is its tail.
ForgetAnyTail(t) ==
  /\ phase[t] = "done"
  /\ To(t, "forgotten")
  /\ tails' = [tails EXCEPT ![KeyOf[t]] = NoTask]
  /\ UNCHANGED <<previous, turn, calls, slots, idle>>

\* current.then: a key whose last task has finished is forgotten.
Forget(t) ==
  /\ phase[t] = "done"
  /\ To(t, "forgotten")
  /\ tails' = IF tails[KeyOf[t]] = t THEN [tails EXCEPT ![KeyOf[t]] = NoTask] ELSE tails
  /\ UNCHANGED <<previous, turn, calls, slots, idle>>

\* What is in the map: idle() waits for these.
Queued == {tails[k] : k \in Keys} \ {NoTask}

\* Mutant of IdleLook: idle() waits once, not until the map is empty.
IdleLookOnce ==
  /\ \/ /\ idler = "no"
        /\ idler' = "waiting"
        /\ awaited' = Queued
     \/ /\ idler = "waiting"
        /\ \A t \in awaited : Resolved(t)
        /\ idler' = "resolved"
        /\ awaited' = {}
  /\ UNCHANGED <<phase, queue, slots>>

\* idle(): while the map is not empty, wait for all that is in it.
IdleLook ==
  /\ idler \in {"no", "waiting"}
  /\ \A t \in awaited : Resolved(t)
  /\ IF Queued = {} THEN idler' = "resolved" ELSE idler' = "waiting"
  /\ awaited' = Queued
  /\ UNCHANGED <<phase, queue, slots>>

Next ==
  \/ \E t \in Tasks : Run(t) \/ Acquire(t) \/ Begin(t) \/ Finish(t) \/ Resolve(t) \/ Forget(t)
  \/ IdleLook

Spec == Init /\ [][Next]_vars

\* The event loop runs every continuation that is due, and every task ends:
\* the broker calls queued here carry timeouts.  Nobody has to call run().
Fairness ==
  /\ \A t \in Tasks :
       /\ WF_vars(Acquire(t)) /\ WF_vars(Begin(t)) /\ WF_vars(Finish(t))
       /\ WF_vars(Resolve(t)) /\ WF_vars(Forget(t))
  /\ WF_vars(IdleLook)

FairSpec == Spec /\ Fairness

-----------------------------------------------------------------------------
\* Every variable has its type; the counter stays within the cap.
TypeOK ==
  /\ phase \in [Tasks -> {"new", "queued", "slot", "granted", "running",
                          "released", "done", "forgotten"}]
  /\ previous \in [Tasks -> Tasks \cup {NoTask}]
  /\ turn \in [Tasks -> Nat]
  /\ calls \in Nat
  /\ tails \in [Keys -> Tasks \cup {NoTask}]
  /\ active \in 0..MaxConcurrent
  /\ waiting \in Seq(Tasks)
  /\ idler \in {"no", "waiting", "resolved"}
  /\ awaited \subseteq Tasks

Holding == {t \in Tasks : phase[t] \in {"granted", "running"}}

\* "OPEN, MODIFY and CLOSE of the same ticket run one after the other": a task
\* does not even ask for a slot before every earlier task of its key has ended
\* - although finished keys are forgotten while newer tasks are being queued.
InOrder ==
  \A t, u \in Tasks :
    (KeyOf[t] = KeyOf[u] /\ 0 < turn[u] /\ turn[u] < turn[t] /\ Begun(t)) => Resolved(u)

\* The counter is exact - no slot is lost or given twice, however slots are
\* handed over - and nobody waits while a slot is free.
SlotsExact ==
  /\ active = Cardinality(Holding)
  /\ waiting # <<>> => active = MaxConcurrent

\* "Resolves when everything queued so far (and whatever that queues in turn)
\* has finished": when idle() resolves no task is queued, waiting or running,
\* so a worker that stops does not cut off an order.
IdleMeansDone ==
  [][idler' = "resolved" /\ idler # "resolved" =>
       \A t \in Tasks : phase[t] = "new" \/ Resolved(t)]_vars

\* Every task that was queued ends, and its key is forgotten.
EveryTaskEnds == \A t \in Tasks : phase[t] = "queued" ~> phase[t] = "forgotten"
=============================================================================
