------------------------- MODULE AccountOrdersProofs -------------------------
(***************************************************************************)
(* Theorems about KeyedChains, for any finite number of tasks, any keys    *)
(* and any cap; about BrokerCall, for any number of repeats, where an      *)
(* error answer never hides an order that ran (~Unclear); and about the    *)
(* two of them together in AccountOrders, which keeps what either promises *)
(* and adds that calls of one account do not overlap.                      *)
(***************************************************************************)
EXTENDS AccountOrders, FiniteSetTheorems, TLAPS

-----------------------------------------------------------------------------
(* The slots of the chains.                                                *)

\* Exactly the tasks that wait for a slot are in the queue, each of them once.
WaitingTasks ==
  /\ \A i \in 1..Len(waiting) : phase[waiting[i]] = "slot"
  /\ \A i, j \in 1..Len(waiting) : waiting[i] = waiting[j] => i = j

SInv == TypeOK /\ WaitingTasks /\ SlotsExact

\* The tasks that hold a slot are finitely many.
LEMMA HoldingFinite == IsFiniteSet(Holding)
<1>1. Holding \subseteq Tasks
  BY DEF Holding
<1> QED BY <1>1, FS_Subset, ChainsAssumption DEF ChainsAssumption

\* The first that waits waits for a slot, and the others go on waiting.
LEMMA FirstWaiting ==
  ASSUME TypeOK, WaitingTasks, waiting # <<>>
  PROVE  /\ Head(waiting) \in Tasks
         /\ phase[Head(waiting)] = "slot"
         /\ \A i \in 1..Len(Tail(waiting)) :
              Tail(waiting)[i] # Head(waiting) /\ phase[Tail(waiting)[i]] = "slot"
         /\ \A i, j \in 1..Len(Tail(waiting)) : Tail(waiting)[i] = Tail(waiting)[j] => i = j
<1>1. waiting \in Seq(Tasks) /\ Len(waiting) \in Nat \ {0}
  BY DEF TypeOK
<1>2. Head(waiting) = waiting[1] /\ 1 \in 1..Len(waiting)
  BY <1>1
<1>3. Len(Tail(waiting)) = Len(waiting) - 1
  BY <1>1
<1>4. ASSUME NEW i \in 1..Len(Tail(waiting))
      PROVE  Tail(waiting)[i] = waiting[i + 1] /\ i + 1 \in 1..Len(waiting) /\ i + 1 # 1
  BY <1>1, <1>3
<1>5. Head(waiting) \in Tasks
  BY <1>1
<1> QED BY <1>2, <1>4, <1>5 DEF WaitingTasks

\* No step loses or doubles a slot.
LEMMA SlotsStep ==
  ASSUME SInv, [Next]_vars
  PROVE  SInv'
<1> USE DEF SInv
<1>1. IsFiniteSet(Holding) /\ Cardinality(Holding) \in Nat /\ active = Cardinality(Holding)
  BY HoldingFinite, FS_CardinalityType DEF SlotsExact
<1>2. ASSUME NEW t \in Tasks, Run(t)
      PROVE  SInv'
  <2>1. TypeOK'
    <3>1. KeyOf[t] \in Keys
      BY ChainsAssumption DEF ChainsAssumption
    <3>2. tails' \in [Keys -> Tasks \cup {NoTask}]
      BY <1>2 DEF Run, TypeOK
    <3>3. previous' \in [Tasks -> Tasks \cup {NoTask}]
      BY <1>2, <3>1 DEF Run, TypeOK
    <3> QED BY <1>2, <3>2, <3>3 DEF Run, To, TypeOK, slots, idle
  <2>2. Holding' = Holding /\ WaitingTasks'
    BY <1>2 DEF Run, To, TypeOK, slots, Holding, WaitingTasks
  <2> QED BY <1>2, <2>1, <2>2 DEF Run, slots, SlotsExact
<1>3. ASSUME NEW t \in Tasks, Acquire(t)
      PROVE  SInv'
  <2>1. t \notin Holding /\ \A i \in 1..Len(waiting) : waiting[i] # t
    BY <1>3 DEF Acquire, Holding, WaitingTasks
  <2>2. CASE /\ active < MaxConcurrent
             /\ active' = active + 1
             /\ To(t, "granted")
             /\ UNCHANGED waiting
    <3>1. TypeOK'
      BY <1>3, <2>2, ChainsAssumption DEF Acquire, To, TypeOK, queue, idle, ChainsAssumption
    <3>2. Holding' = Holding \cup {t}
      BY <2>2 DEF To, Holding, TypeOK
    <3>3. Cardinality(Holding') = Cardinality(Holding) + 1
      BY <1>1, <2>1, <3>2, FS_AddElement
    <3>4. WaitingTasks' /\ waiting' = <<>>
      BY <2>2 DEF TypeOK, SlotsExact, WaitingTasks
    <3> QED BY <1>1, <2>2, <3>1, <3>3, <3>4 DEF SlotsExact
  <2>3. CASE /\ active >= MaxConcurrent
             /\ waiting' = Append(waiting, t)
             /\ To(t, "slot")
             /\ UNCHANGED active
    <3>1. TypeOK'
      BY <1>3, <2>3 DEF Acquire, To, TypeOK, queue, idle
    <3>2. Holding' = Holding
      BY <2>1, <2>3 DEF To, Holding, TypeOK
    <3>3. WaitingTasks'
      <4>1. waiting \in Seq(Tasks) /\ Len(waiting) \in Nat /\ Len(waiting') = Len(waiting) + 1
        BY <2>3 DEF TypeOK
      <4>2. \A i \in 1..Len(waiting') : waiting'[i] = IF i \in 1..Len(waiting) THEN waiting[i] ELSE t
        BY <2>3, <4>1
      <4>3. \A i \in 1..Len(waiting') : i \in 1..Len(waiting) \/ i = Len(waiting) + 1
        BY <4>1
      <4>4. \A i \in 1..Len(waiting) : phase'[waiting[i]] = phase[waiting[i]]
        BY <2>1, <2>3, <4>1 DEF To, TypeOK
      <4>5. phase'[t] = "slot"
        BY <2>3 DEF To, TypeOK
      <4> QED BY <2>1, <4>2, <4>3, <4>4, <4>5 DEF WaitingTasks
    <3>4. active' = MaxConcurrent
      BY <2>3, ChainsAssumption DEF TypeOK, ChainsAssumption
    <3> QED BY <1>1, <2>3, <3>1, <3>2, <3>3, <3>4 DEF SlotsExact
  <2> QED BY <1>3, <2>2, <2>3 DEF Acquire
<1>4. ASSUME NEW t \in Tasks, Begin(t) \/ Resolve(t) \/ Forget(t)
      PROVE  SInv'
  <2>1. TypeOK'
    BY <1>4 DEF Begin, Resolve, Forget, To, TypeOK, queue, slots, idle
  <2>2. Holding' = Holding
    BY <1>4 DEF Begin, Resolve, Forget, To, TypeOK, Holding
  <2>3. WaitingTasks'
    BY <1>4 DEF Begin, Resolve, Forget, To, TypeOK, slots, WaitingTasks
  <2> QED BY <1>4, <2>1, <2>2, <2>3 DEF Begin, Resolve, Forget, slots, SlotsExact
<1>5. ASSUME NEW t \in Tasks, Finish(t)
      PROVE  SInv'
  <2>1. t \in Holding /\ active > 0
    <3>1. t \in Holding
      BY <1>5 DEF Finish, Holding
    <3>2. Holding # {}
      BY <3>1
    <3>3. Cardinality(Holding) # 0
      BY <1>1, <3>2, FS_EmptySet
    <3> QED BY <1>1, <3>1, <3>3
  <2>2. IsFiniteSet(Holding \ {t}) /\ Cardinality(Holding \ {t}) = active - 1
    BY <1>1, <2>1, FS_RemoveElement
  <2>3. CASE /\ waiting = <<>>
             /\ active' = active - 1
             /\ To(t, "released")
             /\ UNCHANGED waiting
    <3>1. TypeOK'
      BY <1>5, <2>1, <2>3, ChainsAssumption DEF Finish, To, TypeOK, queue, idle, ChainsAssumption
    <3>2. Holding' = Holding \ {t}
      BY <2>3 DEF To, TypeOK, Holding
    <3>3. WaitingTasks'
      BY <2>3 DEF WaitingTasks
    <3> QED BY <2>2, <2>3, <3>1, <3>2, <3>3 DEF SlotsExact
  <2>4. CASE /\ waiting # <<>>
             /\ active' = (active - 1) + 1
             /\ phase' = [phase EXCEPT ![t] = "released", ![Head(waiting)] = "granted"]
             /\ waiting' = Tail(waiting)
    <3> DEFINE h == Head(waiting)
    <3>1. h \in Tasks /\ phase[h] = "slot" /\ h # t
      BY <1>5, <2>4, FirstWaiting DEF Finish
    <3>2. active' = active
      BY <2>4 DEF TypeOK
    <3>3. phase' = [u \in Tasks |-> IF u = h THEN "granted" ELSE IF u = t THEN "released" ELSE phase[u]]
      BY <2>4, <3>1 DEF TypeOK
    <3>4. waiting' \in Seq(Tasks)
      BY <2>4 DEF TypeOK
    <3>5. TypeOK'
      BY <1>5, <3>2, <3>3, <3>4 DEF Finish, TypeOK, queue, idle
    <3>6. Holding' = (Holding \ {t}) \cup {h}
      BY <3>1, <3>3 DEF Holding
    <3>7. h \notin Holding \ {t}
      BY <3>1 DEF Holding
    <3>8. Cardinality(Holding') = active'
      <4>1. Cardinality((Holding \ {t}) \cup {h}) = Cardinality(Holding \ {t}) + 1
        BY <2>2, <3>7, FS_AddElement
      <4>2. active \in Nat
        BY <1>1
      <4> HIDE DEF h
      <4> QED BY <2>2, <3>2, <3>6, <4>1, <4>2
    <3>9. WaitingTasks'
      <4>1. \A i \in 1..Len(Tail(waiting)) : Tail(waiting)[i] \in Tasks
        BY <2>4, <3>4
      <4>2. \A i \in 1..Len(Tail(waiting)) : Tail(waiting)[i] # t
        BY <1>5, <2>4, FirstWaiting DEF Finish
      <4> QED BY <2>4, <3>3, <4>1, <4>2, FirstWaiting DEF WaitingTasks
    <3> QED BY <2>4, <3>2, <3>5, <3>8, <3>9 DEF SlotsExact
  <2> QED BY <1>5, <2>1, <2>3, <2>4 DEF Finish
<1>6. CASE IdleLook
  <2>1. TypeOK'
    BY <1>6 DEF IdleLook, TypeOK, queue, slots, Queued
  <2>2. Holding' = Holding /\ WaitingTasks'
    BY <1>6 DEF IdleLook, slots, Holding, WaitingTasks
  <2> QED BY <1>6, <2>1, <2>2 DEF IdleLook, slots, SlotsExact
<1>7. CASE UNCHANGED vars
  <2>1. TypeOK'
    BY <1>7 DEF vars, TypeOK, queue, slots, idle
  <2>2. Holding' = Holding /\ WaitingTasks'
    BY <1>7 DEF vars, slots, Holding, WaitingTasks
  <2> QED BY <1>7, <2>1, <2>2 DEF vars, slots, SlotsExact
<1> QED BY <1>2, <1>3, <1>4, <1>5, <1>6, <1>7 DEF Next

\* At the start every slot is free.
LEMMA SlotsInit == Init => SInv
<1> SUFFICES ASSUME Init PROVE SInv
  OBVIOUS
<1>1. TypeOK /\ WaitingTasks
  BY ChainsAssumption DEF Init, TypeOK, WaitingTasks, ChainsAssumption
<1>2. Holding = {}
  BY DEF Init, Holding
<1> QED BY <1>1, <1>2, FS_EmptySet DEF Init, SInv, SlotsExact

\* The counter is the number of tasks that hold a slot, never more than the
\* cap, and nobody waits while a slot is free.
THEOREM SlotsAreExact == Spec => [](TypeOK /\ SlotsExact)
<1>1. SInv => TypeOK /\ SlotsExact
  BY DEF SInv
<1>2. SInv /\ [Next]_vars => SInv'
  BY SlotsStep
<1> QED BY <1>1, <1>2, SlotsInit, PTL DEF Spec

-----------------------------------------------------------------------------
(* The order of the chains.                                                *)

\* Calls of run() are numbered as they come.
Turns ==
  /\ \A t \in Tasks : (phase[t] = "new" <=> turn[t] = 0) /\ turn[t] <= calls
  /\ \A t, u \in Tasks : turn[t] = turn[u] /\ turn[t] # 0 => t = u

\* The entry of a key in the map is the task of the key that was queued last;
\* a key without entry has no task that is not finished.
TailIsLast ==
  \A k \in Keys : \A u \in Tasks :
    (KeyOf[u] = k /\ turn[u] > 0) =>
      IF tails[k] = NoTask THEN Resolved(u)
      ELSE turn[u] <= turn[tails[k]]

\* The entry of a key is a task of that key.
TailIsQueued ==
  \A k \in Keys : tails[k] # NoTask => KeyOf[tails[k]] = k /\ turn[tails[k]] > 0

\* A task is chained to the last task queued before it under its key, unless
\* all of those have finished.
ChainedToLast ==
  \A t, u \in Tasks :
    (KeyOf[t] = KeyOf[u] /\ 0 < turn[u] /\ turn[u] < turn[t]) =>
      IF previous[t] = NoTask THEN Resolved(u)
      ELSE /\ KeyOf[previous[t]] = KeyOf[t]
           /\ turn[u] <= turn[previous[t]]
           /\ turn[previous[t]] < turn[t]

OInv == Turns /\ TailIsLast /\ TailIsQueued /\ ChainedToLast /\ InOrder

\* A task that has begun or ended stays so, and only run() gives out numbers.
LEMMA PhasesMoveOn ==
  ASSUME SInv, [Next]_vars, \A t \in Tasks : ~Run(t)
  PROVE  /\ UNCHANGED <<previous, turn, calls>>
         /\ \A t \in Tasks : Resolved(t) => Resolved(t)'
         /\ \A t \in Tasks : phase'[t] = "new" <=> phase[t] = "new"
<1> USE DEF SInv, TypeOK, Resolved
<1>1. ASSUME NEW t \in Tasks, Acquire(t) \/ Begin(t) \/ Resolve(t) \/ Forget(t)
      PROVE  /\ UNCHANGED <<previous, turn, calls>>
             /\ \A u \in Tasks : Resolved(u) => Resolved(u)'
             /\ \A u \in Tasks : phase'[u] = "new" <=> phase[u] = "new"
  BY <1>1 DEF Acquire, Begin, Resolve, Forget, To, queue
<1>2. ASSUME NEW t \in Tasks, Finish(t)
      PROVE  /\ UNCHANGED <<previous, turn, calls>>
             /\ \A u \in Tasks : Resolved(u) => Resolved(u)'
             /\ \A u \in Tasks : phase'[u] = "new" <=> phase[u] = "new"
  BY <1>2, FirstWaiting DEF Finish, To, queue
<1>3. CASE IdleLook \/ UNCHANGED vars
  BY <1>3 DEF IdleLook, vars, queue
<1> QED BY <1>1, <1>2, <1>3 DEF Next

\* Only asking for a slot begins a task.
LEMMA BegunByAcquire ==
  ASSUME SInv, [Next]_vars, NEW t \in Tasks, Begun(t)', ~Begun(t)
  PROVE  Acquire(t)
<1> USE DEF SInv, TypeOK, Begun
<1>1. ASSUME NEW u \in Tasks, Run(u) \/ Begin(u) \/ Resolve(u) \/ Forget(u)
      PROVE  FALSE
  BY <1>1 DEF Run, Begin, Resolve, Forget, To
<1>2. ASSUME NEW u \in Tasks, Finish(u)
      PROVE  FALSE
  BY <1>2, FirstWaiting DEF Finish, To
<1>3. ASSUME NEW u \in Tasks, Acquire(u)
      PROVE  u = t
  BY <1>3 DEF Acquire, To
<1>4. ~IdleLook /\ ~UNCHANGED vars
  BY DEF IdleLook, vars
<1> QED BY <1>1, <1>2, <1>3, <1>4 DEF Next

\* Only its own end forgets the entry of a key.
LEMMA TailsMoveOn ==
  ASSUME SInv, [Next]_vars, \A t \in Tasks : ~Run(t), NEW k \in Keys
  PROVE  \/ tails'[k] = tails[k]
         \/ tails'[k] = NoTask /\ tails[k] \in Tasks /\ Resolved(tails[k])
<1>1. ASSUME NEW t \in Tasks, Forget(t)
      PROVE  \/ tails'[k] = tails[k]
             \/ tails'[k] = NoTask /\ tails[k] \in Tasks /\ Resolved(tails[k])
  BY <1>1 DEF Forget, SInv, TypeOK, Resolved
<1>2. UNCHANGED tails \/ \E t \in Tasks : Forget(t)
  BY DEF Next, Acquire, Begin, Finish, Resolve, IdleLook, queue, vars
<1> QED BY <1>1, <1>2

\* run() puts a task behind all tasks of its key.
LEMMA OrderRun ==
  ASSUME SInv, OInv, NEW t \in Tasks, Run(t)
  PROVE  OInv'
<1> USE DEF OInv
<1> DEFINE k == KeyOf[t]
<1>1. /\ phase' = [phase EXCEPT ![t] = "queued"]
      /\ previous' = [previous EXCEPT ![t] = tails[k]]
      /\ calls' = calls + 1
      /\ turn' = [turn EXCEPT ![t] = calls + 1]
      /\ tails' = [tails EXCEPT ![k] = t]
      /\ phase[t] = "new" /\ turn[t] = 0
  BY DEF Run, To, Turns
<1>2. /\ phase = [u \in Tasks |-> phase[u]] /\ previous \in [Tasks -> Tasks \cup {NoTask}]
      /\ turn \in [Tasks -> Nat] /\ calls \in Nat
      /\ tails \in [Keys -> Tasks \cup {NoTask}] /\ k \in Keys /\ NoTask \notin Tasks
      /\ \A u \in Tasks : KeyOf[u] \in Keys
  BY ChainsAssumption DEF ChainsAssumption, SInv, TypeOK
<1>3. turn'[t] = calls + 1 /\ phase'[t] = "queued" /\ previous'[t] = tails[k]
  BY <1>1, <1>2
<1>4. \A u \in Tasks \ {t} : /\ turn'[u] = turn[u] /\ phase'[u] = phase[u]
                            /\ previous'[u] = previous[u] /\ turn[u] <= calls
  BY <1>1, <1>2 DEF Turns
<1>5. \A u \in Tasks \ {t} : (Resolved(u)' <=> Resolved(u)) /\ (Begun(u)' <=> Begun(u))
  BY <1>4 DEF Resolved, Begun
<1>6. Turns'
  BY <1>1, <1>2, <1>3, <1>4 DEF Turns
<1>7. TailIsLast' /\ TailIsQueued'
  <2>1. ASSUME NEW j \in Keys, j # k
        PROVE  tails'[j] = tails[j] /\ (tails[j] # NoTask => tails[j] \in Tasks \ {t})
    BY <1>1, <1>2, <2>1 DEF TailIsQueued
  <2>2. tails'[k] = t
    BY <1>1, <1>2
  <2>3. TailIsQueued'
    BY <1>2, <1>3, <1>4, <2>1, <2>2 DEF TailIsQueued
  <2>4. ASSUME NEW j \in Keys, NEW u \in Tasks, KeyOf[u] = j, turn'[u] > 0
        PROVE  IF tails'[j] = NoTask THEN Resolved(u)' ELSE turn'[u] <= turn'[tails'[j]]
    <3>1. CASE j = k
      BY <1>2, <1>3, <1>4, <2>2, <3>1
    <3>2. CASE j # k
      BY <1>2, <1>4, <1>5, <2>1, <2>4, <3>2 DEF TailIsLast
    <3> QED BY <3>1, <3>2
  <2> QED BY <2>3, <2>4 DEF TailIsLast
<1>8. ChainedToLast'
  <2> SUFFICES ASSUME NEW x \in Tasks, NEW u \in Tasks,
                      KeyOf[x] = KeyOf[u], 0 < turn'[u], turn'[u] < turn'[x]
               PROVE  IF previous'[x] = NoTask THEN Resolved(u)'
                      ELSE /\ KeyOf[previous'[x]] = KeyOf[x]
                           /\ turn'[u] <= turn'[previous'[x]]
                           /\ turn'[previous'[x]] < turn'[x]
    BY DEF ChainedToLast
  <2>1. u # t
    BY <1>2, <1>3, <1>4
  <2>2. CASE x = t
    <3>1. KeyOf[u] = k /\ turn[u] > 0 /\ u \in Tasks \ {t}
      BY <1>4, <2>1, <2>2
    <3>2. CASE tails[k] = NoTask
      BY <1>2, <1>3, <1>5, <2>2, <3>1, <3>2 DEF TailIsLast
    <3>3. CASE tails[k] # NoTask
      <4>1. /\ tails[k] \in Tasks /\ KeyOf[tails[k]] = k /\ turn[tails[k]] > 0
            /\ turn[u] <= turn[tails[k]]
        BY <1>2, <3>1, <3>3 DEF TailIsLast, TailIsQueued
      <4>2. tails[k] # t
        BY <1>1, <4>1
      <4>3. turn'[u] = turn[u] /\ turn'[tails[k]] = turn[tails[k]] /\ turn[tails[k]] <= calls
        BY <1>4, <3>1, <4>1, <4>2
      <4> QED BY <1>2, <1>3, <2>2, <3>3, <4>1, <4>3
    <3> QED BY <3>2, <3>3
  <2>3. CASE x # t
    <3>1. previous'[x] = previous[x] /\ turn'[x] = turn[x] /\ turn'[u] = turn[u]
      BY <1>4, <2>1, <2>3
    <3>2. CASE previous[x] = NoTask
      BY <1>5, <2>1, <3>1, <3>2 DEF ChainedToLast
    <3>3. CASE previous[x] # NoTask
      <4>1. turn[u] <= turn[previous[x]] /\ previous[x] \in Tasks
        BY <1>2, <3>1, <3>3 DEF ChainedToLast
      <4>2. previous[x] # t
        BY <1>1, <1>2, <3>1, <4>1
      <4> QED BY <1>4, <3>1, <3>3, <4>1, <4>2 DEF ChainedToLast
    <3> QED BY <3>2, <3>3
  <2> QED BY <2>2, <2>3
<1>9. InOrder'
  BY <1>2, <1>3, <1>4, <1>5 DEF InOrder, Begun
<1> QED BY <1>6, <1>7, <1>8, <1>9

\* No other step lets a task overtake another of its key.
LEMMA OrderKept ==
  ASSUME SInv, OInv, [Next]_vars, \A t \in Tasks : ~Run(t)
  PROVE  OInv'
<1> USE DEF OInv
<1>1. /\ UNCHANGED <<previous, turn, calls>>
      /\ \A t \in Tasks : Resolved(t) => Resolved(t)'
      /\ \A t \in Tasks : phase'[t] = "new" <=> phase[t] = "new"
  BY PhasesMoveOn
<1>2. /\ previous \in [Tasks -> Tasks \cup {NoTask}] /\ turn \in [Tasks -> Nat]
      /\ tails \in [Keys -> Tasks \cup {NoTask}]
  BY DEF SInv, TypeOK
<1>3. Turns' /\ ChainedToLast'
  BY <1>1 DEF Turns, ChainedToLast
<1>4. ASSUME NEW p \in Tasks, NEW u \in Tasks, Resolved(p),
             KeyOf[u] = KeyOf[p], 0 < turn[u], turn[u] <= turn[p]
      PROVE  Resolved(u)
  <2>1. CASE turn[u] = turn[p]
    BY <1>2, <1>4, <2>1 DEF Turns
  <2>2. CASE turn[u] < turn[p]
    BY <1>4, <2>2 DEF InOrder, Begun, Resolved
  <2> QED BY <1>2, <1>4, <2>1, <2>2
<1>5. TailIsQueued'
  BY <1>1, TailsMoveOn DEF TailIsQueued
<1>6. ASSUME NEW k \in Keys, NEW u \in Tasks, KeyOf[u] = k, turn[u] > 0
      PROVE  IF tails'[k] = NoTask THEN Resolved(u)' ELSE turn[u] <= turn[tails'[k]]
  <2>1. CASE tails'[k] = tails[k]
    BY <1>1, <1>6, <2>1 DEF TailIsLast
  <2>2. CASE tails'[k] = NoTask /\ tails[k] \in Tasks /\ Resolved(tails[k])
    <3>1. tails[k] # NoTask /\ KeyOf[tails[k]] = k
      BY <2>2, ChainsAssumption DEF ChainsAssumption, TailIsQueued
    <3>2. turn[u] <= turn[tails[k]]
      BY <1>6, <3>1 DEF TailIsLast
    <3>3. Resolved(u)
      BY <1>4, <1>6, <2>2, <3>1, <3>2
    <3> QED BY <1>1, <2>2, <3>3
  <2> QED BY TailsMoveOn, <2>1, <2>2
<1>7. TailIsLast'
  BY <1>1, <1>6 DEF TailIsLast
<1>8. ASSUME NEW t \in Tasks, NEW u \in Tasks,
             KeyOf[t] = KeyOf[u], 0 < turn[u], turn[u] < turn[t], Begun(t)'
      PROVE  Resolved(u)'
  <2>1. CASE Begun(t)
    BY <1>1, <1>8, <2>1 DEF InOrder
  <2>2. CASE ~Begun(t)
    <3>1. previous[t] # NoTask => Resolved(previous[t])
      BY <1>8, <2>2, BegunByAcquire DEF Acquire
    <3>2. CASE previous[t] = NoTask
      BY <1>1, <1>8, <3>2 DEF ChainedToLast
    <3>3. CASE previous[t] # NoTask
      <4>1. /\ previous[t] \in Tasks
            /\ KeyOf[u] = KeyOf[previous[t]] /\ turn[u] <= turn[previous[t]]
        BY <1>2, <1>8, <3>3 DEF ChainedToLast
      <4>2. Resolved(u)
        BY <1>4, <1>8, <3>1, <3>3, <4>1
      <4> QED BY <1>1, <4>2
    <3> QED BY <3>2, <3>3
  <2> QED BY <2>1, <2>2
<1>9. InOrder'
  BY <1>1, <1>8 DEF InOrder
<1> QED BY <1>3, <1>5, <1>7, <1>9

\* Nothing is queued at the start.
LEMMA OrderInit == Init => OInv
  BY DEF Init, OInv, Turns, TailIsLast, TailIsQueued, ChainedToLast, InOrder

\* Slots and order are kept together.
LEMMA ChainsInductive == SInv /\ OInv /\ [Next]_vars => (SInv /\ OInv)'
  BY SlotsStep, OrderRun, OrderKept

\* Tasks of one key run one after the other, in the order of their calls: a
\* CLOSE never overtakes the OPEN it belongs to.
THEOREM TasksRunInOrder == Spec => []InOrder
<1>1. OInv => InOrder
  BY DEF OInv
<1> QED BY <1>1, SlotsInit, OrderInit, ChainsInductive, PTL DEF Spec

\* When idle() resolves, nothing that was queued is unfinished.
THEOREM IdleWaitsForAll == Spec => IdleMeansDone
<1>1. ASSUME SInv, OInv, [Next]_vars, idler' = "resolved", idler # "resolved", NEW t \in Tasks
      PROVE  phase[t] = "new" \/ Resolved(t)
  <2>1. Queued = {}
    BY <1>1 DEF Next, Run, Acquire, Begin, Finish, Resolve, Forget, IdleLook, idle, vars
  <2>2. KeyOf[t] \in Keys
    BY ChainsAssumption DEF ChainsAssumption
  <2>3. tails[KeyOf[t]] = NoTask
    BY <2>1, <2>2 DEF Queued
  <2>4. turn[t] \in Nat
    BY <1>1 DEF SInv, TypeOK
  <2> QED BY <1>1, <2>2, <2>3, <2>4 DEF OInv, TailIsLast, Turns
<1>2. SInv /\ OInv /\ [Next]_vars =>
        [idler' = "resolved" /\ idler # "resolved" =>
           \A t \in Tasks : phase[t] = "new" \/ Resolved(t)]_vars
  BY <1>1
<1> QED BY <1>2, SlotsInit, OrderInit, ChainsInductive, PTL DEF Spec, IdleMeansDone

-----------------------------------------------------------------------------
(* The call                                                                *)

\* Between two requests nothing is behind the call: whatever was sent before
\* was declined.
NothingBehind == executed = 0 /\ late = 0 /\ current = "none" /\ outcome = "none"

\* While the call waits there is exactly the order it waits for.
OneAsked ==
  /\ sent
  /\ late = 0
  /\ outcome = "none"
  /\ current # "none"
  /\ executed = IF current = "done" THEN 1 ELSE 0

\* After the end there is what the answer says.
AsAnswered ==
  /\ current = "none"
  /\ outcome # "none"
  /\ outcome = "ok" => executed = 1 /\ late = 0
  /\ outcome = "refused" => executed = 0 /\ late = 0
  /\ executed + late <= 1

\* The inductive invariant.
CInv ==
  /\ CallTypeOK
  /\ step \in {"start", "session", "post", "recover"} => NothingBehind
  /\ step = "asking" => OneAsked
  /\ step = "end" => AsAnswered
  /\ executed > 0 \/ late > 0 => sent

-----------------------------------------------------------------------------
\* No repeat is within the bound.
LEMMA ZeroAttempts == 0 \in 0..MaxRepeats
  BY CallAssumption DEF CallAssumption

\* LastError goes back to the session or ends the call, not with a ticket.
LEMMA LastErrorStep ==
  ASSUME CallTypeOK, NEW hints, LastError(hints)
  PROVE  /\ \/ step' = "session" /\ outcome' = outcome
            \/ step' = "end" /\ outcome' \in {"refused", "uncertain"}
         /\ attempt' \in 0..MaxRepeats /\ second' \in BOOLEAN /\ endpoint' \in {"main", "fallback"}
<1>1. CASE attempt < MaxRepeats /\ attempt' = attempt + 1 /\ second' = FALSE /\ endpoint' = "main"
           /\ Goto("session")
  <2>1. attempt' \in 0..MaxRepeats
    BY <1>1, CallAssumption DEF CallAssumption, CallTypeOK
  <2> QED BY <1>1, <2>1 DEF Goto
<1>2. CASE End("refused") \/ End("uncertain")
  BY <1>2, ZeroAttempts DEF End
<1> QED BY <1>1, <1>2 DEF LastError

\* Failed does the same, or sends the order again by another way.
LEMMA FailedStep ==
  ASSUME CallTypeOK, NEW hints, Failed(hints)
  PROVE  /\ \/ step' \in {"session", "post", "recover"} /\ outcome' = outcome
            \/ step' = "end" /\ outcome' \in {"refused", "uncertain"}
         /\ attempt' \in 0..MaxRepeats /\ second' \in BOOLEAN /\ endpoint' \in {"main", "fallback"}
<1>1. CASE LastError(hints)
  BY <1>1, LastErrorStep
<1>2. CASE ~LastError(hints)
  BY <1>2 DEF Failed, Goto, CallTypeOK, retry
<1> QED BY <1>1, <1>2

\* Every step keeps the inductive invariant.
LEMMA CallKept == ASSUME ~Unclear PROVE CInv /\ [CallNext]_callVars => CInv'
<1> SUFFICES ASSUME ~Unclear, CInv, [CallNext]_callVars PROVE CInv'
  OBVIOUS
<1> USE DEF CInv, CallTypeOK, NothingBehind, OneAsked, AsAnswered
<1>1. CASE Start
  <2>1. CASE End("refused")
    <3>1. executed' = 0 /\ late' = 0 /\ current' = "none" /\ sent' = sent
      BY <1>1 DEF Start, request
    <3>2. step' = "end" /\ outcome' = "refused"
      BY <2>1 DEF End
    <3>3. attempt' \in 0..MaxRepeats /\ second' \in BOOLEAN /\ endpoint' = "main"
      BY <2>1, ZeroAttempts DEF End
    <3> QED BY <3>1, <3>2, <3>3
  <2>2. CASE Goto("session") /\ UNCHANGED retry
    BY <1>1, <2>2 DEF Start, Goto, retry, request
  <2> QED BY <1>1, <2>1, <2>2 DEF Start
<1>2. CASE SessionReady
  BY <1>2 DEF SessionReady, Goto, request
<1>3. CASE SessionFails
  <2>1. PICK hints \in SUBSET {"again"} : LastError(hints)
    BY <1>3 DEF SessionFails
  <2>2. NothingBehind /\ UNCHANGED request
    BY <1>3 DEF SessionFails
  <2> QED BY <2>1, <2>2, LastErrorStep DEF request
<1>4. CASE Send
  BY <1>4 DEF Send, Goto, retry
<1>5. CASE AnswerDone
  <2>1. step' = "end" /\ outcome' = "ok" /\ current' = "none" /\ late' = 0 /\ executed' = 1
    BY <1>5 DEF AnswerDone, End, GiveUp
  <2>2. attempt' \in 0..MaxRepeats /\ second' \in BOOLEAN /\ endpoint' = "main"
    BY <1>5, ZeroAttempts DEF AnswerDone, End
  <2>3. sent' = sent /\ sent
    BY <1>5 DEF AnswerDone, GiveUp
  <2> QED BY <2>1, <2>2, <2>3
<1>6. CASE AnswerError
  <2>1. PICK hints \in SUBSET Hints : Failed(hints)
    BY <1>6 DEF AnswerError
  <2>2. step = "asking" /\ current = "declined" /\ GiveUp
    BY <1>6 DEF AnswerError, BehindError
  <2>3. late' = 0 /\ executed' = 0 /\ current' = "none" /\ sent'
    BY <2>2 DEF GiveUp
  <2> QED BY <2>1, <2>2, <2>3, FailedStep
<1>7. CASE NoAnswer
  <2>1. step' = "end" /\ outcome' = "uncertain" /\ current' = "none" /\ sent' = sent
    BY <1>7 DEF NoAnswer, End, GiveUp
  <2>2. executed' \in Nat /\ late' \in Nat /\ executed' + late' <= 1
    BY <1>7 DEF NoAnswer, GiveUp
  <2>3. attempt' \in 0..MaxRepeats /\ second' \in BOOLEAN /\ endpoint' = "main"
    BY <1>7, ZeroAttempts DEF NoAnswer, End
  <2> QED BY <1>7, <2>1, <2>2, <2>3 DEF NoAnswer
<1>8. CASE BrokerActs
  BY <1>8 DEF BrokerActs, retry
<1>9. CASE LateActs
  BY <1>9 DEF LateActs, retry
<1>10. CASE UNCHANGED callVars
  BY <1>10 DEF callVars, retry, request
<1> QED BY <1>1, <1>2, <1>3, <1>4, <1>5, <1>6, <1>7, <1>8, <1>9, <1>10 DEF CallNext, Advance

\* A call that starts satisfies it.
LEMMA CallBegins == CallInit => CInv
<1>1. CallInit => CallTypeOK
  <2> SUFFICES ASSUME CallInit PROVE CallTypeOK
    OBVIOUS
  <2>1. attempt \in 0..MaxRepeats
    BY ZeroAttempts DEF CallInit
  <2>2. second \in BOOLEAN /\ sent \in BOOLEAN
    BY DEF CallInit
  <2>3. late \in Nat /\ executed \in Nat
    BY DEF CallInit
  <2> QED BY <2>1, <2>2, <2>3 DEF CallInit, CallTypeOK
<1>2. CallInit => step = "start" /\ NothingBehind
  BY DEF CallInit, NothingBehind
<1>3. NothingBehind => ~(executed > 0 \/ late > 0)
  BY DEF NothingBehind
<1> QED BY <1>1, <1>2, <1>3 DEF CInv

\* So every reachable state does.
LEMMA CallAlways == ASSUME ~Unclear PROVE CallSpec => []CInv
  BY CallBegins, CallKept, PTL DEF CallSpec

\* A refusal ends the call with nothing executed and nothing on its way.
LEMMA RefusedInv == CInv => RefusedMeansNone
  BY DEF CInv, CallTypeOK, NothingBehind, OneAsked, AsAnswered, RefusedMeansNone

\* However often an order is sent by fallback, reconnect and requote, there is
\* one of it at most, whatever the number of repeats.
THEOREM OneOrderHolds == ASSUME ~Unclear PROVE CallSpec => []OneOrder
<1>1. CInv => OneOrder
  BY DEF CInv, CallTypeOK, NothingBehind, OneAsked, AsAnswered, OneOrder, OnTheWay
<1> QED BY <1>1, CallAlways, PTL

\* A call that ends in a refusal leaves no order behind, provided an error
\* answer never hides one.
THEOREM RefusalsAreCertain == ASSUME ~Unclear PROVE CallSpec => []RefusedMeansNone
  BY RefusedInv, CallAlways, PTL

-----------------------------------------------------------------------------
(* The call refines TradeOrder.                                            *)

\* The fate of the order moves on by the rules of TradeOrder.
LEMMA FateStep == ASSUME ~Unclear PROVE CInv /\ CInv' /\ [CallNext]_callVars => Promise!Becomes(Fate, Fate')
<1> SUFFICES ASSUME ~Unclear, CInv, CInv', [CallNext]_callVars PROVE Promise!Becomes(Fate, Fate')
  OBVIOUS
<1>1. executed > 0 => executed' > 0
  <2>1. executed \in Nat
    BY DEF CInv, CallTypeOK
  <2>2. executed' \in {executed, executed + 1}
    BY DEF CallNext, Advance, Start, SessionReady, SessionFails, Send, AnswerDone, AnswerError, NoAnswer,
       BrokerActs, LateActs, GiveUp, request, callVars
  <2> QED BY <2>1, <2>2
<1>2. sent => sent'
  BY DEF CallNext, Advance, Start, SessionReady, SessionFails, Send, AnswerDone, AnswerError, NoAnswer,
     BrokerActs, LateActs, GiveUp, request, callVars
<1>3. outcome = "refused" => outcome' = "refused" /\ executed' = executed /\ sent' = sent
  <2>1. outcome = "refused" => step = "end" /\ current = "none" /\ late = 0
    BY DEF CInv, CallTypeOK, NothingBehind, OneAsked, AsAnswered
  <2> QED BY <2>1 DEF CallNext, Advance, Start, SessionReady, SessionFails, Send, AnswerDone,
     AnswerError, NoAnswer, BrokerActs, LateActs, request, callVars, CInv, CallTypeOK
<1>4. executed > 0 => sent /\ outcome # "refused"
  BY RefusedInv DEF CInv, RefusedMeansNone
<1>5. executed' > 0 => sent' /\ outcome' # "refused"
  <2>1. (CInv => RefusedMeansNone)'
    BY RefusedInv, PTL
  <2> QED BY <2>1 DEF CInv, RefusedMeansNone
<1>6. ~sent /\ sent' => executed' = 0 /\ outcome' = "none"
  BY DEF CallNext, Advance, Start, SessionReady, SessionFails, Send, AnswerDone, AnswerError, NoAnswer,
     BrokerActs, LateActs, GiveUp, Goto, request, callVars, CInv, CallTypeOK, NothingBehind, OneAsked, AsAnswered
<1>7. sent \in BOOLEAN /\ sent' \in BOOLEAN
  BY DEF CInv, CallTypeOK
<1> QED BY <1>1, <1>2, <1>3, <1>4, <1>5, <1>6, <1>7 DEF Fate, Promise!Becomes

\* An answer is given once, and is true when it is given.
LEMMA AnswerStep ==
  ASSUME ~Unclear
  PROVE  CInv /\ CInv' /\ [CallNext]_callVars
           => outcome' = outcome \/ (outcome = "none" /\ Promise!True(outcome', Fate'))
<1> SUFFICES ASSUME ~Unclear, CInv, CInv', [CallNext]_callVars, outcome' # outcome
             PROVE  outcome = "none" /\ Promise!True(outcome', Fate')
  OBVIOUS
<1>1. outcome = "none"
  <2>1. step # "end"
    BY DEF CallNext, Advance, Start, SessionReady, SessionFails, Send, AnswerDone, AnswerError, NoAnswer,
       BrokerActs, LateActs, request, callVars
  <2> QED BY <2>1 DEF CInv, CallTypeOK, NothingBehind, OneAsked
<1>2. outcome' = "ok" => executed' > 0
  <2>1. outcome' = "ok" => step' = "end"
    BY DEF CInv, CallTypeOK, NothingBehind, OneAsked
  <2>2. step' = "end" /\ outcome' = "ok" => executed' = 1
    BY DEF CInv, AsAnswered
  <2> QED BY <2>1, <2>2
<1>3. outcome' = "refused" => executed' = 0
  BY DEF CInv, CallTypeOK, NothingBehind, OneAsked, AsAnswered
<1>4. outcome' # "not_sent" /\ executed' \in Nat
  BY DEF CInv, CallTypeOK
<1> QED BY <1>1, <1>2, <1>3, <1>4 DEF Promise!True, Fate

\* One order call does what TradeGateway takes it for: it sends one order and
\* tells the truth about it.
THEOREM CallKeepsPromise == ASSUME ~Unclear PROVE CallSpec => ImplementsTradeOrder
<1> SUFFICES ASSUME ~Unclear PROVE CallSpec => ImplementsTradeOrder
  OBVIOUS
<1>1. CallInit => Promise!OInit
  BY DEF CallInit, Promise!OInit, Fate
<1>2. CInv /\ CInv' /\ [CallNext]_callVars => Promise!ONext
  <2> SUFFICES ASSUME CInv, CInv', [CallNext]_callVars PROVE Promise!ONext
    OBVIOUS
  <2>1. Promise!Becomes(Fate, Fate')
    BY FateStep
  <2>2. outcome' = outcome \/ (outcome = "none" /\ Promise!True(outcome', Fate'))
    BY AnswerStep
  <2> QED BY <2>1, <2>2 DEF Promise!ONext, Promise!True, Promise!Becomes
<1>3. CInv /\ CInv' /\ [CallNext]_callVars => [Promise!ONext]_(Promise!orderVars)
  BY <1>2
<1> QED BY <1>1, <1>3, CallAlways, PTL DEF CallSpec, ImplementsTradeOrder, Promise!OSpec

-----------------------------------------------------------------------------
(* Calls in the chains                                                     *)

\* A step of the composition is a step of the chains ...
LEMMA OrdersAreChains == OrdersSpec => Spec
<1>1. OrdersInit => Init
  BY DEF OrdersInit
<1>2. [OrdersNext]_orderVars => [Next]_vars
  BY DEF OrdersNext, ChainStep, CallStep, Next, orderVars
<1> QED BY <1>1, <1>2, PTL DEF OrdersSpec, Spec

\* ... and one of the call, or it does not concern it.
LEMMA OrdersAreCalls == OrdersSpec => CallSpec
<1>1. OrdersInit => CallInit
  BY DEF OrdersInit
<1>2. [OrdersNext]_orderVars => [CallNext]_callVars
  BY DEF OrdersNext, ChainStep, CallStep, CallNext, orderVars
<1> QED BY <1>1, <1>2, PTL DEF OrdersSpec, CallSpec

\* The chains of a worker keep their order and their slots when a task is a call
\* that repeats and times out, and end when idle() says so.
THEOREM OrdersKeepChains == OrdersSpec => [](InOrder /\ SlotsExact) /\ IdleMeansDone
<1>1. Spec => []InOrder /\ [](TypeOK /\ SlotsExact) /\ IdleMeansDone
  BY TasksRunInOrder, SlotsAreExact, IdleWaitsForAll
<1> QED BY <1>1, OrdersAreChains, PTL

\* Whatever its chain does meanwhile, a call is one order and answers the truth.
THEOREM OrdersKeepPromise == ASSUME ~Unclear PROVE OrdersSpec => ImplementsTradeOrder
<1>1. CallSpec => ImplementsTradeOrder
  BY CallKeepsPromise
<1> QED BY <1>1, OrdersAreCalls, PTL

\* The call begins after its task, and ends before the task does.
Within ==
  /\ step # "start" => phase[Followed] \in {"running", "released", "done", "forgotten"}
  /\ phase[Followed] \in {"released", "done", "forgotten"} => step = "end"

LEMMA WithinKept == TypeOK /\ TypeOK' /\ WaitingTasks /\ Within /\ [OrdersNext]_orderVars => Within'
<1> SUFFICES ASSUME TypeOK, TypeOK', WaitingTasks, Within, [OrdersNext]_orderVars PROVE Within'
  OBVIOUS
<1>1. Followed \in Tasks
  BY OrdersAssumption
<1>2. CASE UNCHANGED vars /\ UNCHANGED callVars
  BY <1>2 DEF Within, vars, callVars
<1>3. CASE CallStep
  <2>1. phase' = phase
    BY <1>3 DEF CallStep, vars
  <2>2. CASE phase[Followed] = "running"
    BY <2>1, <2>2 DEF Within
  <2>3. CASE BrokerActs \/ LateActs
    <3>1. step' = step
      BY <2>3 DEF BrokerActs, LateActs
    <3> QED BY <2>1, <3>1 DEF Within
  <2> QED BY <1>3, <2>2, <2>3 DEF CallStep
<1>4. CASE ChainStep
  <2>1. step' = step
    BY <1>4 DEF ChainStep, callVars
  <2>2. ASSUME NEW t \in Tasks, Run(t) \/ Acquire(t) \/ Begin(t) \/ Resolve(t) \/ Forget(t)
        PROVE  Within'
    BY <1>1, <2>1, <2>2 DEF Within, Run, Acquire, Begin, Resolve, Forget, To, TypeOK
  <2>3. ASSUME NEW t \in Tasks, Ended(t), Finish(t)
        PROVE  Within'
    <3>1. CASE waiting = <<>>
      BY <1>1, <2>1, <2>3, <3>1 DEF Within, Finish, To, TypeOK, Ended
    <3>2. CASE waiting # <<>>
      <4>1. Head(waiting) \in Tasks /\ phase[Head(waiting)] = "slot"
        BY <3>2, FirstWaiting
      <4>2. phase' = [phase EXCEPT ![t] = "released", ![Head(waiting)] = "granted"]
        BY <2>3, <3>2 DEF Finish
      <4> QED BY <1>1, <2>1, <2>3, <4>1, <4>2 DEF Within, Finish, TypeOK, Ended
    <3> QED BY <3>1, <3>2
  <2>4. CASE IdleLook
    BY <2>1, <2>4 DEF IdleLook, Within
  <2> QED BY <1>4, <2>2, <2>3, <2>4 DEF ChainStep
<1> QED BY <1>2, <1>3, <1>4 DEF OrdersNext, orderVars

\* Orders of one account follow one another at the broker's door: before the
\* followed call sends anything every earlier task of its account has ended, and
\* no later one has begun before the call has ended.
OneAfterAnother ==
  \A u \in Tasks : KeyOf[u] = KeyOf[Followed] /\ turn[u] > 0 =>
    /\ turn[u] < turn[Followed] /\ step # "start" => Resolved(u)
    /\ turn[Followed] > 0 /\ turn[Followed] < turn[u] /\ Begun(u) => step = "end"

\* It holds of the chains of a worker, whatever the calls of the other tasks do.
THEOREM OrdersFollowOneAnother == OrdersSpec => []OneAfterAnother
<1>1. OrdersInit => Within
  BY OrdersAssumption DEF OrdersInit, Init, CallInit, Within
<1>2. Spec => []SInv
  <2>1. SInv /\ [Next]_vars => SInv'
    BY SlotsStep
  <2> QED BY <2>1, SlotsInit, PTL DEF Spec
<1>3. OrdersSpec => []Within
  <2>1. SInv /\ SInv' /\ Within /\ [OrdersNext]_orderVars => Within'
    BY WithinKept DEF SInv
  <2> QED BY <1>1, <1>2, <2>1, OrdersAreChains, PTL DEF OrdersSpec
<1>4. SInv /\ Within /\ InOrder => OneAfterAnother
  <2> SUFFICES ASSUME SInv, Within, InOrder, NEW u \in Tasks, KeyOf[u] = KeyOf[Followed], turn[u] > 0
               PROVE  /\ turn[u] < turn[Followed] /\ step # "start" => Resolved(u)
                      /\ turn[Followed] > 0 /\ turn[Followed] < turn[u] /\ Begun(u) => step = "end"
    BY DEF OneAfterAnother
  <2>1. Followed \in Tasks /\ turn[u] \in Nat /\ turn[Followed] \in Nat
    BY OrdersAssumption DEF SInv, TypeOK
  <2>2. step # "start" => Begun(Followed)
    BY DEF Within, Begun
  <2>3. Resolved(Followed) => step = "end"
    BY DEF Within, Resolved
  <2> QED BY <2>1, <2>2, <2>3 DEF InOrder
<1> QED BY <1>2, <1>3, <1>4, OrdersAreChains, TasksRunInOrder, PTL
=============================================================================
