---------------------------- MODULE AccountOrders ----------------------------
(***************************************************************************)
(* Orders of broker accounts as a worker runs them: the tasks of its       *)
(* chains (KeyedChains) are calls of the broker adapter (BrokerCall), one  *)
(* after the other per account and at most MaxConcurrent at once           *)
(* (commandChains of src/lib/gateway/gatewayWorker.ts).                    *)
(*                                                                         *)
(* One task is followed into its call, whose retries and time-outs decide  *)
(* how long it keeps its slot and its account; the others end when they    *)
(* like.  That the chain goes on after a call that went wrong, and that    *)
(* every call ends, is what the two modules need of each other.            *)
(***************************************************************************)
EXTENDS KeyedChains, BrokerCall

CONSTANT Followed  \* the task whose call is followed

ASSUME OrdersAssumption == Followed \in Tasks

orderVars == <<vars, callVars>>

OrdersInit == Init /\ CallInit

\* The promise of a task is settled when its call has ended.
Ended(t) == t = Followed => step = "end"

\* claimRound and runDirect: chains.run(account, () => process(command)).
ChainStep ==
  /\ \/ \E t \in Tasks :
          Run(t) \/ Acquire(t) \/ Begin(t) \/ (Ended(t) /\ Finish(t)) \/ Resolve(t) \/ Forget(t)
     \/ IdleLook
  /\ UNCHANGED callVars

\* The call advances while its task runs; the broker acts when it likes.
CallStep ==
  /\ \/ phase[Followed] = "running" /\ Advance
     \/ BrokerActs \/ LateActs
  /\ UNCHANGED vars

OrdersNext == ChainStep \/ CallStep

OrdersSpec == OrdersInit /\ [][OrdersNext]_orderVars

\* Continuations run, every request of the call has a time limit, and so have
\* the calls that are not followed.  Nothing is assumed of the broker.
Continues(t) ==
  /\ WF_orderVars(Acquire(t) /\ UNCHANGED callVars)
  /\ WF_orderVars(Begin(t) /\ UNCHANGED callVars)
  /\ WF_orderVars(Ended(t) /\ Finish(t) /\ UNCHANGED callVars)
  /\ WF_orderVars(Resolve(t) /\ UNCHANGED callVars)
  /\ WF_orderVars(Forget(t) /\ UNCHANGED callVars)

OrdersFairSpec ==
  /\ OrdersSpec
  /\ \A t \in Tasks : Continues(t)
  /\ WF_orderVars(IdleLook /\ UNCHANGED callVars)
  /\ WF_orderVars(phase[Followed] = "running" /\ Advance /\ UNCHANGED vars)
=============================================================================
