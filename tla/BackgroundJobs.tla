--------------------------- MODULE BackgroundJobs ---------------------------
(***************************************************************************)
(* The queue of background jobs: rows of background_jobs, claimed in       *)
(* batches by the background worker, the copy worker and two routes        *)
(* (src/lib/services/backgroundJobService.ts, src/lib/workers/             *)
(* jobProcessor.ts, scripts/wsa-background-worker.ts, migration 012).      *)
(*                                                                         *)
(* A claim is a lease: a row that stays RUNNING past the stale threshold   *)
(* is taken away from its runner, who is not told.  The order by priority  *)
(* and run_after is left open, and so is the time a job takes.             *)
(***************************************************************************)
EXTENDS Naturals, FiniteSets

CONSTANTS
  Jobs,         \* the rows that may be enqueued
  Live,         \* those whose work is orders at a broker
  Runners,      \* the loops and routes that call runWorkerOnce
  NameOf,       \* NameOf[r]: the workerId runner r claims with
  Nobody,       \* no locked_by
  MaxAttempts,  \* max_attempts of a row
  Limit,        \* the most jobs one claim takes
  Prompt,       \* no lease goes stale before its runner has begun the job
  MaxRequeues,  \* bound: MaxRequeues[j]: how often an operator asks for j again
  MaxCrashes    \* bound: how often a runner dies

ASSUME JobsAssumption ==
  /\ IsFiniteSet(Jobs) /\ Live \subseteq Jobs
  /\ Nobody \notin {NameOf[r] : r \in Runners}
  /\ MaxAttempts \in Nat \ {0} /\ Limit \in Nat \ {0}
  /\ MaxRequeues \in [Jobs -> Nat] /\ MaxCrashes \in Nat
  /\ Prompt \in BOOLEAN

VARIABLES
  row,       \* the row of each job; claim and requeues are history
  stale,     \* history: the claims <<j, n>> that have passed the threshold
  blind,     \* history: the jobs given up as uncertain since they were asked for
  batch,     \* what each runner has claimed and not begun
  work,      \* the claimed job each runner works on, and how far it is
  listed,    \* the stale rows a releaseStaleJobs has read
  crashes

vars == <<row, stale, blind, batch, work, listed, crashes>>

Active == {"PENDING", "RUNNING"}
Ended == {"SUCCESS", "FAILED", "SKIPPED", "CANCELLED"}

NoWork == [at |-> "none"]

Init ==
  /\ row = [j \in Jobs |-> [status |-> "absent", by |-> Nobody, attempts |-> 0,
                            claim |-> 0, requeues |-> 0, stored |-> 0]]
  /\ stale = {}
  /\ blind = {}
  /\ batch = [r \in Runners |-> {}]
  /\ work = [r \in Runners |-> NoWork]
  /\ listed = {}
  /\ crashes = 0

\* enqueueJob inserts the row; while one of its unique_key is active, that is it.
Enqueue(j) ==
  /\ row[j].status = "absent"
  /\ row' = [row EXCEPT ![j].status = "PENDING"]
  /\ UNCHANGED <<stale, blind, batch, work, listed, crashes>>

\* What mapJob keeps of a row that was just claimed.
Copy(j, r) == [job |-> j, by |-> NameOf[r], attempts |-> row[j].attempts + 1,
               claim |-> row[j].claim + 1]

\* claim_background_jobs: FOR UPDATE SKIP LOCKED, attempts + 1.
Claim(r) ==
  /\ batch[r] = {} /\ work[r] = NoWork
  /\ \E js \in SUBSET {j \in Jobs : row[j].status = "PENDING"} :
       /\ js # {} /\ Cardinality(js) <= Limit
       /\ row' = [j \in Jobs |->
                    IF j \in js
                    THEN [row[j] EXCEPT !.status = "RUNNING", !.by = NameOf[r],
                                        !.attempts = @ + 1, !.claim = @ + 1]
                    ELSE row[j]]
       /\ batch' = [batch EXCEPT ![r] = {Copy(j, r) : j \in js}]
  /\ UNCHANGED <<stale, blind, work, listed, crashes>>

\* processJob of the next one, whatever has become of its row meanwhile.
Begin(r) ==
  /\ work[r] = NoWork
  /\ \E c \in batch[r] :
       /\ work' = [work EXCEPT ![r] = [at |-> "work", of |-> c]]
       /\ batch' = [batch EXCEPT ![r] = @ \ {c}]
  /\ UNCHANGED <<row, stale, blind, listed, crashes>>

\* The processor's result; FAILED may be marked as not to be retried.
Results == {"SUCCESS", "SKIPPED", "FAILED", "RETRY"}

\* finalizeJob: what the result makes of the row.
StatusAfter(c, result) ==
  CASE result = "RETRY" -> IF c.attempts < MaxAttempts THEN "PENDING" ELSE "FAILED"
    [] OTHER -> result

\* Mutant of Held: who has claimed the row is not compared.
HeldByAnyone(c) == row[c.job].status = "RUNNING"

\* updateClaimed: the row is RUNNING and locked by the one who claimed it.
Held(c) == /\ row[c.job].status = "RUNNING"
           /\ row[c.job].by = c.by

Store(c, result) ==
  IF Held(c)
  THEN row' = [row EXCEPT ![c.job].status = StatusAfter(c, result),
                          ![c.job].by = Nobody, ![c.job].stored = c.claim]
  ELSE UNCHANGED row

\* The job is done, and its result is stored if the row is still the runner's.
Finalize(r) ==
  /\ work[r] # NoWork
  /\ \E result \in Results : Store(work[r].of, result)
  /\ work' = [work EXCEPT ![r] = NoWork]
  /\ UNCHANGED <<stale, blind, batch, listed, crashes>>

\* The runner dies, or the store of a result throws, which ends the cycle: what
\* it had claimed stays RUNNING.
Crash(r) ==
  /\ crashes < MaxCrashes /\ (batch[r] # {} \/ work[r] # NoWork)
  /\ crashes' = crashes + 1
  /\ batch' = [batch EXCEPT ![r] = {}]
  /\ work' = [work EXCEPT ![r] = NoWork]
  /\ UNCHANGED <<row, stale, blind, listed>>

\* The claimed jobs no runner has begun.
Waiting == UNION {{<<c.job, c.claim>> : c \in batch[r]} : r \in Runners}

\* Time passes: a lease is older than the threshold.
GoStale(j) ==
  /\ row[j].status = "RUNNING" /\ <<j, row[j].claim>> \notin stale
  /\ Prompt => <<j, row[j].claim>> \notin Waiting
  /\ stale' = stale \cup {<<j, row[j].claim>>}
  /\ UNCHANGED <<row, blind, batch, work, listed, crashes>>

\* releaseStaleJobs reads the rows that are stale ...
ListStale ==
  /\ listed = {}
  /\ listed' = {s \in stale : row[s[1]].status = "RUNNING" /\ row[s[1]].claim = s[2]}
  /\ listed' # {}
  /\ UNCHANGED <<row, stale, blind, batch, work, crashes>>

\* .eq("status", "RUNNING").eq("locked_at", j.locked_at)
SameLease(s) == /\ row[s[1]].status = "RUNNING"
                /\ row[s[1]].claim = s[2]

\* Mutant of GivesUp: live jobs are released like any other.
GivesUpExhausted(j) == row[j].attempts >= MaxAttempts

\* A live operation may have reached the broker; others end with their attempts.
GivesUp(j) == j \in Live \/ row[j].attempts >= MaxAttempts

\* Mutant of Release: a job without attempts left stays as it is.
ReleasePending ==
  \E s \in listed :
    /\ listed' = listed \ {s}
    /\ IF SameLease(s) /\ ~GivesUp(s[1])
       THEN row' = [row EXCEPT ![s[1]].status = "PENDING", ![s[1]].by = Nobody]
       ELSE UNCHANGED row
    /\ UNCHANGED <<stale, blind, batch, work, crashes>>

\* ... and takes each away from its runner.
Release ==
  \E s \in listed :
    LET j == s[1] IN
    /\ listed' = listed \ {s}
    /\ IF SameLease(s)
       THEN /\ row' = [row EXCEPT ![j].status = IF GivesUp(j) THEN "FAILED" ELSE "PENDING",
                                  ![j].by = Nobody]
            /\ blind' = blind \cup ({j} \cap Live)
       ELSE UNCHANGED <<row, blind>>
    /\ UNCHANGED <<stale, batch, work, crashes>>

\* Mutant of Cancel: a job that runs can be cancelled.
CancelActive(j) ==
  /\ row[j].status \in Active
  /\ row' = [row EXCEPT ![j].status = "CANCELLED"]
  /\ UNCHANGED <<stale, blind, batch, work, listed, crashes>>

\* cancelJob: only pending jobs.
Cancel(j) ==
  /\ row[j].status = "PENDING"
  /\ row' = [row EXCEPT ![j].status = "CANCELLED"]
  /\ UNCHANGED <<stale, blind, batch, work, listed, crashes>>

\* requeueJob: the operator asks for the job again.
Requeue(j) ==
  /\ row[j].status \in {"FAILED", "CANCELLED", "SKIPPED"}
  /\ row[j].requeues < MaxRequeues[j]
  /\ row' = [row EXCEPT ![j].status = "PENDING", ![j].attempts = 0, ![j].by = Nobody,
                        ![j].requeues = @ + 1]
  /\ blind' = blind \ {j}
  /\ UNCHANGED <<stale, batch, work, listed, crashes>>

Next ==
  \/ \E j \in Jobs : Enqueue(j) \/ GoStale(j) \/ Cancel(j) \/ Requeue(j)
  \/ \E r \in Runners : Claim(r) \/ Begin(r) \/ Finalize(r) \/ Crash(r)
  \/ ListStale \/ Release

Spec == Init /\ [][Next]_vars

\* The loops of the workers go on, a claimed job gets its turn and its result,
\* and rows left behind go stale and are released every minute.
Fairness ==
  /\ \A r \in Runners : WF_vars(Claim(r)) /\ WF_vars(Begin(r)) /\ WF_vars(Finalize(r))
  /\ \A j \in Jobs : WF_vars(GoStale(j))
  /\ WF_vars(ListStale) /\ WF_vars(Release)

FairSpec == Spec /\ Fairness

-----------------------------------------------------------------------------
\* "Two concurrent workers never grab the same job": while two runners work on
\* one job, the lease of one of them has gone stale - whatever was cancelled,
\* asked for again, released or finished meanwhile.
OneAtATime ==
  \A r, q \in Runners :
    (r # q /\ work[r] # NoWork /\ work[q] # NoWork /\ work[r].of.job = work[q].of.job)
      => {<<work[p].of.job, work[p].of.claim>> : p \in {r, q}} \cap stale # {}

\* The status a job ends with is the result of its last claim: a runner whose
\* lease was taken away stores nothing over the run that replaced it.
LastClaimDecides ==
  \A j \in Jobs : row[j].status \in {"SUCCESS", "SKIPPED"} => row[j].stored = row[j].claim

\* "Never automatically retry an uncertain live execution; require an operator":
\* no runner begins the work of a live job that was given up as uncertain.
NoBlindRetry ==
  [][\A r \in Runners :
       (work[r] = NoWork /\ work'[r] # NoWork) => work'[r].of.job \notin blind]_vars

\* Every job that was enqueued ends, whoever crashed over it.
EveryJobEnds == \A j \in Jobs : row[j].status = "PENDING" ~> row[j].status \in Ended
=============================================================================
