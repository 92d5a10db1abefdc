------------------------ MODULE BackgroundJobsProofs ------------------------
(***************************************************************************)
(* Theorems about BackgroundJobs, for any finite set of jobs, any number   *)
(* of runners, crashes and requeues, where no two runners claim with the   *)
(* same name (DistinctNames).                                              *)
(***************************************************************************)
EXTENDS BackgroundJobs, TLAPS

\* Each runner claims with a name of its own.
DistinctNames == \A r, q \in Runners : NameOf[r] = NameOf[q] => r = q

Names == {NameOf[r] : r \in Runners}

Rows == [status : Active \cup Ended \cup {"absent"}, by : Names \cup {Nobody},
         attempts : Nat, claim : Nat, requeues : Nat, stored : Nat]

ClaimedCopies == [job : Jobs, by : Names, attempts : Nat, claim : Nat]

\* Every state the program keeps is of the kind its columns say.
TypeOK ==
  /\ row \in [Jobs -> Rows]
  /\ stale \subseteq Jobs \X Nat
  /\ listed \subseteq stale
  /\ blind \subseteq Live
  /\ batch \in [Runners -> SUBSET ClaimedCopies]
  /\ work \in [Runners -> {NoWork} \cup [at : {"work"}, of : ClaimedCopies]]
  /\ crashes \in Nat

\* Every job that runner r has claimed and not finished, as it was then.
Copies(r) == batch[r] \cup IF work[r] = NoWork THEN {} ELSE {work[r].of}

Lease(c) == <<c.job, c.claim>>

\* The row is still as the runner of copy c has claimed it.
Current(c) ==
  /\ row[c.job].status = "RUNNING"
  /\ row[c.job].by = c.by
  /\ row[c.job].claim = c.claim
  /\ row[c.job].attempts = c.attempts

\* A lease is lost by going stale and in no other way.
LeaseKept == \A r \in Runners : \A c \in Copies(r) : Lease(c) \in stale \/ Current(c)

\* A runner has one copy of a job, made for it, and it is the claim of the row
\* whenever the row is in the runner's name.
OwnCopies ==
  \A r \in Runners :
    /\ \A c \in Copies(r) : c.by = NameOf[r] /\ (Held(c) => Current(c))
    /\ \A c, d \in Copies(r) : c.job = d.job => c = d
    /\ work[r] # NoWork => work[r].of \notin batch[r]

\* No claim goes stale before it was made.
StaleClaims == \A s \in stale : s[2] <= row[s[1]].claim

\* What was given up as uncertain stays given up until it is asked for again.
BlindFailed == \A j \in blind : row[j].status = "FAILED"

\* A job is never claimed more often than max_attempts.
AttemptsBounded ==
  \A j \in Jobs :
    /\ row[j].attempts <= MaxAttempts
    /\ row[j].status \in {"absent", "PENDING"} => row[j].attempts < MaxAttempts

\* What waits in a batch is not stale, if the runners are prompt.
WaitingFresh == Prompt => \A r \in Runners : \A c \in batch[r] : Lease(c) \notin stale

\* The inductive invariant.
JInv ==
  /\ TypeOK
  /\ LeaseKept
  /\ OwnCopies
  /\ StaleClaims
  /\ BlindFailed
  /\ AttemptsBounded
  /\ LastClaimDecides
  /\ WaitingFresh

-----------------------------------------------------------------------------
\* A copy is what mapJob keeps, and carries the name of its runner.
LEMMA CopyType ==
  ASSUME TypeOK, NEW r \in Runners, NEW c \in Copies(r)
  PROVE  c \in ClaimedCopies /\ c.job \in Jobs
<1>1. batch[r] \subseteq ClaimedCopies /\ work[r] \in {NoWork} \cup [at : {"work"}, of : ClaimedCopies]
  BY DEF TypeOK
<1>2. c \in ClaimedCopies
  BY <1>1 DEF Copies
<1> QED BY <1>2 DEF ClaimedCopies

\* A step that leaves rows, claims and copies of runners, and takes nothing
\* but an ended copy from them, keeps what the copies say.
LEMMA FewerCopies ==
  ASSUME JInv, UNCHANGED <<row, stale, blind>>,
         \A r \in Runners : /\ batch'[r] \subseteq batch[r]
                            /\ Copies(r)' \subseteq Copies(r)
                            /\ work'[r] # NoWork => work'[r].of \notin batch'[r],
         TypeOK'
  PROVE  JInv'
<1>1. LeaseKept'
  BY DEF JInv, LeaseKept, Lease, Current
<1>2. OwnCopies'
  BY DEF JInv, OwnCopies, Held, Current
<1>3. StaleClaims' /\ BlindFailed' /\ AttemptsBounded' /\ LastClaimDecides'
  BY DEF JInv, StaleClaims, BlindFailed, AttemptsBounded, LastClaimDecides
<1>4. WaitingFresh'
  BY DEF JInv, WaitingFresh, Lease
<1> QED BY <1>1, <1>2, <1>3, <1>4 DEF JInv

\* A row leaves RUNNING, or never was, and no copy is current that was not:
\* the state of a row may change when no runner has a fresh lease on it.
LEMMA RowMoves ==
  ASSUME JInv, NEW j \in Jobs, row' \in [Jobs -> Rows],
         \A i \in Jobs \ {j} : row'[i] = row[i],
         row'[j].status # "RUNNING",
         row'[j].claim = row[j].claim,
         row'[j].attempts \in {0, row[j].attempts},
         row'[j].status = "PENDING" => row'[j].attempts < MaxAttempts,
         row'[j].status # "absent",
         row'[j].status \in {"SUCCESS", "SKIPPED"} => row'[j].stored = row[j].claim,
         blind' \subseteq Live,
         \A i \in blind' : row'[i].status = "FAILED",
         listed' \subseteq stale, UNCHANGED <<stale, crashes>>,
         batch' = batch,
         work' \in [Runners -> {NoWork} \cup [at : {"work"}, of : ClaimedCopies]],
         \A r \in Runners : work'[r] = work[r] \/ work'[r] = NoWork,
         \A r \in Runners : \A c \in Copies(r)' : c.job = j => Lease(c) \in stale
  PROVE  JInv'
<1> USE DEF JInv
<1>1. TypeOK'
  BY DEF TypeOK
<1>2. ASSUME NEW r \in Runners
      PROVE  Copies(r)' \subseteq Copies(r)
  BY DEF Copies
<1>3. ASSUME NEW r \in Runners, NEW c \in Copies(r)'
      PROVE  c \in Copies(r) /\ c.job \in Jobs /\ (c.job # j => row'[c.job] = row[c.job])
  BY <1>2, <1>3, CopyType
<1>4. LeaseKept'
  <2> SUFFICES ASSUME NEW r \in Runners, NEW c \in Copies(r)'
               PROVE  Lease(c) \in stale \/ Current(c)'
    BY DEF LeaseKept, Lease
  <2>1. CASE c.job = j
    BY <2>1
  <2>2. CASE c.job # j
    BY <1>3, <2>2 DEF LeaseKept, Current
  <2> QED BY <2>1, <2>2
<1>5. OwnCopies'
  <2> SUFFICES ASSUME NEW r \in Runners
               PROVE  /\ \A c \in Copies(r)' : c.by = NameOf[r] /\ (Held(c)' => Current(c)')
                      /\ \A c, d \in Copies(r)' : c.job = d.job => c = d
                      /\ work'[r] # NoWork => work'[r].of \notin batch'[r]
    BY DEF OwnCopies
  <2>1. ASSUME NEW c \in Copies(r)'
        PROVE  c.by = NameOf[r] /\ (Held(c)' => Current(c)')
    BY <1>3 DEF OwnCopies, Held, Current
  <2>2. \A c, d \in Copies(r)' : c.job = d.job => c = d
    BY <1>2 DEF OwnCopies
  <2>3. work'[r] # NoWork => work'[r].of \notin batch'[r]
    BY DEF OwnCopies
  <2> QED BY <2>1, <2>2, <2>3
<1>6. StaleClaims'
  BY DEF StaleClaims, TypeOK
<1>7. BlindFailed'
  BY DEF BlindFailed
<1>8. AttemptsBounded'
  BY JobsAssumption DEF AttemptsBounded, JobsAssumption
<1>9. LastClaimDecides'
  BY DEF LastClaimDecides
<1>10. WaitingFresh'
  BY DEF WaitingFresh, Lease
<1> QED BY <1>1, <1>4, <1>5, <1>6, <1>7, <1>8, <1>9, <1>10

-----------------------------------------------------------------------------
\* A job that no runner has a fresh lease on.
LEMMA NotRunningStale ==
  ASSUME JInv, NEW j \in Jobs, row[j].status # "RUNNING",
         NEW r \in Runners, NEW c \in Copies(r), c.job = j
  PROVE  Lease(c) \in stale
  BY DEF JInv, LeaseKept, Current

\* Only the claim that went stale is taken away.
LEMMA SameLeaseStale ==
  ASSUME JInv, NEW s \in listed, SameLease(s),
         NEW r \in Runners, NEW c \in Copies(r), c.job = s[1]
  PROVE  Lease(c) \in stale
<1>1. s \in stale /\ s = <<s[1], s[2]>>
  BY DEF JInv, TypeOK
<1>2. CASE Current(c)
  BY <1>1, <1>2 DEF Current, SameLease, Lease
<1> QED BY <1>2 DEF JInv, LeaseKept

-----------------------------------------------------------------------------
\* No operator's or processor's step disturbs the invariant.

LEMMA EnqueueStep == ASSUME JInv, NEW j \in Jobs, Enqueue(j) PROVE JInv'
<1> USE DEF JInv
<1>1. row[j] \in Rows /\ row[j].attempts < MaxAttempts /\ row[j].status # "RUNNING"
  BY DEF TypeOK, Enqueue, AttemptsBounded
<1>2. row' \in [Jobs -> Rows] /\ row'[j] = [row[j] EXCEPT !.status = "PENDING"]
  BY <1>1 DEF TypeOK, Enqueue, Rows, Active
<1>3. row'[j].status = "PENDING" /\ row'[j].claim = row[j].claim /\ row'[j].attempts = row[j].attempts
  BY <1>1, <1>2 DEF Rows
<1>4. \A i \in Jobs \ {j} : row'[i] = row[i]
  BY DEF TypeOK, Enqueue
<1>5. \A i \in blind' : row'[i].status = "FAILED"
  BY <1>4 DEF Enqueue, BlindFailed, TypeOK
<1>6. \A r \in Runners : Copies(r)' = Copies(r)
  BY DEF Enqueue, Copies
<1>7. \A r \in Runners : \A c \in Copies(r)' : c.job = j => Lease(c) \in stale
  BY <1>1, <1>6, NotRunningStale
<1> QED BY <1>1, <1>2, <1>3, <1>4, <1>5, <1>7, RowMoves DEF Enqueue, TypeOK

LEMMA CancelStep == ASSUME JInv, NEW j \in Jobs, Cancel(j) PROVE JInv'
<1> USE DEF JInv
<1>1. row[j] \in Rows /\ row[j].status # "RUNNING"
  BY DEF TypeOK, Cancel
<1>2. row' \in [Jobs -> Rows] /\ row'[j] = [row[j] EXCEPT !.status = "CANCELLED"]
  BY <1>1 DEF TypeOK, Cancel, Rows, Ended
<1>3. row'[j].status = "CANCELLED" /\ row'[j].claim = row[j].claim /\ row'[j].attempts = row[j].attempts
  BY <1>1, <1>2 DEF Rows
<1>4. \A i \in Jobs \ {j} : row'[i] = row[i]
  BY DEF TypeOK, Cancel
<1>5. \A i \in blind' : row'[i].status = "FAILED"
  BY <1>4 DEF Cancel, BlindFailed, TypeOK
<1>6. \A r \in Runners : Copies(r)' = Copies(r)
  BY DEF Cancel, Copies
<1>7. \A r \in Runners : \A c \in Copies(r)' : c.job = j => Lease(c) \in stale
  BY <1>1, <1>6, NotRunningStale
<1> QED BY <1>1, <1>2, <1>3, <1>4, <1>5, <1>7, RowMoves DEF Cancel, TypeOK

LEMMA RequeueStep == ASSUME JInv, NEW j \in Jobs, Requeue(j) PROVE JInv'
<1> USE DEF JInv
<1>1. row[j] \in Rows /\ row[j].status # "RUNNING"
  BY DEF TypeOK, Requeue
<1>2. /\ row' \in [Jobs -> Rows]
      /\ row'[j] = [row[j] EXCEPT !.status = "PENDING", !.attempts = 0, !.by = Nobody,
                                  !.requeues = @ + 1]
  BY <1>1 DEF TypeOK, Requeue, Rows, Active
<1>3. row'[j].status = "PENDING" /\ row'[j].claim = row[j].claim /\ row'[j].attempts = 0
  BY <1>1, <1>2 DEF Rows
<1>4. \A i \in Jobs \ {j} : row'[i] = row[i]
  BY DEF TypeOK, Requeue
<1>5. \A i \in blind' : row'[i].status = "FAILED"
  BY <1>4, JobsAssumption DEF Requeue, BlindFailed, TypeOK, JobsAssumption
<1>6. \A r \in Runners : Copies(r)' = Copies(r)
  BY DEF Requeue, Copies
<1>7. \A r \in Runners : \A c \in Copies(r)' : c.job = j => Lease(c) \in stale
  BY <1>1, <1>6, NotRunningStale
<1>8. 0 < MaxAttempts
  BY JobsAssumption DEF JobsAssumption
<1>9. blind' \subseteq Live /\ listed' \subseteq stale /\ UNCHANGED <<stale, crashes, batch, work>>
  BY DEF Requeue, TypeOK
<1> QED BY <1>1, <1>2, <1>3, <1>4, <1>5, <1>7, <1>8, <1>9, RowMoves DEF TypeOK

LEMMA ReleaseStep == ASSUME JInv, Release PROVE JInv'
<1> USE DEF JInv
<1> PICK s \in listed : LET j == s[1] IN
      /\ listed' = listed \ {s}
      /\ IF SameLease(s)
         THEN /\ row' = [row EXCEPT ![j].status = IF GivesUp(j) THEN "FAILED" ELSE "PENDING",
                                    ![j].by = Nobody]
              /\ blind' = blind \cup ({j} \cap Live)
         ELSE UNCHANGED <<row, blind>>
      /\ UNCHANGED <<stale, batch, work, crashes>>
  BY DEF Release
<1> DEFINE j == s[1]
<1>1. j \in Jobs /\ row[j] \in Rows
  BY DEF TypeOK
<1>2. \A r \in Runners : Copies(r)' = Copies(r)
  BY DEF Copies
<1>3. CASE SameLease(s)
  <2>1. row' = [row EXCEPT ![j].status = IF GivesUp(j) THEN "FAILED" ELSE "PENDING", ![j].by = Nobody]
    BY <1>3
  <2>2. /\ row' \in [Jobs -> Rows]
        /\ row'[j] = [row[j] EXCEPT !.status = IF GivesUp(j) THEN "FAILED" ELSE "PENDING",
                                    !.by = Nobody]
    BY <1>1, <2>1 DEF TypeOK, Rows, Active, Ended
  <2>3. /\ row'[j].status = IF GivesUp(j) THEN "FAILED" ELSE "PENDING"
        /\ row'[j].claim = row[j].claim /\ row'[j].attempts = row[j].attempts
    BY <1>1, <2>2 DEF Rows
  <2>4. \A i \in Jobs \ {j} : row'[i] = row[i]
    BY <2>1 DEF TypeOK
  <2>5. \A i \in blind' : row'[i].status = "FAILED"
    BY <1>3, <2>3, <2>4, JobsAssumption DEF BlindFailed, TypeOK, GivesUp, JobsAssumption
  <2>6. \A r \in Runners : \A c \in Copies(r)' : c.job = j => Lease(c) \in stale
    BY <1>2, <1>3, SameLeaseStale
  <2>7. row'[j].status = "PENDING" => row'[j].attempts < MaxAttempts
    BY <1>1, <2>3, JobsAssumption DEF GivesUp, Rows, JobsAssumption
  <2>8. blind' \subseteq Live /\ listed' \subseteq stale
    BY <1>3 DEF TypeOK
  <2> QED BY <1>1, <2>2, <2>3, <2>4, <2>5, <2>6, <2>7, <2>8, RowMoves DEF TypeOK
<1>4. CASE ~SameLease(s)
  <2>1. TypeOK'
    BY <1>4 DEF TypeOK
  <2> QED BY <1>2, <1>4, <2>1, FewerCopies DEF OwnCopies
<1> QED BY <1>3, <1>4

LEMMA ListStaleStep == ASSUME JInv, ListStale PROVE JInv'
<1> USE DEF JInv
<1>1. TypeOK'
  BY DEF TypeOK, ListStale
<1>2. \A r \in Runners : Copies(r)' = Copies(r)
  BY DEF Copies, ListStale
<1> QED BY <1>1, <1>2, FewerCopies DEF ListStale, OwnCopies

\* A lease goes stale: the copies of it are stale with it.
LEMMA GoStaleStep == ASSUME JInv, NEW j \in Jobs, GoStale(j) PROVE JInv'
<1> USE DEF JInv
<1>1. row[j] \in Rows
  BY DEF TypeOK
<1>2. TypeOK'
  BY <1>1 DEF TypeOK, GoStale, Rows
<1>3. \A r \in Runners : Copies(r)' = Copies(r)
  BY DEF Copies, GoStale
<1>4. LeaseKept'
  <2> SUFFICES ASSUME NEW r \in Runners, NEW c \in Copies(r)
               PROVE  Lease(c) \in stale' \/ Current(c)'
    BY <1>3 DEF LeaseKept, Lease
  <2> QED BY DEF LeaseKept, GoStale, Current
<1>5. OwnCopies'
  BY <1>3 DEF OwnCopies, GoStale, Held, Current
<1>6. StaleClaims' /\ BlindFailed' /\ AttemptsBounded' /\ LastClaimDecides'
  BY <1>1 DEF StaleClaims, BlindFailed, AttemptsBounded, LastClaimDecides, GoStale, Rows
<1>7. WaitingFresh'
  <2> SUFFICES ASSUME Prompt, NEW r \in Runners, NEW c \in batch[r]
               PROVE  Lease(c) \notin stale'
    BY DEF WaitingFresh, GoStale, Lease
  <2>1. Lease(c) \in Waiting
    BY DEF Waiting, Lease
  <2>2. Lease(c) # <<j, row[j].claim>>
    BY <2>1 DEF GoStale
  <2> QED BY <2>2 DEF GoStale, WaitingFresh
<1> QED BY <1>2, <1>4, <1>5, <1>6, <1>7

\* The runner takes copies of rows no one runs.
LEMMA ClaimStep == ASSUME JInv, DistinctNames, NEW r \in Runners, Claim(r) PROVE JInv'
<1> USE DEF JInv
<1>1. PICK js \in SUBSET {j \in Jobs : row[j].status = "PENDING"} :
        /\ row' = [j \in Jobs |->
                     IF j \in js
                     THEN [row[j] EXCEPT !.status = "RUNNING", !.by = NameOf[r],
                                         !.attempts = @ + 1, !.claim = @ + 1]
                     ELSE row[j]]
        /\ batch' = [batch EXCEPT ![r] = {Copy(j, r) : j \in js}]
  BY DEF Claim
<1>2. batch[r] = {} /\ work[r] = NoWork /\ UNCHANGED <<stale, blind, work, listed, crashes>>
  BY DEF Claim
<1>3. ASSUME NEW j \in Jobs
      PROVE  row[j] \in Rows
  BY DEF TypeOK
<1>4. ASSUME NEW j \in js
      PROVE  /\ j \in Jobs /\ row[j].status = "PENDING" /\ row'[j] \in Rows
             /\ row'[j].status = "RUNNING" /\ row'[j].by = NameOf[r]
             /\ row'[j].attempts = row[j].attempts + 1 /\ row'[j].claim = row[j].claim + 1
             /\ row'[j].stored = row[j].stored
  <2>1. row'[j] = [row[j] EXCEPT !.status = "RUNNING", !.by = NameOf[r],
                                 !.attempts = @ + 1, !.claim = @ + 1]
    BY <1>1
  <2>2. j \in Jobs /\ row[j].status = "PENDING" /\ row[j] \in Rows
    BY <1>3
  <2>3. NameOf[r] \in Names
    BY DEF Names
  <2>4. row[j].attempts + 1 \in Nat /\ row[j].claim + 1 \in Nat
    BY <2>2 DEF Rows
  <2>5. /\ row'[j].status = "RUNNING" /\ row'[j].by = NameOf[r]
        /\ row'[j].attempts = row[j].attempts + 1 /\ row'[j].claim = row[j].claim + 1
        /\ row'[j].stored = row[j].stored
    BY <2>1, <2>2 DEF Rows
  <2>6. row'[j] \in Rows
    BY <2>1, <2>2, <2>3, <2>4 DEF Rows, Active
  <2> QED BY <2>2, <2>5, <2>6
<1>5. \A j \in Jobs \ js : row'[j] = row[j]
  BY <1>1
<1>6. row' \in [Jobs -> Rows]
  BY <1>1, <1>3, <1>4, <1>5
<1>7. ASSUME NEW j \in js
      PROVE  /\ Copy(j, r) \in ClaimedCopies /\ Copy(j, r).job = j /\ Copy(j, r).by = NameOf[r]
             /\ Copy(j, r).claim = row[j].claim + 1 /\ Copy(j, r).attempts = row[j].attempts + 1
  BY <1>3, <1>4 DEF Copy, ClaimedCopies, Rows, Names
<1>8. TypeOK'
  <2>1. {Copy(j, r) : j \in js} \subseteq ClaimedCopies
    BY <1>7
  <2>2. batch' \in [Runners -> SUBSET ClaimedCopies]
    BY <1>1, <2>1 DEF TypeOK
  <2> QED BY <1>2, <1>6, <2>2 DEF TypeOK
<1>9. Copies(r)' = {Copy(j, r) : j \in js}
  BY <1>1, <1>2 DEF Copies, TypeOK
<1>10. \A q \in Runners \ {r} : Copies(q)' = Copies(q)
  BY <1>1, <1>2 DEF Copies, TypeOK
<1>11. ASSUME NEW c \in Copies(r)'
       PROVE  c.by = NameOf[r] /\ Current(c)' /\ c.job \in js /\ c = Copy(c.job, r)
  <2>1. PICK j \in js : c = Copy(j, r)
    BY <1>9
  <2> QED BY <1>4, <1>7, <2>1 DEF Current
<1>12. ASSUME NEW q \in Runners \ {r}, NEW c \in Copies(q)
       PROVE  /\ c.job \in Jobs
              /\ c.job \in js => Lease(c) \in stale /\ ~Held(c)'
              /\ c.job \notin js => row'[c.job] = row[c.job]
  <2>1. c.job \in Jobs /\ c.by = NameOf[q]
    BY CopyType DEF OwnCopies
  <2>2. CASE c.job \in js
    <3>1. row[c.job].status = "PENDING" /\ row'[c.job].by = NameOf[r]
      BY <1>4, <2>2
    <3>2. NameOf[q] # NameOf[r]
      BY DEF DistinctNames
    <3> QED BY <2>1, <2>2, <3>1, <3>2, NotRunningStale DEF Held
  <2> QED BY <1>5, <2>1, <2>2
<1>13. LeaseKept'
  <2> SUFFICES ASSUME NEW q \in Runners, NEW c \in Copies(q)'
               PROVE  Lease(c) \in stale \/ Current(c)'
    BY <1>2 DEF LeaseKept, Lease
  <2>1. CASE q = r
    BY <1>11, <2>1
  <2>2. CASE q # r
    BY <1>10, <1>12, <2>2 DEF LeaseKept, Current
  <2> QED BY <2>1, <2>2
<1>14. OwnCopies'
  <2> SUFFICES ASSUME NEW q \in Runners
               PROVE  /\ \A c \in Copies(q)' : c.by = NameOf[q] /\ (Held(c)' => Current(c)')
                      /\ \A c, d \in Copies(q)' : c.job = d.job => c = d
                      /\ work'[q] # NoWork => work'[q].of \notin batch'[q]
    BY DEF OwnCopies
  <2>1. CASE q = r
    <3>1. \A c, d \in Copies(r)' : c.job = d.job => c = d
      BY <1>11
    <3> QED BY <1>2, <1>11, <2>1, <3>1
  <2>2. CASE q # r
    <3>1. ASSUME NEW c \in Copies(q)'
          PROVE  c.by = NameOf[q] /\ (Held(c)' => Current(c)')
      BY <1>10, <1>12, <2>2 DEF OwnCopies, Held, Current
    <3>2. batch'[q] = batch[q] /\ work'[q] = work[q]
      BY <1>1, <1>2, <2>2 DEF TypeOK
    <3> QED BY <1>10, <2>2, <3>1, <3>2 DEF OwnCopies
  <2> QED BY <2>1, <2>2
<1>15. StaleClaims'
  <2> SUFFICES ASSUME NEW s \in stale
               PROVE  s[2] <= row'[s[1]].claim
    BY <1>2 DEF StaleClaims
  <2>1. s[1] \in Jobs /\ s[2] \in Nat /\ s[2] <= row[s[1]].claim
    BY DEF StaleClaims, TypeOK
  <2>2. row[s[1]].claim \in Nat
    BY <1>3, <2>1 DEF Rows
  <2> QED BY <1>4, <1>5, <2>1, <2>2
<1>16. BlindFailed'
  BY <1>2, <1>4, <1>5, JobsAssumption DEF BlindFailed, TypeOK, JobsAssumption
<1>17. AttemptsBounded'
  <2> SUFFICES ASSUME NEW j \in Jobs
               PROVE  /\ row'[j].attempts <= MaxAttempts
                      /\ row'[j].status \in {"absent", "PENDING"} => row'[j].attempts < MaxAttempts
    BY DEF AttemptsBounded
  <2>1. CASE j \in js
    <3>1. row[j].attempts \in Nat /\ row[j].attempts < MaxAttempts
      BY <1>3, <1>4, <2>1 DEF AttemptsBounded, Rows
    <3> QED BY <1>4, <2>1, <3>1, JobsAssumption DEF JobsAssumption
  <2> QED BY <1>5, <2>1 DEF AttemptsBounded
<1>18. LastClaimDecides'
  BY <1>4, <1>5 DEF LastClaimDecides
<1>19. WaitingFresh'
  <2> SUFFICES ASSUME Prompt, NEW q \in Runners, NEW c \in batch'[q]
               PROVE  Lease(c) \notin stale
    BY <1>2 DEF WaitingFresh, Lease
  <2>1. CASE q = r
    <3>1. c \in Copies(r)'
      BY <2>1 DEF Copies
    <3>2. c.job \in js /\ c.claim = row[c.job].claim + 1 /\ row[c.job].claim \in Nat
      BY <1>3, <1>7, <1>11, <3>1 DEF Rows
    <3> QED BY <3>2 DEF Lease, StaleClaims
  <2>2. CASE q # r
    BY <1>1, <2>2 DEF WaitingFresh, TypeOK
  <2> QED BY <2>1, <2>2
<1> QED BY <1>8, <1>13, <1>14, <1>15, <1>16, <1>17, <1>18, <1>19

\* The next copy of the batch becomes the work.
LEMMA BeginStep == ASSUME JInv, NEW r \in Runners, Begin(r) PROVE JInv'
<1> USE DEF JInv
<1>1. PICK c \in batch[r] : /\ work' = [work EXCEPT ![r] = [at |-> "work", of |-> c]]
                            /\ batch' = [batch EXCEPT ![r] = @ \ {c}]
  BY DEF Begin
<1>2. c \in ClaimedCopies /\ work[r] = NoWork
  BY DEF TypeOK, Begin
<1>3. TypeOK'
  BY <1>1, <1>2 DEF TypeOK, Begin
<1>4. work'[r] = [at |-> "work", of |-> c] /\ work'[r] # NoWork /\ batch'[r] = batch[r] \ {c}
  BY <1>1 DEF TypeOK, NoWork
<1>5. \A q \in Runners \ {r} : work'[q] = work[q] /\ batch'[q] = batch[q]
  BY <1>1 DEF TypeOK
<1>6. ASSUME NEW q \in Runners
      PROVE  /\ batch'[q] \subseteq batch[q]
             /\ Copies(q)' \subseteq Copies(q)
             /\ work'[q] # NoWork => work'[q].of \notin batch'[q]
  <2>1. CASE q = r
    BY <1>2, <1>4, <2>1 DEF Copies
  <2>2. CASE q # r
    BY <1>5, <2>2 DEF Copies, OwnCopies
  <2> QED BY <2>1, <2>2
<1> QED BY <1>3, <1>6, FewerCopies DEF Begin

\* What a dead runner had is nobody's any more.
LEMMA CrashStep == ASSUME JInv, NEW r \in Runners, Crash(r) PROVE JInv'
<1> USE DEF JInv
<1>1. TypeOK'
  BY DEF TypeOK, Crash
<1>2. ASSUME NEW q \in Runners
      PROVE  /\ batch'[q] \subseteq batch[q]
             /\ Copies(q)' \subseteq Copies(q)
             /\ work'[q] # NoWork => work'[q].of \notin batch'[q]
  BY DEF Crash, Copies, TypeOK, OwnCopies
<1> QED BY <1>1, <1>2, FewerCopies DEF Crash

\* A result is stored over the very claim it is the result of, or not at all.
LEMMA FinalizeStep == ASSUME JInv, DistinctNames, NEW r \in Runners, Finalize(r) PROVE JInv'
<1> USE DEF JInv
<1>1. PICK result \in Results : Store(work[r].of, result)
  BY DEF Finalize
<1>2. /\ work[r] # NoWork /\ work' = [work EXCEPT ![r] = NoWork]
      /\ UNCHANGED <<stale, blind, batch, listed, crashes>>
  BY DEF Finalize
<1> DEFINE c == work[r].of
           j == c.job
<1>3. c \in Copies(r) /\ c \in ClaimedCopies /\ j \in Jobs /\ c.by = NameOf[r]
  BY <1>2, CopyType DEF Copies, OwnCopies
<1>4. work'[r] = NoWork /\ \A q \in Runners : work'[q] = work[q] \/ work'[q] = NoWork
  BY <1>2 DEF TypeOK
<1>5. Copies(r)' = batch[r] /\ c \notin batch[r]
  BY <1>2, <1>4 DEF Copies, OwnCopies
<1>6. \A q \in Runners \ {r} : Copies(q)' = Copies(q)
  BY <1>2 DEF Copies, TypeOK
<1>7. work' \in [Runners -> {NoWork} \cup [at : {"work"}, of : ClaimedCopies]]
  BY <1>2 DEF TypeOK
<1>8. CASE Held(c)
  <2>1. Current(c) /\ row[j] \in Rows
    BY <1>3, <1>8 DEF OwnCopies, TypeOK
  <2>2. row' = [row EXCEPT ![j].status = StatusAfter(c, result), ![j].by = Nobody,
                           ![j].stored = c.claim]
    BY <1>1, <1>8 DEF Store
  <2>3. /\ StatusAfter(c, result) \in {"SUCCESS", "SKIPPED", "FAILED", "PENDING"}
        /\ StatusAfter(c, result) = "PENDING" => c.attempts < MaxAttempts
    BY DEF StatusAfter, Results
  <2>4. row'[j] = [row[j] EXCEPT !.status = StatusAfter(c, result), !.by = Nobody, !.stored = c.claim]
    BY <1>3, <2>2 DEF TypeOK
  <2>5. /\ row'[j] \in Rows /\ row'[j].status = StatusAfter(c, result)
        /\ row'[j].claim = row[j].claim /\ row'[j].attempts = row[j].attempts
        /\ row'[j].stored = c.claim
    BY <1>3, <2>1, <2>3, <2>4 DEF Rows, Active, Ended, ClaimedCopies
  <2>6. \A i \in Jobs \ {j} : row'[i] = row[i]
    BY <2>2 DEF TypeOK
  <2>7. row' \in [Jobs -> Rows]
    BY <2>2, <2>5, <2>6, <1>3 DEF TypeOK
  <2>8. \A i \in blind' : row'[i].status = "FAILED"
    BY <1>2, <1>8, <2>6, JobsAssumption DEF BlindFailed, TypeOK, Held, JobsAssumption
  <2>9. \A q \in Runners : \A d \in Copies(q)' : d.job = j => Lease(d) \in stale
    <3> SUFFICES ASSUME NEW q \in Runners, NEW d \in Copies(q)', d.job = j, Lease(d) \notin stale
                 PROVE  FALSE
      OBVIOUS
    <3>1. d \in Copies(q)
      BY <1>5, <1>6 DEF Copies
    <3>2. Current(d) /\ d.by = NameOf[q]
      BY <3>1 DEF LeaseKept, OwnCopies
    <3>3. q = r
      BY <1>3, <2>1, <3>2 DEF Current, DistinctNames
    <3>4. d = c
      BY <1>3, <3>1, <3>3 DEF OwnCopies
    <3> QED BY <1>5, <3>3, <3>4
  <2>10. row'[j].status = "PENDING" => row'[j].attempts < MaxAttempts
    BY <2>1, <2>3, <2>5 DEF Current
  <2>11. row'[j].stored = row[j].claim
    BY <2>1, <2>5 DEF Current
  <2>12. blind' \subseteq Live /\ listed' \subseteq stale /\ UNCHANGED <<stale, crashes, batch>>
    BY <1>2 DEF TypeOK
  <2>13. row'[j].status # "RUNNING" /\ row'[j].status # "absent"
    BY <2>3, <2>5
  <2> QED BY <1>3, <1>4, <1>7, <2>5, <2>6, <2>7, <2>8, <2>9, <2>10, <2>11, <2>12, <2>13, RowMoves
<1>9. CASE ~Held(c)
  <2>1. UNCHANGED row
    BY <1>1, <1>9 DEF Store
  <2>2. TypeOK'
    BY <1>2, <1>7, <2>1 DEF TypeOK
  <2>3. \A q \in Runners : /\ batch'[q] \subseteq batch[q]
                           /\ Copies(q)' \subseteq Copies(q)
                           /\ work'[q] # NoWork => work'[q].of \notin batch'[q]
    BY <1>2, <1>4, <1>5, <1>6 DEF Copies, OwnCopies
  <2> QED BY <1>2, <2>1, <2>2, <2>3, FewerCopies
<1> QED BY <1>8, <1>9

-----------------------------------------------------------------------------
LEMMA InvInit == Init => JInv
<1> SUFFICES ASSUME Init
             PROVE  JInv
  OBVIOUS
<1>1. 0 <= MaxAttempts /\ 0 < MaxAttempts
  BY JobsAssumption DEF JobsAssumption
<1>2. TypeOK
  BY DEF Init, TypeOK, Rows
<1>3. \A r \in Runners : Copies(r) = {}
  BY DEF Init, Copies
<1>4. LeaseKept /\ OwnCopies
  BY <1>3 DEF LeaseKept, OwnCopies, Init
<1>5. StaleClaims /\ BlindFailed /\ AttemptsBounded /\ LastClaimDecides /\ WaitingFresh
  BY <1>1 DEF Init, StaleClaims, BlindFailed, AttemptsBounded, LastClaimDecides, WaitingFresh
<1> QED BY <1>2, <1>4, <1>5 DEF JInv

LEMMA InvStep == ASSUME JInv, DistinctNames, [Next]_vars PROVE JInv'
<1>1. CASE UNCHANGED vars
  <2>1. TypeOK'
    BY <1>1 DEF JInv, TypeOK, vars
  <2>2. \A q \in Runners : /\ batch'[q] \subseteq batch[q]
                           /\ Copies(q)' \subseteq Copies(q)
                           /\ work'[q] # NoWork => work'[q].of \notin batch'[q]
    BY <1>1 DEF JInv, OwnCopies, Copies, vars
  <2> QED BY <1>1, <2>1, <2>2, FewerCopies DEF vars
<1>2. CASE Next
  BY <1>2, EnqueueStep, GoStaleStep, CancelStep, RequeueStep, ClaimStep, BeginStep, FinalizeStep,
     CrashStep, ListStaleStep, ReleaseStep DEF Next
<1> QED BY <1>1, <1>2

\* The invariant holds of every run of the queue.
LEMMA Invariance == ASSUME DistinctNames PROVE Spec => []JInv
  BY InvInit, InvStep, PTL DEF Spec

\* Two runners never work on the same claim of a job: while two of them work on
\* one job, the lease of one has been taken away (claim_background_jobs).
THEOREM JobsOneAtATime == ASSUME DistinctNames PROVE Spec => []OneAtATime
<1>1. JInv => OneAtATime
  <2> SUFFICES ASSUME JInv, NEW r \in Runners, NEW q \in Runners, r # q,
                      work[r] # NoWork, work[q] # NoWork, work[r].of.job = work[q].of.job
               PROVE  {<<work[p].of.job, work[p].of.claim>> : p \in {r, q}} \cap stale # {}
    BY DEF OneAtATime
  <2>1. work[r].of \in Copies(r) /\ work[q].of \in Copies(q)
    BY DEF Copies
  <2>2. ~(Current(work[r].of) /\ Current(work[q].of))
    BY <2>1 DEF JInv, OwnCopies, DistinctNames, Current
  <2>3. Lease(work[r].of) \in stale \/ Lease(work[q].of) \in stale
    BY <2>1, <2>2 DEF JInv, LeaseKept
  <2> QED BY <2>3 DEF Lease
<1> QED BY <1>1, Invariance, PTL

\* The status a job ends with is the result of its last claim: updateClaimed
\* stores nothing for a runner whose lease was taken away.
THEOREM JobsLastClaimDecides == ASSUME DistinctNames PROVE Spec => []LastClaimDecides
<1>1. JInv => LastClaimDecides
  BY DEF JInv
<1> QED BY <1>1, Invariance, PTL

\* No job is claimed more than max_attempts times between two requests of an
\* operator: finalizeJob and releaseStaleJobs put back none without attempts left.
THEOREM JobsAttemptsBounded == ASSUME DistinctNames PROVE Spec => []AttemptsBounded
<1>1. JInv => AttemptsBounded
  BY DEF JInv
<1> QED BY <1>1, Invariance, PTL

\* A live job given up as uncertain is not begun before an operator asks for
\* it, when what waits in a batch does not go stale (releaseStaleJobs).
THEOREM JobsNoBlindRetry == ASSUME DistinctNames, Prompt PROVE Spec => NoBlindRetry
<1>1. JInv /\ [Next]_vars =>
        [\A r \in Runners :
           (work[r] = NoWork /\ work'[r] # NoWork) => work'[r].of.job \notin blind]_vars
  <2> SUFFICES ASSUME JInv, [Next]_vars, NEW r \in Runners, work[r] = NoWork, work'[r] # NoWork
               PROVE  work'[r].of.job \notin blind
    OBVIOUS
  <2>1. Begin(r)
    <3>1. CASE UNCHANGED vars
      BY <3>1 DEF vars
    <3>2. ASSUME NEW q \in Runners, Finalize(q) \/ Crash(q)
          PROVE  FALSE
      BY <3>2 DEF Finalize, Crash, JInv, TypeOK
    <3>3. ASSUME NEW q \in Runners, Begin(q)
          PROVE  q = r
      BY <3>3 DEF Begin, JInv, TypeOK
    <3> QED BY <3>1, <3>2, <3>3 DEF Next, Enqueue, GoStale, Cancel, Requeue, Claim, ListStale, Release
  <2>2. PICK c \in batch[r] : work' = [work EXCEPT ![r] = [at |-> "work", of |-> c]]
    BY <2>1 DEF Begin
  <2>3. work'[r].of = c
    BY <2>2 DEF JInv, TypeOK
  <2>4. Lease(c) \notin stale /\ c \in Copies(r)
    BY DEF JInv, WaitingFresh, Copies
  <2>5. row[c.job].status = "RUNNING"
    BY <2>4 DEF JInv, LeaseKept, Current
  <2> QED BY <2>3, <2>5 DEF JInv, BlindFailed
<1> QED BY <1>1, Invariance, PTL DEF Spec, NoBlindRetry
=============================================================================
