--------------------------- MODULE JobQueueProofs ---------------------------
(***************************************************************************)
(* Proofs about the queue, for every set of jobs, items, workers and       *)
(* credentials and every value of the limits: the types and the quiet of   *)
(* stopped jobs; the sessions and their items; the limits and the drain;   *)
(* the deliveries, results and retry budgets; the jobs and their counters. *)
(***************************************************************************)
EXTENDS JobQueueProps, FiniteSetTheorems, TLAPS

-----------------------------------------------------------------------------
(***************************************************************************)
(* TypeOK alone is not inductive: a technical error adds one to retries,   *)
(* which stays within the schema because an open item never has its budget *)
(* spent.  GoodRows are the rows of the schema that satisfy this.          *)
(***************************************************************************)
GoodRows == {row \in ItemRows : row.status \in OpenItem => row.retries < MaxRetries}

TypeInv == TypeOK /\ item \in [Items -> GoodRows]

\* Zero is a value of every counter and clock of the schema.
LEMMA ZeroInRange ==
    /\ 0 \in 0 .. MaxRetries /\ 0 \in 0 .. BackoffTicks /\ BackoffTicks \in 0 .. BackoffTicks
    /\ 0 \in 0 .. LeaseTicks /\ LeaseTicks \in 0 .. LeaseTicks
    /\ 0 \in 0 .. MaxClaims /\ 0 < MaxRetries
    /\ 1 \in 1 .. MaxVersion
BY JobQueueAssumption

\* Taking a row out of a worker's hands keeps it good.
LEMMA UnheldType ==
    ASSUME NEW row \in ItemRows, NEW s \in ItemStates,
           NEW o \in Outcomes \cup {None, "retryable_error"},
           NEW r \in 0 .. MaxRetries, NEW wait \in 0 .. BackoffTicks,
           s \in OpenItem => r < MaxRetries
    PROVE  Unheld(row, s, o, r, wait) \in GoodRows
BY JobQueueAssumption DEF Unheld, NoHold, Holds, ItemRows, GoodRows

\* A row closed by a final answer is good.
LEMMA AnsweredType ==
    ASSUME NEW row \in ItemRows, NEW o \in Outcomes
    PROVE  Answered(row, o) \in GoodRows
<1>1. row.retries \in 0 .. MaxRetries
    BY DEF ItemRows
<1> QED BY <1>1, ZeroInRange, UnheldType DEF Answered, ItemStates, OpenItem

\* A row given back for another attempt, or given up, is good if its budget
\* was not spent before.
LEMMA RetriedType ==
    ASSUME NEW row \in ItemRows, NEW o \in Outcomes, NEW b \in BOOLEAN,
           row.retries < MaxRetries
    PROVE  Retried(row, o, b) \in GoodRows
<1>1. /\ row.retries \in 0 .. MaxRetries
      /\ row.outcome \in Outcomes \cup {None, "retryable_error"}
    BY DEF ItemRows
<1>2. Spent(row, o, b) \in 0 .. MaxRetries
    BY <1>1, JobQueueAssumption DEF Spent
<1> QED BY <1>1, <1>2, ZeroInRange, JobQueueAssumption, UnheldType
        DEF Retried, ItemStates, OpenItem

\* A good open row dropped at the end of a drain is good.
LEMMA DroppedType ==
    ASSUME NEW row \in GoodRows, NEW s, row.status \in OpenItem
    PROVE  Dropped(row, s) \in GoodRows
<1>1. /\ row \in ItemRows
      /\ row.retries \in 0 .. MaxRetries /\ row.retries < MaxRetries
      /\ row.outcome \in Outcomes \cup {None, "retryable_error"}
    BY DEF ItemRows, GoodRows
<1> QED BY <1>1, ZeroInRange, UnheldType DEF Dropped, ItemStates, OpenItem

\* A good row given back by a release is good.
LEMMA ReturnedType ==
    ASSUME NEW row \in GoodRows, row.status = "leased"
    PROVE  Unheld(row, "pending", row.outcome, row.retries, 0) \in GoodRows
<1>1. /\ row \in ItemRows
      /\ row.retries \in 0 .. MaxRetries /\ row.retries < MaxRetries
      /\ row.outcome \in Outcomes \cup {None, "retryable_error"}
    BY DEF ItemRows, GoodRows, OpenItem
<1> QED BY <1>1, ZeroInRange, UnheldType DEF ItemStates, OpenItem

\* A ready row, once claimed below the bound on deliveries, is good.
LEMMA ClaimedType ==
    ASSUME NEW row \in ItemRows, NEW w \in Workers, NEW c \in Creds,
           row.attempts < MaxClaims, row.retries < MaxRetries
    PROVE  Claimed(row, w, c) \in GoodRows
BY JobQueueAssumption DEF Claimed, ItemRows, GoodRows, Holds, ItemStates, OpenItem

\* Counting the items of a job yields a natural number for every counter.
LEMMA RecountType ==
    ASSUME NEW j \in Jobs, NEW rows
    PROVE  Recount(j, rows) \in [Counters -> Nat]
<1> SUFFICES ASSUME NEW k \in Counters
             PROVE  Cardinality({i \in ItemsOf(j) : k \in CountersOf(rows[i])}) \in Nat
    BY DEF Recount
<1>1. IsFiniteSet({i \in ItemsOf(j) : k \in CountersOf(rows[i])})
    BY JobQueueAssumption, FS_Subset DEF ItemsOf
<1> QED BY <1>1, FS_CardinalityType

\* Shifting the counters by one transition keeps them natural numbers.
LEMMA ShiftedType ==
    ASSUME NEW counts \in [Counters -> Nat], NEW old, NEW new
    PROVE  Shifted(counts, old, new) \in [Counters -> Nat]
BY DEF Shifted

\* Closing a job from its counters yields a job state.
LEMMA FinalizedType ==
    ASSUME NEW s \in JobStates, NEW counts, NEW j
    PROVE  Finalized(s, counts, j) \in JobStates
BY DEF Finalized, JobStates, EndedStates
\* Closing deliveries keeps the attempt table in its schema.
LEMMA ClosedType ==
    ASSUME NEW rows, NEW closed, NEW s \in AttemptStates,
           rows \in [Items -> [Numbers -> AttemptRows]]
    PROVE  Closed(rows, closed, s)
             \in [Items -> [Numbers -> AttemptRows]]
<1>1. ASSUME NEW i \in Items, NEW n \in Numbers
      PROVE  /\ rows[i][n] \in AttemptRows
             /\ [rows[i][n] EXCEPT !.status = s] \in AttemptRows
    <2>1. rows[i][n] \in AttemptRows
        OBVIOUS
    <2> QED BY <2>1 DEF AttemptRows
<1> QED BY <1>1 DEF Closed

\* The shared end of pause, cancel, release and maintenance keeps the types.
LEMMA FinalizeDrainingType ==
    ASSUME TypeOK, NEW j \in Jobs, NEW s \in JobStates, NEW rows \in [Items -> GoodRows],
           NEW log \in [Items -> [Numbers -> AttemptRows]],
           NEW leases \in [Creds -> LeaseRows],
           FinalizeDraining(j, s, rows, log, leases),
           UNCHANGED <<version, result, claim>>
    PROVE  TypeInv'
<1>1. CASE UNCHANGED tally /\ status' = [status EXCEPT ![j] = s]
           /\ item' = rows /\ attempt' = log /\ lease' = leases
    BY <1>1 DEF TypeInv, TypeOK, GoodRows
<1>2. CASE s \in DrainingStates /\ ~Reserved(j, leases)
    <2> DEFINE open == {i \in ItemsOf(j) : rows[i].status \in OpenItem}
               left == [i \in Items |-> IF i \in open THEN Dropped(rows[i], s) ELSE rows[i]]
               counts == Recount(j, left)
    <2>1. left \in [Items -> GoodRows]
        BY DroppedType DEF ItemsOf
    <2>2. counts \in [Counters -> Nat]
        BY RecountType
    <2>3. Closed(log, open, "abandoned")
            \in [Items -> [Numbers -> AttemptRows]]
        BY ClosedType DEF AttemptStates
    <2>4. Finalized("running", counts, j) \in JobStates
        BY FinalizedType DEF JobStates, ActiveStates
    <2>5. NoLease \in LeaseRows
        BY ZeroInRange DEF NoLease, LeaseRows
    <2>6. /\ item' = left
          /\ attempt' = Closed(log, open, "abandoned")
          /\ tally' = [tally EXCEPT ![j] = counts]
          /\ lease' = [c \in Creds |-> IF leases[c].job = j THEN NoLease ELSE leases[c]]
          /\ \E t \in {"cancelled", "paused", Finalized("running", counts, j)} :
                status' = [status EXCEPT ![j] = t]
        BY <1>2 DEF FinalizeDraining
    <2> HIDE DEF open, left, counts
    <2> QED BY <2>1, <2>2, <2>3, <2>4, <2>5, <2>6 DEF TypeInv, TypeOK, GoodRows, JobStates
<1> QED BY <1>1, <1>2 DEF FinalizeDraining

-----------------------------------------------------------------------------
(***************************************************************************)
(* Type correctness of the queue.                                          *)
(***************************************************************************)
\* The tables of an empty queue are good.
LEMMA TypeInit == Init => TypeInv
<1> SUFFICES ASSUME Init PROVE TypeInv
    OBVIOUS
<1>1. NewItem \in GoodRows
    BY ZeroInRange, JobQueueAssumption
    DEF NewItem, NoHold, GoodRows, ItemRows, Holds, ItemStates, OpenItem
<1>2. NoLease \in LeaseRows /\ NoResult \in ResultRows
    BY ZeroInRange DEF NoLease, LeaseRows, NoResult, ResultRows
<1>3. NoAttempt \in AttemptRows
    BY DEF NoAttempt, AttemptRows, AttemptStates
<1> QED BY <1>1, <1>2, <1>3, ZeroInRange DEF Init, TypeInv, TypeOK, GoodRows, JobStates

\* No open item has its budget spent, so the items that maintenance looks for
\* in expire_exhausted_job_items do not exist.
LEMMA NothingToExpire ==
    ASSUME TypeInv, NEW j
    PROVE  Exhausted(j) = {}
<1> SUFFICES ASSUME NEW i \in ItemsOf(j), item[i].retries >= MaxRetries,
                    item[i].status \in OpenItem
             PROVE  FALSE
    BY DEF Exhausted, OpenItem
<1>1. /\ item[i].retries \in 0 .. MaxRetries
      /\ item[i].retries < MaxRetries
    BY DEF TypeInv, ItemsOf, GoodRows, ItemRows
<1> QED BY <1>1, JobQueueAssumption

\* Every step of the queue keeps the types.
LEMMA TypeStep == TypeInv /\ [Next]_vars => TypeInv'
<1> SUFFICES ASSUME TypeInv, [Next]_vars PROVE TypeInv'
    OBVIOUS
<1> USE DEF TypeInv
<1>0. /\ TypeOK
      /\ item \in [Items -> GoodRows]
      /\ \A i \in Items : JobOf[i] \in Jobs
    BY JobQueueAssumption
<1>1. ASSUME NEW j \in Jobs, Create(j) PROVE TypeInv'
    BY <1>0, <1>1 DEF Create, TypeOK, JobStates, ActiveStates
<1>2. ASSUME NEW w \in Workers, NEW c \in Creds, NEW j \in Jobs, Acquire(w, c, j)
      PROVE  TypeInv'
    <2>1. ASSUME NEW i \in Items PROVE [item[i] EXCEPT !.hold.via = None] \in GoodRows
        BY <1>0 DEF GoodRows, ItemRows, Holds
    <2>2. NoLease \in LeaseRows /\ [worker |-> w, job |-> j, ttl |-> LeaseTicks] \in LeaseRows
        BY ZeroInRange DEF NoLease, LeaseRows
    <2> QED BY <1>0, <1>2, <2>1, <2>2 DEF Acquire, TypeOK, GoodRows
<1>3. ASSUME NEW c \in Creds, Heartbeat(c) PROVE TypeInv'
    <2>1. ASSUME NEW i \in Items PROVE [item[i] EXCEPT !.hold.ttl = LeaseTicks] \in GoodRows
        BY <1>0, ZeroInRange DEF GoodRows, ItemRows, Holds
    <2>2. [lease[c] EXCEPT !.ttl = LeaseTicks] \in LeaseRows
        <3>1. lease[c] \in [worker : Workers, job : Jobs, ttl : 0 .. LeaseTicks]
            BY <1>0, <1>3 DEF TypeOK, LeaseRows, NoLease, Heartbeat, LiveLeases
        <3> QED BY <3>1, ZeroInRange DEF LeaseRows
    <2> QED BY <1>0, <1>3, <2>1, <2>2 DEF Heartbeat, TypeOK, GoodRows
<1>4. ASSUME NEW w \in Workers, ClaimRead(w) PROVE TypeInv'
    BY <1>0, <1>4 DEF ClaimRead, Executable, TypeOK
<1>5. ASSUME NEW w \in Workers, NEW c \in Creds, ClaimCommit(w, c) PROVE TypeInv'
    <2> DEFINE j == lease[c].job
               batch == Batch(j)
               expired == Closed(attempt, {i \in batch : item[i].status = "leased"},
                                 "lease_expired")
    <2>1. ASSUME NEW i \in batch PROVE Claimed(item[i], w, c) \in GoodRows
        <3>1. i \in Items /\ item[i] \in ItemRows
            BY <1>0 DEF Batch, ItemsOf, GoodRows
        <3>2. item[i].attempts < MaxClaims /\ item[i].retries < MaxRetries
            BY <1>5 DEF ClaimCommit, Batch, Ready
        <3> QED BY <3>1, <3>2, ClaimedType
    <2>2. expired \in [Items -> [Numbers -> AttemptRows]]
        BY <1>0, ClosedType DEF TypeOK, AttemptStates
    <2>3. item' \in [Items -> GoodRows]
        BY <1>0, <1>5, <2>1 DEF ClaimCommit
    <2>4. attempt' \in [Items -> [Numbers -> AttemptRows]]
        <3>1. [worker |-> w, status |-> "started"] \in AttemptRows
            BY DEF AttemptRows, AttemptStates
        <3>2. attempt' = [i \in Items |->
                            IF i \in batch
                            THEN [expired[i] EXCEPT ![item[i].attempts + 1] =
                                    [worker |-> w, status |-> "started"]]
                            ELSE expired[i]]
            BY <1>5 DEF ClaimCommit
        <3> HIDE DEF expired, batch
        <3>3. ASSUME NEW i \in Items
              PROVE  [expired[i] EXCEPT ![item[i].attempts + 1] =
                        [worker |-> w, status |-> "started"]] \in [Numbers -> AttemptRows]
            BY <2>2, <3>1
        <3> QED BY <2>2, <3>2, <3>3
    <2>5. status' \in [Jobs -> JobStates]
        BY <1>0, <1>5 DEF ClaimCommit, TypeOK, JobStates, ActiveStates
    <2> QED BY <1>0, <1>5, <2>3, <2>4, <2>5 DEF ClaimCommit, TypeOK, GoodRows
<1>6. ASSUME NEW w \in Workers, ClaimFails(w) PROVE TypeInv'
    BY <1>0, <1>6 DEF ClaimFails, TypeOK
<1>7. ASSUME NEW i \in Items, NEW s \in AttemptStates, NEW row \in GoodRows, Close(i, s, row),
             result' \in [Items -> ResultRows]
      PROVE  TypeInv'
    <2>1. Shifted(tally[JobOf[i]], item[i], row) \in [Counters -> Nat]
        BY <1>0, ShiftedType DEF TypeOK
    <2>2. Finalized(status[JobOf[i]], Shifted(tally[JobOf[i]], item[i], row), JobOf[i]) \in JobStates
        BY <1>0, FinalizedType DEF TypeOK
    <2>3. attempt' \in [Items -> [Numbers -> AttemptRows]]
        <3>1. ASSUME NEW n \in Numbers PROVE [attempt[i][n] EXCEPT !.status = s] \in AttemptRows
            <4>1. attempt[i][n] \in AttemptRows
                BY <1>0 DEF TypeOK
            <4> QED BY <4>1 DEF AttemptRows
        <3>2. [attempt[i] EXCEPT ![item[i].attempts].status = s] \in [Numbers -> AttemptRows]
            BY <1>0, <3>1 DEF TypeOK
        <3> QED BY <1>0, <1>7, <3>2 DEF Close, TypeOK
    <2> QED BY <1>0, <1>7, <2>1, <2>2, <2>3 DEF Close, TypeOK, GoodRows
<1>8. ASSUME NEW i \in Items, NEW n \in Numbers, NEW o \in Outcomes, Answer(i, n, o)
      PROVE  TypeInv'
    <2>1. Answered(item[i], o) \in GoodRows /\ o \in AttemptStates
        BY <1>0, AnsweredType, JobQueueAssumption DEF GoodRows, AttemptStates
    <2>2. result' \in [Items -> ResultRows]
        BY <1>0, <1>8 DEF Answer, TypeOK, ResultRows, GoodRows, ItemRows, Numbers
    <2> QED BY <1>7, <1>8, <2>1, <2>2 DEF Answer
<1>9. ASSUME NEW i \in Items, NEW n \in Numbers, NEW o \in Outcomes, NEW b \in BOOLEAN,
             Requeue(i, n, o, b)
      PROVE  TypeInv'
    <2>1. item[i] \in ItemRows /\ item[i].retries < MaxRetries
        BY <1>0, <1>9 DEF Requeue, Accepts, Owns, GoodRows, OpenItem
    <2>2. Retried(item[i], o, b) \in GoodRows
        BY <2>1, RetriedType
    <2>3. (IF b THEN o ELSE "abandoned") \in AttemptStates
        BY JobQueueAssumption DEF AttemptStates
    <2> QED BY <1>0, <1>7, <1>9, <2>2, <2>3 DEF Requeue, TypeOK
<1>10. ASSUME NEW c \in Creds, Release(c) PROVE TypeInv'
    <2> DEFINE j == lease[c].job
               back == {i \in ItemsOf(j) :
                            /\ item[i].status = "leased" /\ item[i].hold.cred = c
                            /\ item[i].hold.owner = lease[c].worker}
               rows == [i \in Items |->
                            IF i \in back
                            THEN Unheld(item[i], "pending", item[i].outcome, item[i].retries, 0)
                            ELSE item[i]]
               log == Closed(attempt, back, "abandoned")
               leases == [lease EXCEPT ![c] = NoLease]
    <2>1. j \in Jobs /\ status[j] \in JobStates
        BY <1>0, <1>10 DEF Release, TypeOK, LeaseRows
    <2>2. rows \in [Items -> GoodRows]
        BY <1>0, ReturnedType DEF ItemsOf
    <2>3. log \in [Items -> [Numbers -> AttemptRows]]
        BY <1>0, ClosedType DEF TypeOK, AttemptStates
    <2>4. leases \in [Creds -> LeaseRows]
        BY <1>0 DEF TypeOK, LeaseRows
    <2>5. FinalizeDraining(j, status[j], rows, log, leases) /\ UNCHANGED <<version, result, claim>>
        BY <1>10 DEF Release
    <2> HIDE DEF j, rows, log, leases
    <2> QED BY <1>0, <2>1, <2>2, <2>3, <2>4, <2>5, FinalizeDrainingType
<1>11. ASSUME NEW j \in Jobs, Pause(j) \/ Cancel(j) \/ MaintainDraining(j) PROVE TypeInv'
    BY <1>0, <1>11, FinalizeDrainingType
    DEF Pause, Cancel, MaintainDraining, TypeOK, JobStates, DrainingStates
<1>12. ASSUME NEW j \in Jobs, Resume(j) PROVE TypeInv'
    BY <1>0, <1>12 DEF Resume, TypeOK, JobStates, ActiveStates
<1>13. ASSUME NEW j \in Jobs, Retry(j) PROVE TypeInv'
    <2>1. ASSUME NEW i \in Items PROVE Unheld(item[i], "pending", None, 0, 0) \in GoodRows
        BY <1>0, ZeroInRange, UnheldType DEF GoodRows, ItemStates, OpenItem
    <2>2. item' \in [Items -> GoodRows]
        BY <1>0, <1>13, <2>1 DEF Retry
    <2>3. attempt' \in [Items -> [Numbers -> AttemptRows]]
        BY <1>0, <1>13, ClosedType DEF Retry, TypeOK, AttemptStates
    <2>4. result' \in [Items -> ResultRows]
        BY <1>0, <1>13 DEF Retry, Superseded, TypeOK, ResultRows
    <2>5. tally' \in [Jobs -> [Counters -> Nat]]
        <3>1. [tally[j] EXCEPT !["failed"] = 0, !["retryable"] = 0, !["permanent"] = 0]
                \in [Counters -> Nat]
            BY <1>0 DEF TypeOK
        <3> QED BY <1>0, <1>13, <3>1 DEF Retry, TypeOK
    <2>6. status' \in [Jobs -> JobStates]
        BY <1>0, <1>13 DEF Retry, TypeOK, JobStates, ActiveStates
    <2>7. version' \in [Jobs -> 1 .. MaxVersion]
        BY <1>0, <1>13, JobQueueAssumption DEF Retry, TypeOK
    <2> QED BY <1>0, <1>13, <2>2, <2>3, <2>4, <2>5, <2>6, <2>7 DEF Retry, TypeOK, GoodRows
<1>14. ASSUME NEW j \in Jobs, MaintainActive(j) PROVE TypeInv'
    <2>1. item' \in [Items -> GoodRows]
        BY <1>0, <1>14, NothingToExpire DEF MaintainActive
    <2>2. attempt' \in [Items -> [Numbers -> AttemptRows]]
        BY <1>0, <1>14, ClosedType DEF MaintainActive, TypeOK, AttemptStates
    <2>3. tally' = tally
        <3> DEFINE gained(k) == Cardinality({i \in {} : k \in CountersOf(item'[i])})
                   lost(k) == Cardinality({i \in {} : k \in CountersOf(item[i])})
        <3>1. \A k : gained(k) = 0 /\ lost(k) = 0
            BY FS_EmptySet
        <3> QED BY <1>0, <1>14, <3>1, NothingToExpire DEF MaintainActive, TypeOK
    <2>4. status' \in [Jobs -> JobStates]
        BY <1>0, <1>14, FinalizedType DEF MaintainActive, TypeOK
    <2> QED BY <1>0, <1>14, <2>1, <2>2, <2>3, <2>4 DEF MaintainActive, TypeOK, GoodRows
<1>15. CASE Tick
    <2>1. ASSUME NEW i \in Items
          PROVE  [item[i] EXCEPT !.hold.ttl = IF @ > 0 THEN @ - 1 ELSE 0,
                                 !.wait = IF @ > 0 THEN @ - 1 ELSE 0] \in GoodRows
        <3>1. /\ item[i] \in GoodRows
              /\ (IF item[i].hold.ttl > 0 THEN item[i].hold.ttl - 1 ELSE 0) \in 0 .. LeaseTicks
              /\ (IF item[i].wait > 0 THEN item[i].wait - 1 ELSE 0) \in 0 .. BackoffTicks
            BY <1>0, JobQueueAssumption DEF GoodRows, ItemRows, Holds
        <3> QED BY <3>1 DEF GoodRows, ItemRows, Holds
    <2>2. ASSUME NEW c \in Creds
          PROVE  [lease[c] EXCEPT !.ttl = IF @ > 0 THEN @ - 1 ELSE 0] \in LeaseRows
        <3>1. CASE lease[c] = NoLease
            BY <3>1 DEF LeaseRows, NoLease
        <3>2. CASE lease[c] \in [worker : Workers, job : Jobs, ttl : 0 .. LeaseTicks]
            BY <3>2, JobQueueAssumption DEF LeaseRows
        <3> QED BY <1>0, <3>1, <3>2 DEF TypeOK, LeaseRows
    <2> QED BY <1>0, <1>15, <2>1, <2>2 DEF Tick, TypeOK, GoodRows
<1>16. CASE UNCHANGED vars
    BY <1>16 DEF vars, TypeOK
<1> QED
    BY <1>1, <1>2, <1>3, <1>4, <1>5, <1>6, <1>8, <1>9, <1>10, <1>11, <1>12, <1>13, <1>14,
       <1>15, <1>16 DEF Next, WorkerStep, OperatorStep, Maintain

\* Every table of the queue holds rows of its schema, always.
THEOREM TypeCorrect == Spec => []TypeOK
<1>1. TypeInv => TypeOK
    BY DEF TypeInv
<1> QED BY <1>1, TypeInit, TypeStep, PTL DEF Spec

-----------------------------------------------------------------------------
(***************************************************************************)
(* A stopped job is quiet.  QuietWhenStopped is inductive on its own: the  *)
(* one step that could break it is a claim that commits after the status   *)
(* it read is stale, and that claim needs a live lease of the job, which a *)
(* stopped job does not have.                                              *)
(***************************************************************************)
Stopped == {"paused", "cancelled"}

Quiet(j) ==
    /\ \A c \in Creds : lease[c].ttl > 0 => lease[c].job # j
    /\ \A i \in ItemsOf(j) : item[i].status # "leased"

QuietInv == \A j \in Jobs : status[j] \in Stopped => Quiet(j)

\* The proof's form of the invariant is the stated one.
LEMMA QuietInvIsQuietWhenStopped == QuietInv <=> QuietWhenStopped
BY DEF QuietInv, QuietWhenStopped, Quiet, Stopped, LiveLeasesOf, LiveLeases

\* A step that stops no job, gives out no item and adds no live lease keeps
\* the stopped jobs quiet.
LEMMA QuietKept ==
    ASSUME QuietInv,
           \A j \in Jobs : status'[j] \in Stopped => status[j] \in Stopped,
           \A i \in Items : item'[i].status = "leased" => item[i].status = "leased",
           \A c \in Creds : lease'[c].ttl > 0 => lease[c].ttl > 0 /\ lease[c].job = lease'[c].job
    PROVE  QuietInv'
BY DEF QuietInv, Quiet, ItemsOf

\* Closing a job from its counters never stops it.
LEMMA FinalizedNotStopped ==
    ASSUME NEW s, NEW counts, NEW j, Finalized(s, counts, j) \in Stopped
    PROVE  s \in Stopped
BY DEF Finalized, Stopped

\* The shared end of pause, cancel, release and maintenance keeps the stopped
\* jobs quiet: it stops a job only when no lease is live, and takes back what
\* is still out.
LEMMA FinalizeDrainingQuiet ==
    ASSUME TypeInv, QuietInv, NEW j \in Jobs, NEW s, NEW rows, NEW log, NEW leases,
           FinalizeDraining(j, s, rows, log, leases),
           s \in Stopped => status[j] \in Stopped,
           \A i \in Items : rows[i].status = "leased" => item[i].status = "leased",
           \A c \in Creds : leases[c].ttl > 0 => leases[c] = lease[c]
    PROVE  QuietInv'
<1> status \in [Jobs -> JobStates]
    BY DEF TypeInv, TypeOK
<1>1. CASE status' = [status EXCEPT ![j] = s] /\ item' = rows /\ lease' = leases
    BY <1>1, QuietKept
<1>2. CASE s \in DrainingStates /\ ~Reserved(j, leases)
    <2> DEFINE open == {i \in ItemsOf(j) : rows[i].status \in OpenItem}
    <2>1. /\ item' = [i \in Items |-> IF i \in open THEN Dropped(rows[i], s) ELSE rows[i]]
          /\ lease' = [c \in Creds |-> IF leases[c].job = j THEN NoLease ELSE leases[c]]
          /\ \E t : status' = [status EXCEPT ![j] = t]
        BY <1>2 DEF FinalizeDraining
    <2>2. \A c \in Creds : lease'[c].ttl > 0 => /\ lease'[c] = lease[c]
                                                /\ lease'[c].job # j
        BY <2>1 DEF NoLease
    <2>3. \A i \in Items : item'[i].status = "leased" => /\ item[i].status = "leased"
                                                         /\ i \notin ItemsOf(j)
        BY <2>1 DEF Dropped, Unheld, OpenItem
    <2> QED BY <2>1, <2>2, <2>3 DEF QuietInv, Quiet, ItemsOf
<1> QED BY <1>1, <1>2 DEF FinalizeDraining

\* An empty queue has no stopped job.
LEMMA QuietInit == Init => QuietInv
BY DEF Init, QuietInv, Stopped

\* Every step of the queue keeps the stopped jobs quiet.
LEMMA QuietStep == TypeInv /\ QuietInv /\ [Next]_vars => QuietInv'
<1> SUFFICES ASSUME TypeInv, QuietInv, [Next]_vars PROVE QuietInv'
    OBVIOUS
<1>0. /\ status \in [Jobs -> JobStates] /\ item \in [Items -> GoodRows]
      /\ lease \in [Creds -> LeaseRows]
      /\ \A i \in Items : JobOf[i] \in Jobs
    BY JobQueueAssumption DEF TypeInv, TypeOK
<1>1. ASSUME NEW j \in Jobs, Create(j) \/ Resume(j) PROVE QuietInv'
    BY <1>0, <1>1, QuietKept DEF Create, Resume, Stopped
<1>2. ASSUME NEW w \in Workers, NEW c \in Creds, NEW j \in Jobs, Acquire(w, c, j)
      PROVE  QuietInv'
    <2>1. status[j] \notin Stopped /\ status' = status
        BY <1>2 DEF Acquire, Executable, ActiveStates, Stopped
    <2>2. \A d \in Creds : lease'[d].ttl > 0 => lease'[d] = lease[d] \/ lease'[d].job = j
        BY <1>2 DEF Acquire, NoLease
    <2>3. \A i \in Items : item'[i].status = item[i].status
        BY <1>0, <1>2 DEF Acquire, GoodRows, ItemRows
    <2> QED BY <2>1, <2>2, <2>3 DEF QuietInv, Quiet, ItemsOf
<1>3. ASSUME NEW c \in Creds, Heartbeat(c) PROVE QuietInv'
    <2>1. \A i \in Items : item'[i].status = item[i].status
        BY <1>0, <1>3 DEF Heartbeat, GoodRows, ItemRows
    <2>2. \A d \in Creds : lease'[d].ttl > 0 => lease[d].ttl > 0 /\ lease[d].job = lease'[d].job
        BY <1>0, <1>3 DEF Heartbeat, LiveLeases
    <2> QED BY <1>3, <2>1, <2>2, QuietKept DEF Heartbeat
<1>4. ASSUME NEW w \in Workers, ClaimRead(w) \/ ClaimFails(w) PROVE QuietInv'
    BY <1>4, QuietKept DEF ClaimRead, ClaimFails
<1>5. ASSUME NEW w \in Workers, NEW c \in Creds, ClaimCommit(w, c) PROVE QuietInv'
    <2> DEFINE j == lease[c].job
    <2>1. j \in Jobs /\ lease[c].ttl > 0
        BY <1>0, <1>5 DEF ClaimCommit, LiveLeases, LeaseRows, NoLease
    <2>2. status[j] \notin Stopped
        BY <2>1 DEF QuietInv, Quiet
    <2>3. status'[j] \notin Stopped /\ \A k \in Jobs \ {j} : status'[k] = status[k]
        BY <1>0, <1>5, <2>1, <2>2 DEF ClaimCommit, Stopped
    <2>4. \A i \in Items : i \in ItemsOf(j) \/ item'[i] = item[i]
        BY <1>5 DEF ClaimCommit, Batch
    <2> QED BY <1>5, <2>1, <2>3, <2>4 DEF ClaimCommit, QuietInv, Quiet, ItemsOf
<1>6. ASSUME NEW i \in Items, NEW s, NEW row, Close(i, s, row), row.status # "leased"
      PROVE  QuietInv'
    <2>1. \A j \in Jobs : status'[j] \in Stopped => status[j] \in Stopped
        BY <1>0, <1>6, FinalizedNotStopped DEF Close
    <2> QED BY <1>0, <1>6, <2>1, QuietKept DEF Close
<1>7. ASSUME NEW i \in Items, NEW n \in Numbers, NEW o \in Outcomes, Answer(i, n, o)
      PROVE  QuietInv'
    BY <1>6, <1>7 DEF Answer, Answered, Unheld
<1>8. ASSUME NEW i \in Items, NEW n \in Numbers, NEW o \in Outcomes, NEW b \in BOOLEAN,
             Requeue(i, n, o, b)
      PROVE  QuietInv'
    <2>1. Retried(item[i], o, b).status # "leased"
        BY DEF Retried, Unheld
    <2> QED BY <1>6, <1>8, <2>1 DEF Requeue
<1>9. ASSUME NEW c \in Creds, Release(c) PROVE QuietInv'
    <2> DEFINE j == lease[c].job
               back == {i \in ItemsOf(j) :
                            /\ item[i].status = "leased" /\ item[i].hold.cred = c
                            /\ item[i].hold.owner = lease[c].worker}
               rows == [i \in Items |->
                            IF i \in back
                            THEN Unheld(item[i], "pending", item[i].outcome, item[i].retries, 0)
                            ELSE item[i]]
               log == Closed(attempt, back, "abandoned")
               leases == [lease EXCEPT ![c] = NoLease]
    <2>1. j \in Jobs
        BY <1>0, <1>9 DEF Release, LeaseRows
    <2>2. \A i \in Items : rows[i].status = "leased" => item[i].status = "leased"
        BY DEF Unheld
    <2>3. \A d \in Creds : leases[d].ttl > 0 => leases[d] = lease[d]
        BY <1>0 DEF NoLease
    <2>4. FinalizeDraining(j, status[j], rows, log, leases)
        BY <1>9 DEF Release
    <2> HIDE DEF j, rows, log, leases
    <2> QED BY <2>1, <2>2, <2>3, <2>4, FinalizeDrainingQuiet
<1>10. ASSUME NEW j \in Jobs, Pause(j) \/ Cancel(j) \/ MaintainDraining(j) PROVE QuietInv'
    <2>1. PICK s \in DrainingStates : FinalizeDraining(j, s, item, attempt, lease)
        BY <1>10 DEF Pause, Cancel, MaintainDraining, DrainingStates
    <2> QED BY <2>1, FinalizeDrainingQuiet DEF DrainingStates, Stopped
<1>11. ASSUME NEW j \in Jobs, Retry(j) PROVE QuietInv'
    <2>1. \A i \in Items : item'[i].status = "leased" => item[i].status = "leased"
        BY <1>11 DEF Retry, Unheld
    <2> QED BY <1>0, <1>11, <2>1, QuietKept DEF Retry, Stopped
<1>12. ASSUME NEW j \in Jobs, MaintainActive(j) PROVE QuietInv'
    <2>1. \A i \in Items : item'[i].status = "leased" => item[i].status = "leased"
        BY <1>12 DEF MaintainActive, Unheld
    <2>2. \A k \in Jobs : status'[k] \in Stopped => status[k] \in Stopped
        BY <1>0, <1>12, FinalizedNotStopped DEF MaintainActive
    <2> QED BY <1>12, <2>1, <2>2, QuietKept DEF MaintainActive
<1>13. CASE Tick
    <2>1. \A i \in Items : item'[i].status = item[i].status
        BY <1>0, <1>13 DEF Tick, GoodRows, ItemRows
    <2>2. \A c \in Creds : lease'[c].ttl > 0 => lease[c].ttl > 0 /\ lease[c].job = lease'[c].job
        <3> SUFFICES ASSUME NEW c \in Creds, lease'[c].ttl > 0
                     PROVE  lease[c].ttl > 0 /\ lease[c].job = lease'[c].job
            OBVIOUS
        <3>1. lease'[c] = [lease[c] EXCEPT !.ttl = IF @ > 0 THEN @ - 1 ELSE 0]
            BY <1>13 DEF Tick
        <3>2. CASE lease[c] = NoLease
            BY <3>1, <3>2 DEF NoLease
        <3>3. CASE lease[c] \in [worker : Workers, job : Jobs, ttl : 0 .. LeaseTicks]
            BY <3>1, <3>3
        <3> QED BY <1>0, <3>2, <3>3 DEF LeaseRows
    <2> QED BY <1>13, <2>1, <2>2, QuietKept DEF Tick
<1>14. CASE UNCHANGED vars
    BY <1>14, QuietKept DEF vars
<1> QED
    BY <1>1, <1>2, <1>3, <1>4, <1>5, <1>7, <1>8, <1>9, <1>10, <1>11, <1>12, <1>13, <1>14
    DEF Next, WorkerStep, OperatorStep, Maintain

\* A paused or cancelled job has no live access reservation and no item out
\* with a worker, whatever the claims, heartbeats and releases in flight.
THEOREM StoppedJobsAreQuiet == Spec => []QuietWhenStopped
<1>1. TypeInv /\ QuietInv => QuietWhenStopped
    BY QuietInvIsQuietWhenStopped
<1> QED BY <1>1, TypeInit, TypeStep, QuietInit, QuietStep, PTL DEF Spec

-----------------------------------------------------------------------------
(***************************************************************************)
(* Proof that a worker that keeps its access reserved keeps its items: the *)
(* lease of an item claimed under a live access lease never expires before *)
(* the access lease, for every lease length and any interleaving of        *)
(* heartbeats, claims, answers and operator actions.                       *)
(*                                                                         *)
(* The inductive form: a hold that remembers its access lease is the hold  *)
(* of a leased item on that very credential (so the heartbeat, which looks *)
(* for owner and credential, finds it), and outlives the access lease.     *)
(***************************************************************************)
Covered(row, c) ==
    /\ row.status = "leased"
    /\ row.hold.cred = c
    /\ row.hold.owner = lease[c].worker
    /\ row.hold.ttl >= lease[c].ttl

SessionInv ==
    \A c \in Creds, i \in Items :
        (lease[c].ttl > 0 /\ item[i].hold.via = c) => Covered(item[i], c)

\* The inductive invariant gives the stated property.
LEMMA SessionInvImplies == SessionInv => SessionKeepsItems
BY DEF SessionInv, SessionKeepsItems, LiveLeases, Covered

\* A step that only frees items and only removes access leases keeps it.
LEMMA SessionKept ==
    ASSUME SessionInv,
           \A i \in Items : item'[i] = item[i] \/ item'[i].hold = NoHold,
           \A c \in Creds : lease'[c] = lease[c] \/ lease'[c] = NoLease
    PROVE  SessionInv'
BY JobQueueAssumption DEF SessionInv, Covered, NoHold, NoLease

\* The shared end of pause, cancel, release and maintenance only frees items
\* and only removes access leases.
LEMMA FinalizeDrainingSession ==
    ASSUME SessionInv, NEW j, NEW s, NEW rows, NEW log, NEW leases,
           FinalizeDraining(j, s, rows, log, leases),
           \A i \in Items : rows[i] = item[i] \/ rows[i].hold = NoHold,
           \A c \in Creds : leases[c] = lease[c] \/ leases[c] = NoLease
    PROVE  SessionInv'
<1>1. CASE item' = rows /\ lease' = leases
    BY <1>1, SessionKept
<1>2. CASE s \in DrainingStates /\ ~Reserved(j, leases)
    <2> DEFINE open == {i \in ItemsOf(j) : rows[i].status \in OpenItem}
    <2>1. /\ item' = [i \in Items |-> IF i \in open THEN Dropped(rows[i], s) ELSE rows[i]]
          /\ lease' = [c \in Creds |-> IF leases[c].job = j THEN NoLease ELSE leases[c]]
        BY <1>2 DEF FinalizeDraining
    <2>2. \A i \in Items : item'[i] = item[i] \/ item'[i].hold = NoHold
        BY <2>1 DEF Dropped, Unheld
    <2> QED BY <2>1, <2>2, SessionKept
<1> QED BY <1>1, <1>2 DEF FinalizeDraining

\* An empty queue has no item out with a worker.
LEMMA SessionInit == Init => SessionInv
BY DEF Init, SessionInv, NoLease

\* Every step of the queue keeps a session's items covered.
LEMMA SessionStep == TypeInv /\ SessionInv /\ [Next]_vars => SessionInv'
<1> SUFFICES ASSUME TypeInv, SessionInv, [Next]_vars PROVE SessionInv'
    OBVIOUS
<1>0. /\ item \in [Items -> ItemRows] /\ lease \in [Creds -> LeaseRows]
      /\ LeaseTicks \in Nat \ {0} /\ None \notin Creds
    BY JobQueueAssumption DEF TypeInv, TypeOK
<1>1. ASSUME NEW j \in Jobs, Create(j) \/ Resume(j) PROVE SessionInv'
    BY <1>1, SessionKept DEF Create, Resume
<1>2. ASSUME NEW w \in Workers, NEW c \in Creds, NEW j \in Jobs, Acquire(w, c, j)
      PROVE  SessionInv'
    <2> SUFFICES ASSUME NEW d \in Creds, NEW i \in Items,
                        lease'[d].ttl > 0, item'[i].hold.via = d
                 PROVE  Covered(item[i], d)'
        BY DEF SessionInv
    <2>1. item[i] \in ItemRows
        BY <1>0
    <2>2. item[i].hold.via # c /\ item'[i] = item[i]
        BY <1>0, <1>2, <2>1 DEF Acquire, ItemRows, Holds
    <2>3. d # c
        BY <2>2
    <2>4. lease'[d] = lease[d]
        BY <1>2, <2>3 DEF Acquire, NoLease
    <2> QED BY <2>2, <2>4 DEF SessionInv, Covered
<1>3. ASSUME NEW c \in Creds, Heartbeat(c) PROVE SessionInv'
    <2> SUFFICES ASSUME NEW d \in Creds, NEW i \in Items,
                        lease'[d].ttl > 0, item'[i].hold.via = d
                 PROVE  Covered(item[i], d)'
        BY DEF SessionInv
    <2>1. item[i] \in ItemRows /\ lease[d] \in LeaseRows /\ lease[c].ttl > 0
        BY <1>0, <1>3 DEF Heartbeat, LiveLeases
    <2>2. /\ lease'[c] = [lease[c] EXCEPT !.ttl = LeaseTicks]
          /\ d # c => lease'[d] = lease[d]
          /\ item'[i] = IF Renews(c, i) THEN [item[i] EXCEPT !.hold.ttl = LeaseTicks]
                        ELSE item[i]
        BY <1>0, <1>3 DEF Heartbeat
    <2>3. item[i].hold.via = d
        BY <2>1, <2>2 DEF ItemRows, Holds
    <2>4. CASE d = c
        <3>1. Covered(item[i], c) /\ item[i].hold.ttl > 0 /\ Renews(c, i)
            BY <1>0, <2>1, <2>3, <2>4 DEF SessionInv, Covered, Renews, ItemRows, Holds, LeaseRows, NoLease
        <3>2. /\ item'[i].status = "leased" /\ item'[i].hold.ttl = LeaseTicks
              /\ item'[i].hold.cred = c /\ item'[i].hold.owner = lease[c].worker
            BY <2>1, <2>2, <3>1 DEF Covered, ItemRows, Holds
        <3>3. lease'[c].ttl = LeaseTicks /\ lease'[c].worker = lease[c].worker
            BY <1>0, <2>2, <2>1, <2>4 DEF LeaseRows, NoLease
        <3> QED BY <1>0, <2>4, <3>2, <3>3 DEF Covered
    <2>5. CASE d # c
        <3>1. Covered(item[i], d)
            BY <2>2, <2>3, <2>5 DEF SessionInv
        <3>2. ~Renews(c, i)
            BY <2>5, <3>1 DEF Covered, Renews
        <3> QED BY <2>2, <2>5, <3>1, <3>2 DEF Covered
    <2> QED BY <2>4, <2>5
<1>4. ASSUME NEW w \in Workers, ClaimRead(w) \/ ClaimFails(w) PROVE SessionInv'
    BY <1>4, SessionKept DEF ClaimRead, ClaimFails
<1>5. ASSUME NEW w \in Workers, NEW c \in Creds, ClaimCommit(w, c) PROVE SessionInv'
    <2> SUFFICES ASSUME NEW d \in Creds, NEW i \in Items,
                        lease'[d].ttl > 0, item'[i].hold.via = d
                 PROVE  Covered(item[i], d)'
        BY DEF SessionInv
    <2>1. CASE item'[i] = item[i]
        BY <1>5, <2>1 DEF ClaimCommit, SessionInv, Covered
    <2>2. CASE item'[i] = Claimed(item[i], w, c)
        <3>1. d = c /\ lease' = lease /\ lease[c].worker = w
            BY <1>5, <2>2 DEF ClaimCommit, Claimed
        <3>2. LeaseTicks >= lease[c].ttl
            BY <1>0 DEF LeaseRows, NoLease
        <3> QED BY <2>2, <3>1, <3>2 DEF Claimed, Covered
    <2> QED BY <1>5, <2>1, <2>2 DEF ClaimCommit
<1>6. ASSUME NEW i \in Items, NEW n \in Numbers, NEW o \in Outcomes, Answer(i, n, o)
      PROVE  SessionInv'
    BY <1>0, <1>6, SessionKept DEF Answer, Close, Answered, Unheld
<1>7. ASSUME NEW i \in Items, NEW n \in Numbers, NEW o \in Outcomes, NEW b \in BOOLEAN,
             Requeue(i, n, o, b)
      PROVE  SessionInv'
    <2>1. Retried(item[i], o, b).hold = NoHold
        BY DEF Retried, Unheld
    <2> QED BY <1>0, <1>7, <2>1, SessionKept DEF Requeue, Close
<1>8. ASSUME NEW c \in Creds, Release(c) PROVE SessionInv'
    <2> DEFINE j == lease[c].job
               back == {i \in ItemsOf(j) :
                            /\ item[i].status = "leased" /\ item[i].hold.cred = c
                            /\ item[i].hold.owner = lease[c].worker}
               rows == [i \in Items |->
                            IF i \in back
                            THEN Unheld(item[i], "pending", item[i].outcome, item[i].retries, 0)
                            ELSE item[i]]
               log == Closed(attempt, back, "abandoned")
               leases == [lease EXCEPT ![c] = NoLease]
    <2>1. \A i \in Items : rows[i] = item[i] \/ rows[i].hold = NoHold
        BY DEF Unheld
    <2>2. \A d \in Creds : leases[d] = lease[d] \/ leases[d] = NoLease
        BY <1>0
    <2>3. FinalizeDraining(j, status[j], rows, log, leases)
        BY <1>8 DEF Release
    <2> HIDE DEF j, rows, log, leases
    <2> QED BY <2>1, <2>2, <2>3, FinalizeDrainingSession
<1>9. ASSUME NEW j \in Jobs, Pause(j) \/ Cancel(j) \/ MaintainDraining(j) PROVE SessionInv'
    <2>1. PICK s : FinalizeDraining(j, s, item, attempt, lease)
        BY <1>9 DEF Pause, Cancel, MaintainDraining
    <2> QED BY <2>1, FinalizeDrainingSession
<1>10. ASSUME NEW j \in Jobs, Retry(j) PROVE SessionInv'
    BY <1>10, SessionKept DEF Retry, Unheld
<1>11. ASSUME NEW j \in Jobs, MaintainActive(j) PROVE SessionInv'
    BY <1>11, SessionKept DEF MaintainActive, Unheld
<1>12. CASE Tick
    <2> SUFFICES ASSUME NEW c \in Creds, NEW i \in Items,
                        lease'[c].ttl > 0, item'[i].hold.via = c
                 PROVE  Covered(item[i], c)'
        BY DEF SessionInv
    <2>1. item[i] \in ItemRows /\ lease[c] \in [worker : Workers, job : Jobs, ttl : 0 .. LeaseTicks]
        <3>1. lease'[c] = [lease[c] EXCEPT !.ttl = IF @ > 0 THEN @ - 1 ELSE 0]
            BY <1>12 DEF Tick
        <3>2. lease[c] # NoLease
            BY <3>1 DEF NoLease
        <3> QED BY <1>0, <3>2 DEF LeaseRows
    <2>2. /\ lease'[c].ttl = IF lease[c].ttl > 0 THEN lease[c].ttl - 1 ELSE 0
          /\ lease'[c].worker = lease[c].worker
        BY <1>12, <2>1 DEF Tick
    <2>3. /\ item'[i].status = item[i].status
          /\ item'[i].hold.via = item[i].hold.via
          /\ item'[i].hold.cred = item[i].hold.cred
          /\ item'[i].hold.owner = item[i].hold.owner
          /\ item'[i].hold.ttl = IF item[i].hold.ttl > 0 THEN item[i].hold.ttl - 1 ELSE 0
        BY <1>12, <2>1 DEF Tick, ItemRows, Holds
    <2>4. lease[c].ttl > 0 /\ Covered(item[i], c)
        BY <2>1, <2>2, <2>3 DEF SessionInv
    <2>5. item[i].hold.ttl \in Nat /\ lease[c].ttl \in Nat
        BY <2>1 DEF ItemRows, Holds
    <2>6. item'[i].hold.ttl >= lease'[c].ttl
        BY <2>2, <2>3, <2>4, <2>5 DEF Covered
    <2> QED BY <2>2, <2>3, <2>4, <2>6 DEF Covered
<1>13. CASE UNCHANGED vars
    BY <1>13, SessionKept DEF vars
<1> QED
    BY <1>1, <1>2, <1>3, <1>4, <1>5, <1>6, <1>7, <1>8, <1>9, <1>10, <1>11, <1>12, <1>13
    DEF Next, WorkerStep, OperatorStep, Maintain

\* While an access stays reserved, the items claimed under that reservation
\* are never up for another worker to take.
THEOREM LiveSessionsKeepTheirItems == Spec => []SessionKeepsItems
<1>1. TypeInv /\ SessionInv => SessionKeepsItems
    BY SessionInvImplies
<1> QED BY <1>1, TypeInit, TypeStep, SessionInit, SessionStep, PTL DEF Spec

-----------------------------------------------------------------------------
(***************************************************************************)
(* The limits of an agreement and the end of a reservation.                *)
(***************************************************************************)
\* The invariant: finitely many reservations are live (the set of accesses
\* need not be finite), within both limits, and each worker has at most one.
LimitsInv ==
    /\ IsFiniteSet(LiveLeases) /\ Cardinality(LiveLeases) <= MaxWorkers
    /\ \A j \in Jobs : Cardinality(LiveLeasesOf(j)) <= MaxParallel
    /\ \A c, d \in Creds :
        (lease[c].worker = lease[d].worker /\ lease[c].worker # None) => c = d

\* Fewer reservations stay within any limit.
LEMMA FewerIsWithin ==
    ASSUME NEW S, NEW T, IsFiniteSet(S), T \subseteq S, NEW m \in Nat, Cardinality(S) <= m
    PROVE  IsFiniteSet(T) /\ Cardinality(T) <= m
<1>1. IsFiniteSet(T) /\ Cardinality(T) <= Cardinality(S)
    BY FS_Subset
<1>2. Cardinality(T) \in Nat /\ Cardinality(S) \in Nat
    BY <1>1, FS_CardinalityType
<1> QED BY <1>1, <1>2

\* One more reservation than fewer than the limit is within the limit.
LEMMA OneMoreIsWithin ==
    ASSUME NEW S, NEW T, NEW c, IsFiniteSet(S), T \subseteq S \cup {c}, NEW m \in Nat,
           Cardinality(S) < m
    PROVE  IsFiniteSet(T) /\ Cardinality(T) <= m
<1>1. IsFiniteSet(S \cup {c}) /\ Cardinality(S) \in Nat
    BY FS_AddElement, FS_CardinalityType
<1>2. Cardinality(S \cup {c}) = Cardinality(S) \/ Cardinality(S \cup {c}) = Cardinality(S) + 1
    BY FS_AddElement
<1>3. Cardinality(S \cup {c}) <= m
    BY <1>1, <1>2
<1> QED BY <1>1, <1>3, FewerIsWithin

\* A step that only ends reservations keeps the limits.
LEMMA LimitsKept ==
    ASSUME LimitsInv,
           \A c \in Creds : \/ lease'[c] = NoLease
                            \/ /\ lease'[c].worker = lease[c].worker
                               /\ lease'[c].job = lease[c].job
                               /\ lease'[c].ttl > 0 => lease[c].ttl > 0
    PROVE  LimitsInv'
<1>0. MaxWorkers \in Nat /\ MaxParallel \in Nat
    BY JobQueueAssumption
<1>1. LiveLeases' \subseteq LiveLeases
    BY DEF LiveLeases, NoLease
<1>2. IsFiniteSet(LiveLeases') /\ Cardinality(LiveLeases') <= MaxWorkers
    BY <1>0, <1>1, FewerIsWithin DEF LimitsInv
<1>3. ASSUME NEW j \in Jobs PROVE Cardinality(LiveLeasesOf(j)') <= MaxParallel
    <2>1. LiveLeasesOf(j)' \subseteq LiveLeasesOf(j)
        BY DEF LiveLeasesOf, LiveLeases, NoLease
    <2>2. IsFiniteSet(LiveLeasesOf(j)) /\ Cardinality(LiveLeasesOf(j)) <= MaxParallel
        BY FS_Subset DEF LimitsInv, LiveLeasesOf
    <2> QED BY <1>0, <2>1, <2>2, FewerIsWithin
<1>4. ASSUME NEW c \in Creds, NEW d \in Creds, lease'[c].worker = lease'[d].worker,
             lease'[c].worker # None
      PROVE  c = d
    BY <1>4 DEF LimitsInv, NoLease
<1> QED BY <1>2, <1>3, <1>4 DEF LimitsInv

LEMMA LimitsInit == Init => LimitsInv
<1> SUFFICES ASSUME Init PROVE LimitsInv
    OBVIOUS
<1>1. LiveLeases = {} /\ \A j \in Jobs : LiveLeasesOf(j) = {}
    BY DEF Init, LiveLeases, LiveLeasesOf, NoLease
<1>2. MaxWorkers \in Nat /\ MaxParallel \in Nat /\ \A c \in Creds : lease[c].worker = None
    BY JobQueueAssumption DEF Init, NoLease
<1> QED BY <1>1, <1>2, FS_EmptySet DEF LimitsInv

\* Taking a reservation passes both tests of the limits, and the worker's
\* expired reservation goes with it.
LEMMA AcquireWithinLimits ==
    ASSUME TypeInv, LimitsInv, NEW w \in Workers, NEW c \in Creds, NEW j \in Jobs,
           Acquire(w, c, j)
    PROVE  LimitsInv'
<1>0. /\ MaxWorkers \in Nat /\ MaxParallel \in Nat /\ None \notin Workers
      /\ Cardinality(LiveLeases) < MaxWorkers /\ Cardinality(LiveLeasesOf(j)) < MaxParallel
      /\ IsFiniteSet(LiveLeases)
    BY JobQueueAssumption DEF Acquire, HasCapacity, LimitsInv
<1>1. /\ lease'[c] = [worker |-> w, job |-> j, ttl |-> LeaseTicks] /\ c \notin LiveLeases
      /\ \A d \in Creds \ {c} : /\ lease'[d] = IF lease[d].worker = w THEN NoLease ELSE lease[d]
                                /\ lease'[d].worker # w
    BY <1>0 DEF Acquire, NoLease
<1>2. LiveLeases' \subseteq LiveLeases \cup {c}
    BY <1>1 DEF LiveLeases, NoLease
<1>3. IsFiniteSet(LiveLeases') /\ Cardinality(LiveLeases') <= MaxWorkers
    BY <1>0, <1>2, OneMoreIsWithin
<1>4. ASSUME NEW k \in Jobs PROVE Cardinality(LiveLeasesOf(k)') <= MaxParallel
    <2>1. IsFiniteSet(LiveLeasesOf(k)) /\ Cardinality(LiveLeasesOf(k)) <= MaxParallel
        BY FS_Subset DEF LimitsInv, LiveLeasesOf
    <2>2. CASE k = j
        <3>1. LiveLeasesOf(j)' \subseteq LiveLeasesOf(j) \cup {c}
            BY <1>1 DEF LiveLeasesOf, LiveLeases, NoLease
        <3> QED BY <1>0, <2>1, <2>2, <3>1, OneMoreIsWithin
    <2>3. CASE k # j
        <3>1. LiveLeasesOf(k)' \subseteq LiveLeasesOf(k)
            BY <1>1, <2>3 DEF LiveLeasesOf, LiveLeases, NoLease
        <3> QED BY <1>0, <2>1, <3>1, FewerIsWithin
    <2> QED BY <2>2, <2>3
<1>5. ASSUME NEW a \in Creds, NEW b \in Creds, lease'[a].worker = lease'[b].worker,
             lease'[a].worker # None
      PROVE  a = b
    BY <1>1, <1>5 DEF LimitsInv, NoLease
<1> QED BY <1>3, <1>4, <1>5 DEF LimitsInv

\* What the end of a drain does to the reservations: it keeps them or removes
\* them, and removes a live one only if its caller did.
LEMMA FinalizeDrainingLeases ==
    ASSUME NEW j, NEW s, NEW rows, NEW log, NEW leases,
           FinalizeDraining(j, s, rows, log, leases), NEW c \in Creds
    PROVE  /\ lease'[c] = leases[c] \/ lease'[c] = NoLease
           /\ leases[c].ttl > 0 => lease'[c] = leases[c]
BY DEF FinalizeDraining, Reserved

\* What a clock tick does to one reservation.
LEMMA TickLease ==
    ASSUME TypeInv, Tick, NEW c \in Creds
    PROVE  /\ lease'[c].worker = lease[c].worker /\ lease'[c].job = lease[c].job
           /\ lease'[c].ttl > 0 => lease[c].ttl > 0
<1>1. lease[c] \in LeaseRows /\ lease'[c] = [lease[c] EXCEPT !.ttl = IF @ > 0 THEN @ - 1 ELSE 0]
    BY DEF TypeInv, TypeOK, Tick
<1>2. CASE lease[c] = NoLease
    BY <1>1, <1>2 DEF NoLease
<1>3. CASE lease[c] \in [worker : Workers, job : Jobs, ttl : 0 .. LeaseTicks]
    BY <1>1, <1>3
<1> QED BY <1>1, <1>2, <1>3 DEF LeaseRows

\* What a heartbeat does to one reservation.
LEMMA HeartbeatLease ==
    ASSUME TypeInv, NEW d \in Creds, Heartbeat(d), NEW c \in Creds
    PROVE  /\ lease'[c].worker = lease[c].worker /\ lease'[c].job = lease[c].job
           /\ lease'[c].ttl > 0 => lease[c].ttl > 0
<1>1. /\ lease \in [Creds -> LeaseRows] /\ lease[c] \in LeaseRows
      /\ lease' = [lease EXCEPT ![d].ttl = LeaseTicks] /\ lease[d].ttl > 0
    BY DEF TypeInv, TypeOK, Heartbeat, LiveLeases
<1>2. CASE c = d
    <2>1. lease'[c] = [lease[c] EXCEPT !.ttl = LeaseTicks]
        BY <1>1, <1>2
    <2> QED BY <1>1, <1>2, <2>1 DEF LeaseRows, NoLease
<1>3. CASE c # d
    BY <1>1, <1>3
<1> QED BY <1>2, <1>3

LEMMA LimitsStep == TypeInv /\ LimitsInv /\ [Next]_vars => LimitsInv'
<1> SUFFICES ASSUME TypeInv, LimitsInv, [Next]_vars PROVE LimitsInv'
    OBVIOUS
<1>1. ASSUME UNCHANGED lease PROVE LimitsInv'
    BY <1>1, LimitsKept
<1>2. ASSUME NEW c \in Creds, Heartbeat(c) PROVE LimitsInv'
    BY <1>2, HeartbeatLease, LimitsKept
<1>3. ASSUME NEW c \in Creds, Release(c) PROVE LimitsInv'
    <2> DEFINE leases == [lease EXCEPT ![c] = NoLease]
    <2>1. PICK j, s, rows, log : FinalizeDraining(j, s, rows, log, leases)
        BY <1>3 DEF Release
    <2>2. \A d \in Creds : leases[d] = lease[d] \/ leases[d] = NoLease
        BY DEF TypeInv, TypeOK
    <2> HIDE DEF leases
    <2>3. \A d \in Creds : lease'[d] = lease[d] \/ lease'[d] = NoLease
        BY <2>1, <2>2, FinalizeDrainingLeases
    <2> QED BY <2>3, LimitsKept
<1>4. ASSUME NEW j \in Jobs, Pause(j) \/ Cancel(j) \/ MaintainDraining(j) PROVE LimitsInv'
    <2>1. PICK s : FinalizeDraining(j, s, item, attempt, lease)
        BY <1>4 DEF Pause, Cancel, MaintainDraining
    <2>2. \A d \in Creds : lease'[d] = lease[d] \/ lease'[d] = NoLease
        BY <2>1, FinalizeDrainingLeases
    <2> QED BY <2>2, LimitsKept
<1>5. CASE Tick
    BY <1>5, TickLease, LimitsKept
<1>6. CASE UNCHANGED vars
    BY <1>1, <1>6 DEF vars
<1>7. ASSUME NEW j \in Jobs, Create(j) \/ Resume(j) \/ Retry(j) \/ MaintainActive(j)
      PROVE  LimitsInv'
    BY <1>1, <1>7 DEF Create, Resume, Retry, MaintainActive
<1>8. ASSUME NEW w \in Workers,
             \/ ClaimRead(w) \/ ClaimFails(w)
             \/ \E c \in Creds : ClaimCommit(w, c)
      PROVE  LimitsInv'
    BY <1>1, <1>8 DEF ClaimRead, ClaimFails, ClaimCommit
<1>9. ASSUME NEW i \in Items, NEW n \in Numbers, NEW o \in Outcomes,
             Answer(i, n, o) \/ \E b \in BOOLEAN : Requeue(i, n, o, b)
      PROVE  LimitsInv'
    BY <1>1, <1>9 DEF Answer, Requeue, Close
<1> QED
    BY <1>2, <1>3, <1>4, <1>5, <1>6, <1>7, <1>8, <1>9, AcquireWithinLimits
    DEF Next, WorkerStep, OperatorStep, Maintain

\* The agreement's and the job's limits on reserved accesses hold for every
\* number of workers, accesses and jobs, and no worker holds two accesses.
THEOREM ReservationsStayWithinLimits == Spec => []LeaseLimits
<1>1. LimitsInv => LeaseLimits
    BY DEF LimitsInv, LeaseLimits
<1> QED BY <1>1, TypeInit, TypeStep, LimitsInit, LimitsStep, PTL DEF Spec

\* A live reservation goes by the release of its own worker, or stays.
LogoutsOnly == \A c \in LiveLeases : lease'[c] = NoLease => Release(c)

LEMMA LogoutsStep == TypeInv /\ [Next]_vars => LogoutsOnly
<1> SUFFICES ASSUME TypeInv, [Next]_vars, NEW c \in Creds, lease[c].ttl > 0,
                    lease'[c] = NoLease
             PROVE  Release(c)
    BY DEF LogoutsOnly, LiveLeases
<1>1. /\ lease[c] \in [worker : Workers, job : Jobs, ttl : 0 .. LeaseTicks]
      /\ lease \in [Creds -> LeaseRows] /\ lease'[c] # lease[c]
      /\ lease'[c].worker # lease[c].worker
    BY JobQueueAssumption DEF TypeInv, TypeOK, LeaseRows, NoLease
<1>2. ASSUME NEW w \in Workers, NEW d \in Creds, NEW j \in Jobs, Acquire(w, d, j) PROVE FALSE
    <2>1. c \in LiveLeases
        BY DEF LiveLeases
    <2> QED BY <1>1, <1>2, <2>1 DEF Acquire
<1>3. ASSUME NEW d \in Creds, Heartbeat(d) PROVE FALSE
    BY <1>1, <1>3, HeartbeatLease
<1>4. ASSUME NEW d \in Creds, Release(d) PROVE Release(c)
    <2> DEFINE leases == [lease EXCEPT ![d] = NoLease]
    <2>1. PICK j, s, rows, log : FinalizeDraining(j, s, rows, log, leases)
        BY <1>4 DEF Release
    <2>2. c # d => leases[c] = lease[c]
        BY <1>1
    <2> HIDE DEF leases
    <2>3. ASSUME c # d PROVE FALSE
        BY <1>1, <2>1, <2>2, <2>3, FinalizeDrainingLeases
    <2> QED BY <1>4, <2>3
<1>5. ASSUME NEW j \in Jobs, Pause(j) \/ Cancel(j) \/ MaintainDraining(j) PROVE FALSE
    <2>1. PICK s : FinalizeDraining(j, s, item, attempt, lease)
        BY <1>5 DEF Pause, Cancel, MaintainDraining
    <2> QED BY <1>1, <2>1, FinalizeDrainingLeases
<1>6. ~Tick
    BY <1>1, TickLease
<1>7. lease' # lease
    BY <1>1
<1> QED
    BY <1>2, <1>3, <1>4, <1>5, <1>6, <1>7
    DEF Next, WorkerStep, OperatorStep, Maintain, Create, Resume, Retry, MaintainActive,
        ClaimRead, ClaimFails, ClaimCommit, Answer, Requeue, Close, vars

\* A pause, a cancellation, a retry, maintenance and the release of another
\* access never remove a live reservation: only the logout of its worker does.
THEOREM DrainsWaitForTheLogout == Spec => DrainWaitsForLogout
<1>1. TypeInv /\ [Next]_vars => [LogoutsOnly]_vars
    BY LogoutsStep
<1>2. [][LogoutsOnly]_vars => DrainWaitsForLogout
    BY DEF DrainWaitsForLogout, LogoutsOnly
<1> QED BY <1>1, <1>2, TypeInit, TypeStep, PTL DEF Spec

-----------------------------------------------------------------------------
(***************************************************************************)
(* What a step does to one item, its deliveries and its result.            *)
(***************************************************************************)
\* The delivery in progress of item i, if there is one, ends with status s.
Closes(i, s) ==
    \A n \in Numbers : attempt'[i][n] =
        IF n = item[i].attempts /\ attempt[i][n].status = "started"
        THEN [attempt[i][n] EXCEPT !.status = s] ELSE attempt[i][n]

\* Two rows that differ in clocks and in the history of the hold only.
SameRow(new, row) ==
    /\ new.status = row.status /\ new.outcome = row.outcome
    /\ new.retries = row.retries /\ new.attempts = row.attempts
    /\ new.hold.owner = row.hold.owner /\ new.hold.token = row.hold.token

Kept(i) ==
    /\ SameRow(item'[i], item[i])
    /\ attempt'[i] = attempt[i] /\ result'[i] = result[i]

Taken(i) ==
    /\ item[i].status \in OpenItem /\ item[i].attempts < MaxClaims
    /\ item'[i].status = "leased" /\ item'[i].outcome = item[i].outcome
    /\ item'[i].retries = item[i].retries /\ item'[i].attempts = item[i].attempts + 1
    /\ item'[i].hold.token = item[i].attempts + 1
    /\ \A n \in Numbers : attempt'[i][n] =
          IF n = item[i].attempts + 1 THEN [worker |-> item'[i].hold.owner, status |-> "started"]
          ELSE IF item[i].status = "leased" /\ n = item[i].attempts
                                           /\ attempt[i][n].status = "started"
               THEN [attempt[i][n] EXCEPT !.status = "lease_expired"]
          ELSE attempt[i][n]
    /\ result'[i] = result[i]

Finished(i) ==
    /\ item[i].status = "leased"
    /\ \E o \in Outcomes \ Retryable :
          /\ item'[i] = Answered(item[i], o)
          /\ \A n \in Numbers : attempt'[i][n] =
                IF n = item[i].attempts THEN [attempt[i][n] EXCEPT !.status = o] ELSE attempt[i][n]
          /\ result'[i] = [outcome |-> o, number |-> item[i].attempts,
                           from |-> item[i].hold.token, superseded |-> FALSE]

GivenBack(i) ==
    /\ item[i].status = "leased"
    /\ \E o \in Outcomes \cap Retryable, b \in BOOLEAN :
          /\ item'[i] = Retried(item[i], o, b)
          /\ \A n \in Numbers : attempt'[i][n] =
                IF n = item[i].attempts
                THEN [attempt[i][n] EXCEPT !.status = IF b THEN o ELSE "abandoned"]
                ELSE attempt[i][n]
    /\ result'[i] = result[i]

Left(i) ==
    /\ item[i].status \in OpenItem
    /\ \E s \in {"pending", "cancelled"} :
          item'[i] = Unheld(item[i], s, item[i].outcome, item[i].retries, 0)
    /\ Closes(i, "abandoned")
    /\ result'[i] = result[i]

Renewed(i) ==
    /\ item[i].status \in {"failed", "cancelled", "leased"}
    /\ item'[i] = Unheld(item[i], "pending", None, 0, 0)
    /\ Closes(i, "abandoned")
    /\ result'[i] = IF result[i] # NoResult THEN [result[i] EXCEPT !.superseded = TRUE]
                    ELSE result[i]
    /\ version'[JobOf[i]] # 1

Moves(i) ==
    /\ version'[JobOf[i]] = 1 => version[JobOf[i]] = 1
    /\ Kept(i) \/ Taken(i) \/ Finished(i) \/ GivenBack(i) \/ Left(i) \/ Renewed(i)

\* Closing the deliveries of some items closes each, and leaves the others.
LEMMA ClosedCloses ==
    ASSUME TypeOK, NEW S, NEW s, attempt' = Closed(attempt, S, s), NEW i \in Items
    PROVE  IF i \in S THEN Closes(i, s) ELSE attempt'[i] = attempt[i]
<1>1. attempt[i] = [n \in Numbers |-> attempt[i][n]]
    BY DEF TypeOK
<1>2. attempt'[i] = [n \in Numbers |->
            IF i \in S /\ n = item[i].attempts /\ attempt[i][n].status = "started"
            THEN [attempt[i][n] EXCEPT !.status = s] ELSE attempt[i][n]]
    BY DEF Closed
<1>3. CASE i \in S
    BY <1>2, <1>3 DEF Closes
<1>4. CASE i \notin S
    BY <1>1, <1>2, <1>4
<1> QED BY <1>3, <1>4

\* The shared end of a drain: what its caller gives back and what it drops.
LEMMA FinalizeDrainingMoves ==
    ASSUME TypeInv, NEW j, NEW s, NEW back \in SUBSET Items, NEW leases,
           \A i \in back : item[i].status = "leased",
           FinalizeDraining(j, s,
               [i \in Items |->
                    IF i \in back
                    THEN Unheld(item[i], "pending", item[i].outcome, item[i].retries, 0)
                    ELSE item[i]],
               Closed(attempt, back, "abandoned"), leases),
           result' = result
    PROVE  \A i \in Items : Kept(i) \/ Left(i)
<1> DEFINE rows == [i \in Items |->
                       IF i \in back
                       THEN Unheld(item[i], "pending", item[i].outcome, item[i].retries, 0)
                       ELSE item[i]]
           log == Closed(attempt, back, "abandoned")
<1>1. TypeOK
    BY DEF TypeInv
<1>2. CASE item' = rows /\ attempt' = log
    <2> SUFFICES ASSUME NEW i \in Items PROVE Kept(i) \/ Left(i)
        OBVIOUS
    <2>1. IF i \in back THEN Closes(i, "abandoned") ELSE attempt'[i] = attempt[i]
        BY <1>1, <1>2, ClosedCloses
    <2> QED BY <1>2, <2>1 DEF Kept, SameRow, Left, OpenItem
<1>3. CASE s \in DrainingStates /\ ~Reserved(j, leases)
    <2> DEFINE open == {i \in ItemsOf(j) : rows[i].status \in OpenItem}
    <2>1. /\ item' = [i \in Items |-> IF i \in open THEN Dropped(rows[i], s) ELSE rows[i]]
          /\ attempt' = Closed(log, open, "abandoned")
        BY <1>3 DEF FinalizeDraining
    <2> SUFFICES ASSUME NEW i \in Items PROVE Kept(i) \/ Left(i)
        OBVIOUS
    <2>2. attempt[i] = [n \in Numbers |-> attempt[i][n]]
        BY <1>1 DEF TypeOK
    <2>3. log[i] = [n \in Numbers |->
              IF i \in back /\ n = item[i].attempts /\ attempt[i][n].status = "started"
              THEN [attempt[i][n] EXCEPT !.status = "abandoned"] ELSE attempt[i][n]]
        BY DEF Closed
    <2>4. attempt'[i] = [n \in Numbers |->
              IF i \in open /\ n = item[i].attempts /\ log[i][n].status = "started"
              THEN [log[i][n] EXCEPT !.status = "abandoned"] ELSE log[i][n]]
        BY <2>1 DEF Closed
    <2>5. rows[i] = IF i \in back
                    THEN Unheld(item[i], "pending", item[i].outcome, item[i].retries, 0)
                    ELSE item[i]
        OBVIOUS
    <2>6. item'[i] = IF i \in open THEN Dropped(rows[i], s) ELSE rows[i]
        BY <2>1
    <2>7. i \in open => rows[i].status \in OpenItem
        OBVIOUS
    <2> HIDE DEF rows, log, open
    <2>8. CASE i \notin back /\ i \notin open
        <3>1. log[i] = attempt[i] /\ attempt'[i] = attempt[i]
            BY <2>2, <2>3, <2>4, <2>8
        <3> QED BY <2>5, <2>6, <2>8, <3>1 DEF Kept, SameRow
    <2>9. CASE i \in back \/ i \in open
        <3>1. \A n \in Numbers : attempt[i][n] \in AttemptRows
            BY <1>1 DEF TypeOK
        <3>2. Closes(i, "abandoned")
            <4> SUFFICES ASSUME NEW n \in Numbers
                         PROVE  attempt'[i][n] =
                                  IF n = item[i].attempts /\ attempt[i][n].status = "started"
                                  THEN [attempt[i][n] EXCEPT !.status = "abandoned"]
                                  ELSE attempt[i][n]
                BY DEF Closes
            <4>1. log[i][n] = IF i \in back /\ n = item[i].attempts /\ attempt[i][n].status = "started"
                              THEN [attempt[i][n] EXCEPT !.status = "abandoned"] ELSE attempt[i][n]
                BY <2>3
            <4>2. attempt'[i][n] = IF i \in open /\ n = item[i].attempts /\ log[i][n].status = "started"
                                   THEN [log[i][n] EXCEPT !.status = "abandoned"] ELSE log[i][n]
                BY <2>4
            <4>3. [attempt[i][n] EXCEPT !.status = "abandoned"].status = "abandoned"
                BY <3>1 DEF AttemptRows
            <4> QED BY <2>9, <4>1, <4>2, <4>3
        <3>3. item[i].status \in OpenItem
            BY <2>5, <2>7, <2>9 DEF OpenItem
        <3>4. \E t \in {"pending", "cancelled"} :
                 item'[i] = Unheld(item[i], t, item[i].outcome, item[i].retries, 0)
            BY <2>5, <2>6, <2>9 DEF Dropped, Unheld
        <3> QED BY <3>2, <3>3, <3>4 DEF Left
    <2> QED BY <2>8, <2>9
<1> QED BY <1>2, <1>3 DEF FinalizeDraining

\* Every step is one of these to every item.
LEMMA HistoryMoves ==
    ASSUME TypeInv, [Next]_vars
    PROVE  \A i \in Items : Moves(i)
<1>0. /\ TypeOK /\ item \in [Items -> GoodRows] /\ lease \in [Creds -> LeaseRows]
      /\ attempt \in [Items -> [Numbers -> AttemptRows]] /\ result \in [Items -> ResultRows]
      /\ version \in [Jobs -> 1 .. MaxVersion] /\ MaxVersion \in Nat
      /\ \A i \in Items : JobOf[i] \in Jobs /\ item[i] \in ItemRows
    BY JobQueueAssumption DEF TypeInv, TypeOK, GoodRows
<1>1. ASSUME NEW i \in Items, Kept(i) \/ Taken(i) \/ Finished(i) \/ GivenBack(i) \/ Left(i),
             version' = version
      PROVE  Moves(i)
    BY <1>1 DEF Moves
<1>2. ASSUME UNCHANGED <<version, attempt, result>>,
             \A i \in Items : SameRow(item'[i], item[i])
      PROVE  \A i \in Items : Moves(i)
    BY <1>1, <1>2 DEF Kept, SameRow
<1>3. ASSUME UNCHANGED <<version, item, attempt, result>>
      PROVE  \A i \in Items : Moves(i)
    BY <1>2, <1>3 DEF SameRow
<1>4. ASSUME NEW j \in Jobs, Create(j) \/ Resume(j) PROVE \A i \in Items : Moves(i)
    BY <1>3, <1>4 DEF Create, Resume
<1>5. ASSUME NEW w \in Workers, NEW c \in Creds, NEW j \in Jobs, Acquire(w, c, j)
      PROVE  \A i \in Items : Moves(i)
    <2>1. ASSUME NEW i \in Items PROVE item'[i] = item[i] \/ item'[i] = [item[i] EXCEPT !.hold.via = None]
        BY <1>5 DEF Acquire
    <2>2. UNCHANGED <<version, attempt, result>>
        BY <1>5 DEF Acquire
    <2>3. ASSUME NEW i \in Items
          PROVE  SameRow(item'[i], item[i])
        <3>1. item[i] \in ItemRows
            BY <1>0
        <3>2. CASE item'[i] = item[i]
            BY <3>2 DEF SameRow
        <3>3. CASE item'[i] = [item[i] EXCEPT !.hold.via = None]
            BY <3>1, <3>3 DEF SameRow, ItemRows, Holds
        <3> QED BY <2>1, <3>2, <3>3
    <2> QED BY <1>2, <2>2, <2>3
<1>6. ASSUME NEW c \in Creds, Heartbeat(c) PROVE \A i \in Items : Moves(i)
    <2>1. ASSUME NEW i \in Items PROVE item'[i] = item[i] \/ item'[i] = [item[i] EXCEPT !.hold.ttl = LeaseTicks]
        BY <1>6 DEF Heartbeat
    <2>2. UNCHANGED <<version, attempt, result>>
        BY <1>6 DEF Heartbeat
    <2>3. ASSUME NEW i \in Items
          PROVE  SameRow(item'[i], item[i])
        <3>1. item[i] \in ItemRows
            BY <1>0
        <3>2. CASE item'[i] = item[i]
            BY <3>2 DEF SameRow
        <3>3. CASE item'[i] = [item[i] EXCEPT !.hold.ttl = LeaseTicks]
            BY <3>1, <3>3 DEF SameRow, ItemRows, Holds
        <3> QED BY <2>1, <3>2, <3>3
    <2> QED BY <1>2, <2>2, <2>3
<1>7. ASSUME NEW w \in Workers, ClaimRead(w) \/ ClaimFails(w) PROVE \A i \in Items : Moves(i)
    BY <1>3, <1>7 DEF ClaimRead, ClaimFails
<1>8. ASSUME NEW w \in Workers, NEW c \in Creds, ClaimCommit(w, c) PROVE \A i \in Items : Moves(i)
    <2> DEFINE batch == Batch(lease[c].job)
               leased == {i \in batch : item[i].status = "leased"}
               expired == Closed(attempt, leased, "lease_expired")
    <2>1. /\ \A i \in batch : item[i].attempts < MaxClaims
          /\ item' = [i \in Items |-> IF i \in batch THEN Claimed(item[i], w, c) ELSE item[i]]
          /\ attempt' = [i \in Items |->
                            IF i \in batch
                            THEN [expired[i] EXCEPT ![item[i].attempts + 1] =
                                    [worker |-> w, status |-> "started"]]
                            ELSE expired[i]]
          /\ UNCHANGED <<version, result>>
        BY <1>8 DEF ClaimCommit
    <2>2. \A i \in batch : i \in Items /\ item[i].status \in OpenItem
        BY DEF Batch, ItemsOf, Ready, OpenItem
    <2>3. \A i \in leased : i \in batch /\ item[i].status = "leased"
        OBVIOUS
    <2> SUFFICES ASSUME NEW i \in Items PROVE Kept(i) \/ Taken(i)
        BY <1>1, <2>1
    <2>4. expired[i] = [n \in Numbers |->
              IF i \in leased /\ n = item[i].attempts /\ attempt[i][n].status = "started"
              THEN [attempt[i][n] EXCEPT !.status = "lease_expired"] ELSE attempt[i][n]]
        BY DEF Closed
    <2>5. attempt[i] = [n \in Numbers |-> attempt[i][n]]
        BY <1>0
    <2>6. i \in leased <=> i \in batch /\ item[i].status = "leased"
        OBVIOUS
    <2> HIDE DEF expired, batch, leased
    <2>7. CASE i \notin batch
        <3>1. expired[i] = attempt[i]
            BY <2>4, <2>5, <2>6, <2>7
        <3> QED BY <2>1, <2>7, <3>1 DEF Kept, SameRow
    <2>8. CASE i \in batch
        <3>1. item'[i] = Claimed(item[i], w, c) /\ result' = result /\ item[i].attempts < MaxClaims
            BY <2>1, <2>8
        <3>2. attempt'[i] = [expired[i] EXCEPT ![item[i].attempts + 1] =
                                [worker |-> w, status |-> "started"]]
            BY <2>1, <2>8
        <3>3. \A n \in Numbers : attempt'[i][n] =
                  IF n = item[i].attempts + 1 THEN [worker |-> w, status |-> "started"]
                  ELSE expired[i][n]
            BY <2>4, <3>2
        <3>4. \A n \in Numbers : expired[i][n] =
                  IF item[i].status = "leased" /\ n = item[i].attempts
                                              /\ attempt[i][n].status = "started"
                  THEN [attempt[i][n] EXCEPT !.status = "lease_expired"] ELSE attempt[i][n]
            BY <2>4, <2>6, <2>8
        <3>5. /\ item'[i].status = "leased" /\ item'[i].outcome = item[i].outcome
              /\ item'[i].retries = item[i].retries /\ item'[i].attempts = item[i].attempts + 1
              /\ item'[i].hold.token = item[i].attempts + 1 /\ item'[i].hold.owner = w
            BY <3>1 DEF Claimed
        <3> QED BY <2>2, <2>8, <3>1, <3>3, <3>4, <3>5 DEF Taken
    <2> QED BY <2>7, <2>8
<1>9. ASSUME NEW i \in Items, NEW n \in Numbers, NEW o \in Outcomes, Answer(i, n, o)
      PROVE  \A k \in Items : Moves(k)
    <2>1. /\ item[i].status = "leased" /\ item[i].hold.token = n /\ o \notin Retryable
          /\ item' = [item EXCEPT ![i] = Answered(item[i], o)]
          /\ attempt' = [attempt EXCEPT ![i][item[i].attempts].status = o]
          /\ result' = [result EXCEPT ![i] = [outcome |-> o, number |-> item[i].attempts,
                                              from |-> n, superseded |-> FALSE]]
          /\ version' = version
        BY <1>9 DEF Answer, Close, Accepts, Owns
    <2>2. \A m \in Numbers : attempt'[i][m] =
             IF m = item[i].attempts THEN [attempt[i][m] EXCEPT !.status = o] ELSE attempt[i][m]
        BY <1>0, <2>1
    <2>3. Finished(i)
        BY <1>0, <2>1, <2>2 DEF Finished
    <2>4. \A k \in Items \ {i} : Kept(k)
        BY <1>0, <2>1 DEF Kept, SameRow
    <2> QED BY <1>1, <2>1, <2>3, <2>4
<1>10. ASSUME NEW i \in Items, NEW n \in Numbers, NEW o \in Outcomes, NEW b \in BOOLEAN,
             Requeue(i, n, o, b)
      PROVE  \A k \in Items : Moves(k)
    <2> DEFINE s == IF b THEN o ELSE "abandoned"
    <2>1. /\ item[i].status = "leased" /\ o \in Retryable
          /\ item' = [item EXCEPT ![i] = Retried(item[i], o, b)]
          /\ attempt' = [attempt EXCEPT ![i][item[i].attempts].status = s]
          /\ version' = version /\ result' = result
        BY <1>10 DEF Requeue, Close, Accepts, Owns
    <2>2. \A m \in Numbers : attempt'[i][m] =
             IF m = item[i].attempts THEN [attempt[i][m] EXCEPT !.status = s] ELSE attempt[i][m]
        BY <1>0, <2>1
    <2>3. GivenBack(i)
        BY <1>0, <2>1, <2>2 DEF GivenBack
    <2>4. \A k \in Items \ {i} : Kept(k)
        BY <1>0, <2>1 DEF Kept, SameRow
    <2> QED BY <1>1, <2>1, <2>3, <2>4
<1>11. ASSUME NEW c \in Creds, Release(c) PROVE \A i \in Items : Moves(i)
    <2> DEFINE j == lease[c].job
               back == {i \in ItemsOf(j) :
                            /\ item[i].status = "leased" /\ item[i].hold.cred = c
                            /\ item[i].hold.owner = lease[c].worker}
    <2>1. /\ FinalizeDraining(j, status[j],
               [i \in Items |->
                    IF i \in back
                    THEN Unheld(item[i], "pending", item[i].outcome, item[i].retries, 0)
                    ELSE item[i]],
               Closed(attempt, back, "abandoned"), [lease EXCEPT ![c] = NoLease])
          /\ UNCHANGED <<version, result>>
        BY <1>11 DEF Release
    <2>2. back \in SUBSET Items /\ \A i \in back : item[i].status = "leased"
        BY DEF ItemsOf
    <2> HIDE DEF back, j
    <2> QED BY <1>1, <2>1, <2>2, FinalizeDrainingMoves
<1>12. ASSUME NEW j \in Jobs, Pause(j) \/ Cancel(j) \/ MaintainDraining(j)
       PROVE  \A i \in Items : Moves(i)
    <2>1. PICK s : FinalizeDraining(j, s, item, attempt, lease)
        BY <1>12 DEF Pause, Cancel, MaintainDraining
    <2>2. UNCHANGED <<version, result>>
        BY <1>12 DEF Pause, Cancel, MaintainDraining
    <2>3. [i \in Items |->
              IF i \in {} THEN Unheld(item[i], "pending", item[i].outcome, item[i].retries, 0)
              ELSE item[i]] = item
        BY <1>0
    <2>4. Closed(attempt, {}, "abandoned") = attempt
        BY <1>0 DEF Closed
    <2>5. \A i \in Items : Kept(i) \/ Left(i)
        BY <2>1, <2>2, <2>3, <2>4, FinalizeDrainingMoves
    <2> QED BY <1>1, <2>2, <2>5
<1>13. ASSUME NEW j \in Jobs, Retry(j) PROVE \A i \in Items : Moves(i)
    <2> SUFFICES ASSUME NEW i \in Items PROVE Moves(i)
        OBVIOUS
    <2> DEFINE again == Reopened(j)
    <2>1. /\ item' = [k \in Items |-> IF k \in again THEN Unheld(item[k], "pending", None, 0, 0) ELSE item[k]]
          /\ attempt' = Closed(attempt, again, "abandoned")
          /\ result' = Superseded(again)
          /\ version' = [version EXCEPT ![j] = @ + 1]
        BY <1>13 DEF Retry
    <2>2. /\ version'[JobOf[i]] = 1 => version[JobOf[i]] = 1
          /\ JobOf[i] = j => version'[JobOf[i]] # 1
        BY <1>0, <2>1
    <2>3. IF i \in again THEN Closes(i, "abandoned") ELSE attempt'[i] = attempt[i]
        BY <1>0, <2>1, ClosedCloses
    <2>4. i \in again => JobOf[i] = j /\ item[i].status \in {"failed", "cancelled", "leased"}
        BY DEF Reopened, ItemsOf
    <2>5. result'[i] = IF i \in again /\ result[i] # NoResult
                       THEN [result[i] EXCEPT !.superseded = TRUE] ELSE result[i]
        BY <2>1 DEF Superseded
    <2>6. item'[i] = IF i \in again THEN Unheld(item[i], "pending", None, 0, 0) ELSE item[i]
        BY <2>1
    <2> HIDE DEF again
    <2>7. CASE i \in again
        <3>1. Renewed(i)
            BY <2>2, <2>3, <2>4, <2>5, <2>6, <2>7 DEF Renewed
        <3> QED BY <2>2, <3>1 DEF Moves
    <2>8. CASE i \notin again
        <3>1. Kept(i)
            BY <2>3, <2>5, <2>6, <2>8 DEF Kept, SameRow
        <3> QED BY <2>2, <3>1 DEF Moves
    <2> QED BY <2>7, <2>8
<1>14. ASSUME NEW j \in Jobs, MaintainActive(j) PROVE \A i \in Items : Moves(i)
    <2>1. Exhausted(j) = {}
        BY NothingToExpire
    <2>2. attempt' = Closed(attempt, {}, "lease_expired") /\ UNCHANGED <<version, result>>
        BY <1>14, <2>1 DEF MaintainActive
    <2>3. attempt' = attempt
        BY <1>0, <2>2 DEF Closed
    <2>4. \A i \in Items : item'[i] = item[i]
        BY <1>14, <2>1 DEF MaintainActive
    <2> QED BY <1>2, <2>2, <2>3, <2>4 DEF SameRow
<1>15. CASE Tick
    <2>1. ASSUME NEW i \in Items
          PROVE  item'[i] = [item[i] EXCEPT !.hold.ttl = IF @ > 0 THEN @ - 1 ELSE 0,
                                            !.wait = IF @ > 0 THEN @ - 1 ELSE 0]
        BY <1>15 DEF Tick
    <2>2. UNCHANGED <<version, attempt, result>>
        BY <1>15 DEF Tick
    <2>3. ASSUME NEW i \in Items
          PROVE  SameRow(item'[i], item[i])
        <3>1. item[i] \in ItemRows
            BY <1>0
        <3>2. CASE item'[i] = item[i]
            BY <3>2 DEF SameRow
        <3>3. CASE item'[i] = [item[i] EXCEPT !.hold.ttl = IF @ > 0 THEN @ - 1 ELSE 0,
                                              !.wait = IF @ > 0 THEN @ - 1 ELSE 0]
            BY <3>1, <3>3 DEF SameRow, ItemRows, Holds
        <3> QED BY <2>1, <3>2, <3>3
    <2> QED BY <1>2, <2>2, <2>3
<1>16. CASE UNCHANGED vars
    BY <1>3, <1>16 DEF vars
<1> QED
    BY <1>4, <1>5, <1>6, <1>7, <1>8, <1>9, <1>10, <1>11, <1>12, <1>13, <1>14, <1>15, <1>16
    DEF Next, WorkerStep, OperatorStep, Maintain

-----------------------------------------------------------------------------
(***************************************************************************)
(* The history of an item.  What HistoryExplainsBudget says of an item and *)
(* of its deliveries, with the token: a leased item is out under its last  *)
(* delivery.                                                               *)
(***************************************************************************)
RowHistory(i) ==
    /\ \A n \in Numbers :
          /\ (attempt[i][n].status = "none") <=> (n > item[i].attempts)
          /\ (attempt[i][n].status = "started") <=>
                  (item[i].status = "leased" /\ n = item[i].attempts)
          /\ attempt[i][n].status = "started" => attempt[i][n].worker = item[i].hold.owner
    /\ item[i].status = "leased" => /\ item[i].attempts \in Numbers
                                    /\ item[i].hold.token = item[i].attempts

Errors(i) == {n \in Numbers : attempt[i][n].status = "retryable_error"}

RowBudget(i) ==
    /\ version[JobOf[i]] = 1 => item[i].retries = Cardinality(Errors(i))
    /\ (item[i].status = "failed" /\ item[i].outcome # "permanent_error")
            => item[i].retries = MaxRetries

ClosedRow(i) ==
    \/ item[i].status = "completed"
    \/ item[i].status = "failed" /\ item[i].outcome = "permanent_error"

ValidResult(i) == result[i] # NoResult /\ ~result[i].superseded

\* A valid result is the answer of the last delivery, and a closed item has one.
RowResult(i) ==
    /\ ValidResult(i) <=> ClosedRow(i)
    /\ ValidResult(i) => /\ result[i].outcome = item[i].outcome
                         /\ attempt[i][result[i].number].status = item[i].outcome
                         /\ result[i].number = item[i].attempts
                         /\ result[i].from = result[i].number
                         /\ result[i].number \in Numbers

HistoryInv == \A i \in Items : RowHistory(i) /\ RowBudget(i) /\ RowResult(i)

LEMMA HistoryRange ==
    /\ Numbers \subseteq Nat /\ IsFiniteSet(Numbers) /\ MaxClaims \in Nat /\ MaxRetries \in Nat
    /\ \A n \in Nat : n \in Numbers <=> (n >= 1 /\ n <= MaxClaims)
    /\ \A o \in Outcomes : o \in AllOutcomes /\ o \notin {"none", "started", "abandoned", None}
<1>1. MaxClaims \in Nat /\ MaxRetries \in Nat /\ Outcomes \subseteq AllOutcomes /\ None \notin AllOutcomes
    BY JobQueueAssumption
<1>2. IsFiniteSet(1 .. MaxClaims)
    BY <1>1, FS_Interval
<1>3. \A o \in AllOutcomes : o \notin {"none", "started", "abandoned", None}
    BY <1>1 DEF AllOutcomes, Success, Retryable, Infrastructure
<1> QED BY <1>1, <1>2, <1>3 DEF Numbers

LEMMA InitHistory == Init => HistoryInv
<1> SUFFICES ASSUME Init, NEW i \in Items PROVE RowHistory(i) /\ RowBudget(i) /\ RowResult(i)
    BY DEF HistoryInv
<1>1. /\ item[i] = NewItem /\ result[i] = NoResult
      /\ \A n \in Numbers : attempt[i][n] = NoAttempt
    BY DEF Init
<1>2. Errors(i) = {}
    BY <1>1 DEF Errors, NoAttempt
<1>3. RowHistory(i)
    BY <1>1, HistoryRange DEF RowHistory, NewItem, NoAttempt
<1>4. RowBudget(i)
    BY <1>1, <1>2, FS_EmptySet DEF RowBudget, NewItem
<1>5. RowResult(i)
    BY <1>1 DEF RowResult, ValidResult, ClosedRow, NewItem
<1> QED BY <1>3, <1>4, <1>5

LEMMA RowsTyped ==
    ASSUME TypeInv, NEW i \in Items
    PROVE  /\ item[i] \in ItemRows /\ result[i] \in ResultRows
           /\ item[i].status \in OpenItem => item[i].retries < MaxRetries
           /\ item[i].attempts \in Nat /\ item[i].retries \in Nat
           /\ item[i].attempts <= MaxClaims /\ item[i].retries <= MaxRetries
           /\ \A n \in Numbers : attempt[i][n] \in AttemptRows
<1>1. item[i] \in GoodRows /\ result[i] \in ResultRows /\ \A n \in Numbers : attempt[i][n] \in AttemptRows
    BY DEF TypeInv, TypeOK
<1>2. item[i].attempts \in 0 .. MaxClaims /\ item[i].retries \in 0 .. MaxRetries
    BY <1>1 DEF GoodRows, ItemRows
<1> QED BY <1>1, <1>2, HistoryRange DEF GoodRows

LEMMA KeptRow ==
    ASSUME TypeInv, NEW i \in Items, RowHistory(i), RowBudget(i), RowResult(i), Kept(i),
           version'[JobOf[i]] = 1 => version[JobOf[i]] = 1
    PROVE  (RowHistory(i) /\ RowBudget(i) /\ RowResult(i))'
<1>1. RowHistory(i)'
    BY DEF RowHistory, Kept, SameRow
<1>2. Errors(i)' = Errors(i)
    BY DEF Errors, Kept
<1>3. RowBudget(i)'
    BY <1>2 DEF RowBudget, Kept, SameRow
<1>4. RowResult(i)'
    BY DEF RowResult, ValidResult, ClosedRow, Kept, SameRow
<1> QED BY <1>1, <1>3, <1>4

LEMMA TakenRow ==
    ASSUME TypeInv, NEW i \in Items, RowHistory(i), RowBudget(i), RowResult(i), Taken(i),
           version'[JobOf[i]] = 1 => version[JobOf[i]] = 1
    PROVE  (RowHistory(i) /\ RowBudget(i) /\ RowResult(i))'
<1>1. item[i].attempts + 1 \in Numbers /\ item[i].attempts \in Nat
    BY RowsTyped, HistoryRange DEF Taken
<1>2. \A n \in Numbers :
         attempt'[i][n].status =
            IF n = item[i].attempts + 1 THEN "started"
            ELSE IF item[i].status = "leased" /\ n = item[i].attempts THEN "lease_expired"
            ELSE attempt[i][n].status
    <2> SUFFICES ASSUME NEW n \in Numbers
                 PROVE  attempt'[i][n].status =
                          IF n = item[i].attempts + 1 THEN "started"
                          ELSE IF item[i].status = "leased" /\ n = item[i].attempts
                               THEN "lease_expired"
                          ELSE attempt[i][n].status
        OBVIOUS
    <2>1. attempt[i][n] \in AttemptRows
        BY RowsTyped
    <2>2. CASE n = item[i].attempts + 1
        <3>1. attempt'[i][n] = [worker |-> item'[i].hold.owner, status |-> "started"]
            BY <2>2 DEF Taken
        <3> QED BY <2>2, <3>1
    <2>3. CASE n # item[i].attempts + 1 /\ item[i].status = "leased" /\ n = item[i].attempts
        <3>1. attempt[i][n].status = "started"
            BY <2>3 DEF RowHistory
        <3>2. attempt'[i][n] = [attempt[i][n] EXCEPT !.status = "lease_expired"]
            BY <2>3, <3>1 DEF Taken
        <3> QED BY <2>1, <2>3, <3>2 DEF AttemptRows
    <2>4. CASE n # item[i].attempts + 1 /\ ~(item[i].status = "leased" /\ n = item[i].attempts)
        <3>1. attempt'[i][n] = attempt[i][n]
            BY <2>4 DEF Taken
        <3> QED BY <2>4, <3>1
    <2> QED BY <2>2, <2>3, <2>4
<1>3. attempt'[i][item[i].attempts + 1].worker = item'[i].hold.owner
    <2>1. attempt'[i][item[i].attempts + 1] = [worker |-> item'[i].hold.owner, status |-> "started"]
        BY <1>1 DEF Taken
    <2> QED BY <2>1
<1>4. RowHistory(i)'
    <2>1. /\ item'[i].attempts = item[i].attempts + 1 /\ item'[i].status = "leased"
          /\ item'[i].hold.token = item'[i].attempts
        BY DEF Taken
    <2>2. ASSUME NEW n \in Numbers
          PROVE  /\ (attempt'[i][n].status = "none") <=> (n > item'[i].attempts)
                 /\ (attempt'[i][n].status = "started") <=> (n = item'[i].attempts)
        <3>1. /\ (attempt[i][n].status = "none") <=> (n > item[i].attempts)
              /\ (attempt[i][n].status = "started") <=>
                      (item[i].status = "leased" /\ n = item[i].attempts)
            BY DEF RowHistory
        <3> QED BY <1>1, <1>2, <2>1, <3>1, HistoryRange
    <2> QED BY <1>1, <1>3, <2>1, <2>2 DEF RowHistory
<1>5. Errors(i)' = Errors(i)
    <2>1. ASSUME NEW n \in Numbers
          PROVE  attempt'[i][n].status = "retryable_error" <=> attempt[i][n].status = "retryable_error"
        <3>1. /\ (attempt[i][n].status = "none") <=> (n > item[i].attempts)
              /\ (attempt[i][n].status = "started") <=>
                      (item[i].status = "leased" /\ n = item[i].attempts)
            BY DEF RowHistory
        <3> QED BY <1>1, <1>2, <3>1, HistoryRange
    <2> QED BY <2>1 DEF Errors
<1>6. RowBudget(i)'
    BY <1>5 DEF RowBudget, Taken
<1>7. RowResult(i)'
    BY DEF RowResult, ValidResult, ClosedRow, Taken, OpenItem
<1> QED BY <1>4, <1>6, <1>7

\* The last delivery of a leased item ends with status s, and the item is out
\* of any worker's hands.
LEMMA EndedHistory ==
    ASSUME TypeInv, NEW i \in Items, RowHistory(i), item[i].status = "leased", NEW s,
           s \notin {"none", "started"},
           \A n \in Numbers : attempt'[i][n] =
                IF n = item[i].attempts THEN [attempt[i][n] EXCEPT !.status = s] ELSE attempt[i][n],
           item'[i].attempts = item[i].attempts, item'[i].status # "leased"
    PROVE  /\ RowHistory(i)'
           /\ Errors(i)' = Errors(i) \cup (IF s = "retryable_error" THEN {item[i].attempts} ELSE {})
           /\ item[i].attempts \in Numbers \ Errors(i)
<1>1. item[i].attempts \in Numbers
    BY DEF RowHistory
<1>2. \A n \in Numbers :
         attempt'[i][n].status = IF n = item[i].attempts THEN s ELSE attempt[i][n].status
    <2> SUFFICES ASSUME NEW n \in Numbers
                 PROVE  attempt'[i][n].status =
                          IF n = item[i].attempts THEN s ELSE attempt[i][n].status
        OBVIOUS
    <2>1. attempt[i][n] \in AttemptRows
        BY RowsTyped
    <2>2. CASE n = item[i].attempts
        <3>1. attempt'[i][n] = [attempt[i][n] EXCEPT !.status = s]
            BY <2>2
        <3> QED BY <2>1, <2>2, <3>1 DEF AttemptRows
    <2>3. CASE n # item[i].attempts
        BY <2>3
    <2> QED BY <2>2, <2>3
<1>3. ASSUME NEW n \in Numbers
      PROVE  /\ (attempt'[i][n].status = "none") <=> (n > item'[i].attempts)
             /\ attempt'[i][n].status # "started"
    <2>1. /\ (attempt[i][n].status = "none") <=> (n > item[i].attempts)
          /\ (attempt[i][n].status = "started") <=>
                  (item[i].status = "leased" /\ n = item[i].attempts)
        BY DEF RowHistory
    <2> QED BY <1>1, <1>2, <2>1, HistoryRange
<1>4. RowHistory(i)'
    BY <1>3 DEF RowHistory
<1>5. item[i].attempts \notin Errors(i)
    BY <1>1 DEF RowHistory, Errors
<1>6. Errors(i)' = Errors(i) \cup (IF s = "retryable_error" THEN {item[i].attempts} ELSE {})
    <2>1. CASE s = "retryable_error"
        BY <1>1, <1>2, <2>1 DEF Errors
    <2>2. CASE s # "retryable_error"
        BY <1>1, <1>2, <1>5, <2>2 DEF Errors
    <2> QED BY <2>1, <2>2
<1> QED BY <1>1, <1>4, <1>5, <1>6

LEMMA FinishedRow ==
    ASSUME TypeInv, NEW i \in Items, RowHistory(i), RowBudget(i), RowResult(i), Finished(i),
           version'[JobOf[i]] = 1 => version[JobOf[i]] = 1
    PROVE  (RowHistory(i) /\ RowBudget(i) /\ RowResult(i))'
<1>1. PICK o \in Outcomes \ Retryable :
          /\ item'[i] = Answered(item[i], o)
          /\ \A n \in Numbers : attempt'[i][n] =
                IF n = item[i].attempts THEN [attempt[i][n] EXCEPT !.status = o] ELSE attempt[i][n]
          /\ result'[i] = [outcome |-> o, number |-> item[i].attempts,
                           from |-> item[i].hold.token, superseded |-> FALSE]
    BY DEF Finished
<1>2. /\ item[i].status = "leased" /\ o \notin {"none", "started", "retryable_error", None}
      /\ o \in Success \/ o = "permanent_error"
    BY HistoryRange DEF Finished, Retryable, AllOutcomes
<1>3. /\ item'[i].attempts = item[i].attempts /\ item'[i].retries = item[i].retries
      /\ item'[i].outcome = o
      /\ item'[i].status = IF o \in Success THEN "completed" ELSE "failed"
    BY <1>1 DEF Answered, Unheld
<1>4. /\ RowHistory(i)' /\ Errors(i)' = Errors(i) /\ item[i].attempts \in Numbers
    <2>1. item'[i].status # "leased" /\ o \notin {"none", "started"} /\ o # "retryable_error"
        BY <1>2, <1>3
    <2>2. /\ RowHistory(i)' /\ item[i].attempts \in Numbers \ Errors(i)
          /\ Errors(i)' = Errors(i) \cup (IF o = "retryable_error" THEN {item[i].attempts} ELSE {})
        BY <1>1, <1>2, <1>3, <2>1, EndedHistory
    <2> QED BY <2>1, <2>2
<1>5. RowBudget(i)'
    BY <1>2, <1>3, <1>4 DEF RowBudget, Success
<1>6. RowResult(i)'
    <2>1. /\ result'[i] # NoResult /\ ~result'[i].superseded
        BY <1>1, <1>2 DEF NoResult
    <2>2. attempt'[i][item[i].attempts].status = o
        <3>1. /\ attempt[i][item[i].attempts] \in AttemptRows
              /\ attempt'[i][item[i].attempts]
                    = [attempt[i][item[i].attempts] EXCEPT !.status = o]
            BY <1>1, <1>4, RowsTyped
        <3> QED BY <3>1 DEF AttemptRows
    <2>3. item[i].hold.token = item[i].attempts
        BY <1>2 DEF RowHistory
    <2>4. ClosedRow(i)'
        BY <1>2, <1>3 DEF ClosedRow, Success
    <2> QED BY <1>1, <1>3, <1>4, <2>1, <2>2, <2>3, <2>4 DEF RowResult, ValidResult
<1> QED BY <1>4, <1>5, <1>6

LEMMA GivenBackRow ==
    ASSUME TypeInv, NEW i \in Items, RowHistory(i), RowBudget(i), RowResult(i), GivenBack(i),
           version'[JobOf[i]] = 1 => version[JobOf[i]] = 1
    PROVE  (RowHistory(i) /\ RowBudget(i) /\ RowResult(i))'
<1>1. PICK o \in Outcomes \cap Retryable, b \in BOOLEAN :
          /\ item'[i] = Retried(item[i], o, b)
          /\ \A n \in Numbers : attempt'[i][n] =
                IF n = item[i].attempts
                THEN [attempt[i][n] EXCEPT !.status = IF b THEN o ELSE "abandoned"]
                ELSE attempt[i][n]
    BY DEF GivenBack
<1> DEFINE s == IF b THEN o ELSE "abandoned"
<1>2. /\ item[i].status = "leased" /\ o \notin {"none", "started", "permanent_error"}
      /\ result'[i] = result[i]
    BY HistoryRange DEF GivenBack, Retryable, Infrastructure
<1>3. s \notin {"none", "started"} /\ (s = "retryable_error" <=> b /\ o = "retryable_error")
    BY <1>2
<1>4. item[i].retries < MaxRetries /\ item[i].retries \in Nat /\ MaxRetries \in Nat
    BY <1>2, RowsTyped, HistoryRange DEF OpenItem
<1>5. /\ item'[i].attempts = item[i].attempts
      /\ item'[i].retries = IF b /\ o = "retryable_error" THEN item[i].retries + 1 ELSE item[i].retries
      /\ \/ item'[i].status = "pending"
         \/ item'[i].status = "failed" /\ item'[i].outcome = o /\ item'[i].retries = MaxRetries
    BY <1>1, <1>4 DEF Retried, Spent, Unheld
<1>6. /\ RowHistory(i)'
      /\ Errors(i)' = Errors(i) \cup (IF s = "retryable_error" THEN {item[i].attempts} ELSE {})
      /\ item[i].attempts \in Numbers \ Errors(i)
    <2>1. \A n \in Numbers : attempt'[i][n] =
              IF n = item[i].attempts THEN [attempt[i][n] EXCEPT !.status = s] ELSE attempt[i][n]
        BY <1>1
    <2> HIDE DEF s
    <2> QED BY <1>2, <1>3, <1>5, <2>1, EndedHistory
<1> HIDE DEF s
<1>7. RowBudget(i)'
    <2>1. IsFiniteSet(Errors(i))
        BY HistoryRange, FS_Subset DEF Errors
    <2>2. Cardinality(Errors(i)') =
              IF b /\ o = "retryable_error" THEN Cardinality(Errors(i)) + 1 ELSE Cardinality(Errors(i))
        BY <1>3, <1>6, <2>1, FS_AddElement
    <2>3. version'[JobOf[i]] = 1 => item'[i].retries = Cardinality(Errors(i)')
        BY <1>5, <2>2 DEF RowBudget
    <2>4. item'[i].status = "failed" => item'[i].retries = MaxRetries
        BY <1>5
    <2> QED BY <2>3, <2>4 DEF RowBudget
<1>8. RowResult(i)'
    <2>1. ~ClosedRow(i) /\ ~(ClosedRow(i)')
        BY <1>2, <1>5 DEF ClosedRow
    <2> QED BY <1>2, <2>1 DEF RowResult, ValidResult
<1> QED BY <1>6, <1>7, <1>8

\* An item dropped or given back with nothing else: its delivery is abandoned.
LEMMA ClosedHistory ==
    ASSUME TypeInv, NEW i \in Items, RowHistory(i), Closes(i, "abandoned"),
           item'[i].attempts = item[i].attempts, item'[i].status # "leased"
    PROVE  RowHistory(i)' /\ Errors(i)' = Errors(i)
<1>1. CASE item[i].status = "leased"
    <2>1. \A n \in Numbers : attempt'[i][n] =
              IF n = item[i].attempts THEN [attempt[i][n] EXCEPT !.status = "abandoned"]
              ELSE attempt[i][n]
        BY <1>1 DEF Closes, RowHistory
    <2> QED BY <1>1, <2>1, EndedHistory
<1>2. CASE item[i].status # "leased"
    <2>1. \A n \in Numbers : attempt'[i][n] = attempt[i][n] /\ attempt[i][n].status # "started"
        BY <1>2 DEF Closes, RowHistory
    <2>2. Errors(i)' = Errors(i)
        BY <2>1 DEF Errors
    <2>3. RowHistory(i)'
        BY <2>1 DEF RowHistory
    <2> QED BY <2>2, <2>3
<1> QED BY <1>1, <1>2

LEMMA LeftRow ==
    ASSUME TypeInv, NEW i \in Items, RowHistory(i), RowBudget(i), RowResult(i), Left(i),
           version'[JobOf[i]] = 1 => version[JobOf[i]] = 1
    PROVE  (RowHistory(i) /\ RowBudget(i) /\ RowResult(i))'
<1>1. /\ item[i].status \in OpenItem /\ result'[i] = result[i]
      /\ item'[i].status \in {"pending", "cancelled"}
      /\ item'[i].attempts = item[i].attempts /\ item'[i].retries = item[i].retries
    BY DEF Left, Unheld
<1>2. RowHistory(i)' /\ Errors(i)' = Errors(i)
    BY <1>1, ClosedHistory DEF Left
<1>3. RowBudget(i)'
    BY <1>1, <1>2 DEF RowBudget
<1>4. RowResult(i)'
    <2>1. ~ClosedRow(i) /\ ~(ClosedRow(i)')
        BY <1>1 DEF ClosedRow, OpenItem
    <2> QED BY <1>1, <2>1 DEF RowResult, ValidResult
<1> QED BY <1>2, <1>3, <1>4

LEMMA RenewedRow ==
    ASSUME TypeInv, NEW i \in Items, RowHistory(i), RowBudget(i), RowResult(i), Renewed(i)
    PROVE  (RowHistory(i) /\ RowBudget(i) /\ RowResult(i))'
<1>1. /\ item'[i].status = "pending" /\ item'[i].attempts = item[i].attempts
      /\ version'[JobOf[i]] # 1
    BY DEF Renewed, Unheld
<1>2. RowHistory(i)'
    BY <1>1, ClosedHistory DEF Renewed
<1>3. RowBudget(i)'
    BY <1>1 DEF RowBudget
<1>4. RowResult(i)'
    <2>1. ~(ClosedRow(i)')
        BY <1>1 DEF ClosedRow
    <2>2. ~(ValidResult(i)')
        <3>1. result[i] \in ResultRows
            BY RowsTyped
        <3>2. [result[i] EXCEPT !.superseded = TRUE].superseded = TRUE
            BY <3>1 DEF ResultRows
        <3> QED BY <3>2 DEF Renewed, ValidResult
    <2> QED BY <2>1, <2>2 DEF RowResult
<1> QED BY <1>2, <1>3, <1>4

LEMMA HistoryStep == TypeInv /\ HistoryInv /\ [Next]_vars => HistoryInv'
<1> SUFFICES ASSUME TypeInv, HistoryInv, [Next]_vars, NEW i \in Items
             PROVE  (RowHistory(i) /\ RowBudget(i) /\ RowResult(i))'
    BY DEF HistoryInv
<1>1. Moves(i)
    BY HistoryMoves
<1> QED BY <1>1, KeptRow, TakenRow, FinishedRow, GivenBackRow, LeftRow, RenewedRow
        DEF Moves, HistoryInv

-----------------------------------------------------------------------------
(***************************************************************************)
(* What the history gives a reader.                                        *)
(***************************************************************************)
\* Closed records are not touched by whatever happens to their item.
ClosedRecordsKept ==
    \A i \in Items :
        /\ item[i].status = "completed" =>
            /\ item'[i].status = "completed"
            /\ item'[i].outcome = item[i].outcome
            /\ result'[i] = result[i]
        /\ \A n \in Numbers : attempt[i][n].status \notin {"none", "started"} =>
                                attempt'[i][n] = attempt[i][n]

LEMMA ClosedRecordsStep == TypeInv /\ HistoryInv /\ [Next]_vars => ClosedRecordsKept
<1> SUFFICES ASSUME TypeInv, HistoryInv, [Next]_vars, NEW i \in Items
             PROVE  /\ item[i].status = "completed" =>
                        /\ item'[i].status = "completed"
                        /\ item'[i].outcome = item[i].outcome
                        /\ result'[i] = result[i]
                    /\ \A n \in Numbers : attempt[i][n].status \notin {"none", "started"} =>
                                            attempt'[i][n] = attempt[i][n]
    BY DEF ClosedRecordsKept
<1>1. Moves(i) /\ RowHistory(i)
    BY HistoryMoves DEF HistoryInv
<1>2. ASSUME item[i].status = "completed"
      PROVE  /\ item'[i].status = "completed" /\ item'[i].outcome = item[i].outcome
             /\ result'[i] = result[i]
    <2>1. Kept(i)
        BY <1>1, <1>2 DEF Moves, Taken, Finished, GivenBack, Left, Renewed, OpenItem
    <2> QED BY <1>2, <2>1 DEF Kept, SameRow
<1>3. ASSUME NEW n \in Numbers, attempt[i][n].status \notin {"none", "started"}
      PROVE  attempt'[i][n] = attempt[i][n]
    <2>1. n # item[i].attempts + 1 /\ ~(item[i].status = "leased" /\ n = item[i].attempts)
        <3>1. item[i].attempts \in Nat /\ n \in Nat
            BY RowsTyped, HistoryRange
        <3>2. ~(n > item[i].attempts) /\ ~(item[i].status = "leased" /\ n = item[i].attempts)
            BY <1>1, <1>3 DEF RowHistory
        <3> QED BY <3>1, <3>2
    <2>2. CASE Kept(i)
        BY <2>2 DEF Kept
    <2>3. CASE Taken(i)
        BY <2>1, <2>3 DEF Taken
    <2>4. CASE Finished(i)
        BY <2>1, <2>4 DEF Finished
    <2>5. CASE GivenBack(i)
        BY <2>1, <2>5 DEF GivenBack
    <2>6. CASE Left(i) \/ Renewed(i)
        BY <1>3, <2>6 DEF Left, Renewed, Closes
    <2> QED BY <1>1, <2>2, <2>3, <2>4, <2>5, <2>6 DEF Moves
<1> QED BY <1>2, <1>3

\* The history of every item is exact and its budget spent by technical errors
\* only, for every retry limit: no crash, outage, drain or operator costs an
\* attempt, and a delivery is in progress exactly while its worker holds it.
THEOREM BudgetsAreExplained == Spec => []HistoryExplainsBudget
<1>1. TypeInv /\ HistoryInv => HistoryExplainsBudget
    <2> SUFFICES ASSUME TypeInv, HistoryInv, NEW i \in Items
                 PROVE  LET errors == {n \in Numbers : attempt[i][n].status = "retryable_error"}
                        IN  /\ \A n \in Numbers :
                                /\ (attempt[i][n].status = "none") <=> (n > item[i].attempts)
                                /\ attempt[i][n].status = "started" <=>
                                        (item[i].status = "leased" /\ n = item[i].attempts)
                                /\ attempt[i][n].status = "started"
                                        => attempt[i][n].worker = item[i].hold.owner
                            /\ version[JobOf[i]] = 1 => item[i].retries = Cardinality(errors)
                            /\ (item[i].status = "failed" /\ item[i].outcome # "permanent_error")
                                    => item[i].retries = MaxRetries
                            /\ item[i].status \in OpenItem => item[i].retries < MaxRetries
        BY DEF HistoryExplainsBudget
    <2>1. RowHistory(i) /\ RowBudget(i)
        BY DEF HistoryInv
    <2>2. item[i].status \in OpenItem => item[i].retries < MaxRetries
        BY RowsTyped
    <2> QED BY <2>1, <2>2 DEF RowHistory, RowBudget, Errors
<1> QED BY <1>1, TypeInit, TypeStep, InitHistory, HistoryStep, PTL DEF Spec

\* A valid result exists exactly for the items closed by a final answer, and
\* carries the answer and the delivery the item was closed with.
THEOREM ResultsMatchTheirItems == Spec => []PublishedResultMatchesItem
<1>1. HistoryInv => PublishedResultMatchesItem
    BY DEF HistoryInv, RowResult, ValidResult, ClosedRow, PublishedResultMatchesItem
<1> QED BY <1>1, TypeInit, TypeStep, InitHistory, HistoryStep, PTL DEF Spec

\* A completed item, its result and every closed delivery are never rewritten.
THEOREM ClosedRecordsAreFinal == Spec => ClosedRecordsStay
<1>1. TypeInv /\ HistoryInv /\ [Next]_vars => [ClosedRecordsKept]_vars
    BY ClosedRecordsStep
<1>2. [][ClosedRecordsKept]_vars => ClosedRecordsStay
    BY DEF ClosedRecordsStay, ClosedRecordsKept
<1> QED BY <1>1, <1>2, TypeInit, TypeStep, InitHistory, HistoryStep, PTL DEF Spec

-----------------------------------------------------------------------------
(***************************************************************************)
(* A job agrees with its items.                                            *)
(***************************************************************************)
Counting(j, rows, k) == {i \in ItemsOf(j) : k \in CountersOf(rows[i])}
StatesOf(j, rows) == {rows[i].status : i \in ItemsOf(j)}

\* What the status s of a job tells of the set of its items' states.
Told(s, states) ==
    /\ s = "completed" => states = {"completed"}
    /\ s = "completed_with_errors" => states = {"completed", "failed"}
    /\ s = "failed" => states = {"failed"}
    /\ s = "cancelled" => states \cap OpenItem = {}

Agrees(j) == tally[j] = Recount(j, item) /\ Told(status[j], StatesOf(j, item))

\* A success and a completed item are the same thing.
SuccessCompletes(i) == item[i].status = "completed" <=> item[i].outcome \in Success

AgreeInv ==
    /\ \A j \in Jobs : Agrees(j)
    /\ \A i \in Items : SuccessCompletes(i)

\* The items that add to a counter are finitely many.
LEMMA CountingFinite ==
    ASSUME NEW j, NEW rows, NEW k
    PROVE  /\ IsFiniteSet(Counting(j, rows, k)) /\ Cardinality(Counting(j, rows, k)) \in Nat
           /\ IsFiniteSet(ItemsOf(j)) /\ Cardinality(ItemsOf(j)) \in Nat
<1>1. IsFiniteSet(ItemsOf(j)) /\ IsFiniteSet(Counting(j, rows, k))
    BY JobQueueAssumption, FS_Subset DEF ItemsOf, Counting
<1> QED BY <1>1, FS_CardinalityType

\* Rows of the same states and outcomes add the same to every counter.
LEMMA SameCounters ==
    ASSUME NEW old, NEW new, new.outcome = old.outcome,
           new.status = old.status \/ {old.status, new.status} \subseteq OpenItem
    PROVE  CountersOf(new) = CountersOf(old)
BY DEF CountersOf, OpenItem

\* And so does a recount of a job all of whose rows are such.
LEMMA SameRecount ==
    ASSUME NEW j, NEW old, NEW new,
           \A i \in ItemsOf(j) : CountersOf(new[i]) = CountersOf(old[i])
    PROVE  Recount(j, new) = Recount(j, old)
BY DEF Recount

\* The delta of one transition is what a recount would have found.
LEMMA ShiftedRecounts ==
    ASSUME NEW j, NEW i \in ItemsOf(j), NEW old, NEW new,
           \A x \in ItemsOf(j) \ {i} : new[x] = old[x]
    PROVE  Shifted(Recount(j, old), old[i], new[i]) = Recount(j, new)
<1> SUFFICES ASSUME NEW k \in Counters
             PROVE  Cardinality(Counting(j, new, k)) =
                      IF k \in CountersOf(new[i]) \ CountersOf(old[i])
                      THEN Cardinality(Counting(j, old, k)) + 1
                      ELSE IF /\ k \in CountersOf(old[i]) \ CountersOf(new[i])
                              /\ Cardinality(Counting(j, old, k)) > 0
                      THEN Cardinality(Counting(j, old, k)) - 1
                      ELSE Cardinality(Counting(j, old, k))
    BY DEF Shifted, Recount, Counting
<1>1. /\ IsFiniteSet(Counting(j, old, k)) /\ Cardinality(Counting(j, old, k)) \in Nat
      /\ IsFiniteSet(Counting(j, new, k)) /\ Cardinality(Counting(j, new, k)) \in Nat
    BY CountingFinite
<1>2. CASE k \in CountersOf(new[i]) /\ k \notin CountersOf(old[i])
    <2>1. Counting(j, new, k) = Counting(j, old, k) \cup {i} /\ i \notin Counting(j, old, k)
        BY <1>2 DEF Counting
    <2>2. Cardinality(Counting(j, old, k) \cup {i}) = Cardinality(Counting(j, old, k)) + 1
        BY <1>1, <2>1, FS_AddElement
    <2> QED BY <1>2, <2>1, <2>2
<1>3. CASE k \in CountersOf(old[i]) /\ k \notin CountersOf(new[i])
    <2>1. Counting(j, new, k) = Counting(j, old, k) \ {i} /\ i \in Counting(j, old, k)
        BY <1>3 DEF Counting
    <2>2. Cardinality(Counting(j, old, k) \ {i}) = Cardinality(Counting(j, old, k)) - 1
        BY <1>1, <2>1, FS_RemoveElement
    <2>3. Cardinality(Counting(j, old, k)) # 0
        BY <1>1, <2>1, FS_EmptySet
    <2> QED BY <1>1, <1>3, <2>1, <2>2, <2>3
<1>4. CASE k \in CountersOf(old[i]) <=> k \in CountersOf(new[i])
    <2>1. Counting(j, new, k) = Counting(j, old, k)
        BY <1>4 DEF Counting
    <2> QED BY <1>4, <2>1
<1> QED BY <1>2, <1>3, <1>4

\* A job closed from its counters, when they are those of its rows, tells the
\* truth: if as many rows are completed or failed as there are, all of them are.
LEMMA FinalizedTells ==
    ASSUME NEW j, NEW rows, NEW s, Told(s, StatesOf(j, rows))
    PROVE  Told(Finalized(s, Recount(j, rows), j), StatesOf(j, rows))
<1> DEFINE done == Counting(j, rows, "completed")
           lost == Counting(j, rows, "failed")
<1>1. CASE Finalized(s, Recount(j, rows), j) = s
    BY <1>1
<1>2. CASE Finalized(s, Recount(j, rows), j) # s
    <2>1. /\ Recount(j, rows)["completed"] = Cardinality(done)
          /\ Recount(j, rows)["failed"] = Cardinality(lost)
        BY DEF Recount, Counters, Counting
    <2>2. /\ IsFiniteSet(done) /\ IsFiniteSet(lost) /\ IsFiniteSet(ItemsOf(j))
          /\ Cardinality(done) \in Nat /\ Cardinality(lost) \in Nat
          /\ Cardinality(ItemsOf(j)) \in Nat
        BY CountingFinite
    <2>3. /\ ItemsOf(j) # {}
          /\ ~(Cardinality(done) + Cardinality(lost) < Cardinality(ItemsOf(j)))
          /\ Finalized(s, Recount(j, rows), j) =
                IF Cardinality(lost) = 0 THEN "completed"
                ELSE IF Cardinality(done) > 0 THEN "completed_with_errors"
                ELSE "failed"
        BY <1>2, <2>1 DEF Finalized
    <2>4. /\ \A i \in ItemsOf(j) : i \in done <=> rows[i].status = "completed"
          /\ \A i \in ItemsOf(j) : i \in lost <=> rows[i].status = "failed"
          /\ done \subseteq ItemsOf(j) /\ lost \subseteq ItemsOf(j)
        BY DEF Counting, CountersOf, Success
    <2> HIDE DEF done, lost
    <2>5. done \cap lost = {}
        BY <2>4
    <2>6. Cardinality(done \cup lost) = Cardinality(done) + Cardinality(lost)
        BY <2>2, <2>5, FS_Union, FS_EmptySet
    <2>7. done \cup lost = ItemsOf(j)
        <3>1. done \cup lost \subseteq ItemsOf(j)
            BY <2>4
        <3>2. /\ Cardinality(done \cup lost) <= Cardinality(ItemsOf(j))
              /\ Cardinality(done \cup lost) = Cardinality(ItemsOf(j)) => ItemsOf(j) = done \cup lost
            BY <2>2, <3>1, FS_Subset
        <3> QED BY <2>2, <2>3, <2>6, <3>2
    <2>8. /\ Cardinality(lost) = 0 <=> lost = {}
          /\ Cardinality(done) = 0 <=> done = {}
        BY <2>2, FS_EmptySet
    <2>9. CASE lost = {}
        <3>1. StatesOf(j, rows) = {"completed"}
            BY <2>3, <2>4, <2>7, <2>9 DEF StatesOf
        <3> QED BY <2>3, <2>8, <2>9, <3>1 DEF Told
    <2>10. CASE lost # {} /\ done # {}
        <3>1. StatesOf(j, rows) = {"completed", "failed"}
            BY <2>4, <2>7, <2>10 DEF StatesOf
        <3> QED BY <2>2, <2>3, <2>8, <2>10, <3>1 DEF Told
    <2>11. CASE lost # {} /\ done = {}
        <3>1. StatesOf(j, rows) = {"failed"}
            BY <2>4, <2>7, <2>11 DEF StatesOf
        <3> QED BY <2>2, <2>3, <2>8, <2>11, <3>1 DEF Told
    <2> QED BY <2>9, <2>10, <2>11
<1> QED BY <1>1, <1>2

\* A job agrees as before if its row is kept, and its items' states and outcomes.
LEMMA AgreesKept ==
    ASSUME NEW j, Agrees(j), status'[j] = status[j], tally'[j] = tally[j],
           \A i \in ItemsOf(j) : /\ item'[i].status = item[i].status
                                 /\ item'[i].outcome = item[i].outcome
    PROVE  Agrees(j)'
<1>1. Recount(j, item') = Recount(j, item)
    BY SameCounters, SameRecount
<1>2. StatesOf(j, item') = StatesOf(j, item)
    BY DEF StatesOf
<1> QED BY <1>1, <1>2 DEF Agrees, ItemsOf, Recount, StatesOf

\* Open and draining jobs tell nothing of their items.
LEMMA OpenTellsNothing ==
    ASSUME NEW s, s \notin EndedStates \cup {"cancelled"}, NEW states
    PROVE  Told(s, states)
BY DEF Told, EndedStates

\* The shared end of pause, cancel, release and maintenance keeps every job in
\* agreement, when its caller gives leased items of the job back.
LEMMA FinalizeDrainingAgrees ==
    ASSUME TypeInv, AgreeInv, NEW j \in Jobs, NEW s, s = status[j] \/ s \in DrainingStates,
           NEW rows, NEW log, NEW leases, FinalizeDraining(j, s, rows, log, leases),
           \A i \in Items : \/ rows[i] = item[i]
                            \/ /\ i \in ItemsOf(j) /\ item[i].status = "leased"
                               /\ rows[i].status = "pending"
                               /\ rows[i].outcome = item[i].outcome
    PROVE  \A k \in Jobs : Agrees(k)'
<1>0. /\ status \in [Jobs -> JobStates] /\ tally \in [Jobs -> [Counters -> Nat]]
      /\ \A k : ItemsOf(k) \subseteq Items
      /\ \A k \in Jobs \ {j} : \A i \in ItemsOf(k) : i \notin ItemsOf(j)
    BY DEF TypeInv, TypeOK, ItemsOf
<1>1. CASE status' = [status EXCEPT ![j] = s] /\ item' = rows /\ tally' = tally
    <2>1. ASSUME NEW k \in Jobs \ {j} PROVE Agrees(k)'
        BY <1>0, <1>1, AgreesKept DEF AgreeInv
    <2>2. Recount(j, item') = Recount(j, item)
        <3>1. ASSUME NEW i \in ItemsOf(j) PROVE CountersOf(item'[i]) = CountersOf(item[i])
            BY <1>0, <1>1, SameCounters DEF OpenItem
        <3> QED BY <3>1, SameRecount
    <2>3. Told(s, StatesOf(j, item'))
        <3>1. CASE s \in EndedStates \cup {"cancelled"}
            <4>1. s = status[j] /\ Told(s, StatesOf(j, item))
                BY <3>1 DEF AgreeInv, Agrees, DrainingStates, EndedStates
            <4>2. \A i \in ItemsOf(j) : item[i].status # "leased"
                BY <3>1, <4>1 DEF Told, StatesOf, EndedStates, OpenItem
            <4>3. StatesOf(j, item') = StatesOf(j, item)
                BY <1>0, <1>1, <4>2 DEF StatesOf
            <4> QED BY <4>1, <4>3
        <3>2. CASE s \notin EndedStates \cup {"cancelled"}
            BY <3>2, OpenTellsNothing
        <3> QED BY <3>1, <3>2
    <2>4. tally'[j] = Recount(j, item') /\ status'[j] = s
        BY <1>0, <1>1, <2>2 DEF AgreeInv, Agrees
    <2>5. Agrees(j)'
        BY <2>3, <2>4 DEF Agrees, Recount, StatesOf, ItemsOf
    <2> QED BY <2>1, <2>5
<1>2. CASE s \in DrainingStates /\ ~Reserved(j, leases)
    <2> DEFINE open == {i \in ItemsOf(j) : rows[i].status \in OpenItem}
               left == [i \in Items |-> IF i \in open THEN Dropped(rows[i], s) ELSE rows[i]]
               counts == Recount(j, left)
               told == IF s = "cancelling" THEN "cancelled"
                       ELSE IF Finalized("running", counts, j) = "running" THEN "paused"
                       ELSE Finalized("running", counts, j)
    <2>1. /\ item' = left /\ tally' = [tally EXCEPT ![j] = counts]
          /\ status' = [status EXCEPT ![j] = told]
        BY <1>2 DEF FinalizeDraining, Reserved, DrainingStates
    <2>2. \A i \in ItemsOf(j) : s = "cancelling" => left[i].status \notin OpenItem
        BY <1>0 DEF Dropped, Unheld, OpenItem
    <2>3. \A i \in Items : i \notin ItemsOf(j) => left[i] = item[i]
        OBVIOUS
    <2>4. Told(told, StatesOf(j, left))
        <3>1. CASE s = "cancelling"
            BY <2>2, <3>1 DEF Told, StatesOf
        <3>2. CASE s # "cancelling"
            <4> HIDE DEF left
            <4>1. Told("running", StatesOf(j, left)) /\ Told("paused", StatesOf(j, left))
                BY OpenTellsNothing DEF EndedStates
            <4>2. Told(Finalized("running", Recount(j, left), j), StatesOf(j, left))
                BY <4>1, FinalizedTells
            <4> QED BY <3>2, <4>1, <4>2
        <3> QED BY <3>1, <3>2
    <2> HIDE DEF left, told
    <2>5. ASSUME NEW k \in Jobs \ {j} PROVE Agrees(k)'
        BY <1>0, <2>1, <2>3, AgreesKept DEF AgreeInv
    <2>6. tally'[j] = Recount(j, item') /\ status'[j] = told
        BY <1>0, <2>1
    <2>7. Agrees(j)'
        BY <2>1, <2>4, <2>6 DEF Agrees, Recount, StatesOf, ItemsOf
    <2> QED BY <2>5, <2>7
<1> QED BY <1>1, <1>2 DEF FinalizeDraining

\* Whatever happens to an item, a success is what completes it.
LEMMA SuccessCompletesStep ==
    ASSUME TypeInv, NEW i \in Items, SuccessCompletes(i), Moves(i)
    PROVE  SuccessCompletes(i)'
<1>1. None \notin Success /\ \A o \in Retryable : o \notin Success
    BY JobQueueAssumption DEF AllOutcomes, Success, Retryable, Infrastructure
<1>2. CASE Kept(i)
    BY <1>2 DEF Kept, SameRow, SuccessCompletes
<1>3. CASE Taken(i)
    BY <1>3 DEF Taken, SuccessCompletes, OpenItem
<1>4. CASE Finished(i)
    BY <1>4 DEF Finished, Answered, Unheld, SuccessCompletes
<1>5. CASE GivenBack(i)
    <2>1. PICK o \in Retryable, b \in BOOLEAN : item'[i] = Retried(item[i], o, b)
        BY <1>5 DEF GivenBack
    <2>2. /\ item'[i].status # "completed"
          /\ item'[i].outcome = o \/ item'[i].outcome = item[i].outcome
        BY <2>1 DEF Retried, Unheld
    <2>3. item[i].status = "leased"
        BY <1>5 DEF GivenBack
    <2> QED BY <1>1, <2>2, <2>3 DEF SuccessCompletes
<1>6. CASE Left(i)
    BY <1>6 DEF Left, Unheld, SuccessCompletes, OpenItem
<1>7. CASE Renewed(i)
    BY <1>1, <1>7 DEF Renewed, Unheld, SuccessCompletes
<1> QED BY <1>2, <1>3, <1>4, <1>5, <1>6, <1>7 DEF Moves

\* The answer to one delivery moves the counters by what its row changed.
LEMMA CloseAgrees ==
    ASSUME TypeInv, AgreeInv, NEW i \in Items, NEW s, NEW row, Close(i, s, row),
           status[JobOf[i]] \in ActiveStates \cup DrainingStates
    PROVE  \A k \in Jobs : Agrees(k)'
<1> DEFINE j == JobOf[i]
           counts == Shifted(tally[j], item[i], row)
<1>0. /\ status \in [Jobs -> JobStates] /\ tally \in [Jobs -> [Counters -> Nat]]
      /\ item \in [Items -> GoodRows] /\ j \in Jobs /\ i \in ItemsOf(j)
      /\ \A k : ItemsOf(k) \subseteq Items
      /\ \A k \in Jobs \ {j} : i \notin ItemsOf(k)
    BY JobQueueAssumption DEF TypeInv, TypeOK, ItemsOf
<1>1. /\ item' = [item EXCEPT ![i] = row]
      /\ tally' = [tally EXCEPT ![j] = counts]
      /\ status' = [status EXCEPT ![j] = Finalized(status[j], counts, j)]
    BY DEF Close
<1>2. ASSUME NEW k \in Jobs \ {j} PROVE Agrees(k)'
    BY <1>0, <1>1, <1>2, AgreesKept DEF AgreeInv
<1>3. counts = Recount(j, item')
    <2>1. tally[j] = Recount(j, item) /\ item'[i] = row
        BY <1>0, <1>1 DEF AgreeInv, Agrees
    <2>2. \A x \in ItemsOf(j) \ {i} : item'[x] = item[x]
        BY <1>0, <1>1
    <2>3. Shifted(Recount(j, item), item[i], item'[i]) = Recount(j, item')
        BY <1>0, <2>2, ShiftedRecounts
    <2> QED BY <2>1, <2>3
<1>4. Told(status[j], StatesOf(j, item'))
    BY OpenTellsNothing DEF ActiveStates, DrainingStates, EndedStates
<1>5. Told(Finalized(status[j], Recount(j, item'), j), StatesOf(j, item'))
    BY <1>4, FinalizedTells
<1>6. tally'[j] = Recount(j, item') /\ Told(status'[j], StatesOf(j, item'))
    BY <1>0, <1>1, <1>3, <1>5
<1>7. Agrees(j)'
    BY <1>6 DEF Agrees, Recount, StatesOf, ItemsOf
<1> QED BY <1>2, <1>7

\* The operator's retry zeroes three counters: what is left to count then are
\* completed items, none of which failed.
LEMMA RetryAgrees ==
    ASSUME TypeInv, AgreeInv, NEW j \in Jobs, Retry(j)
    PROVE  \A k \in Jobs : Agrees(k)'
<1> DEFINE again == Reopened(j)
           zeroed == [tally[j] EXCEPT !["failed"] = 0, !["retryable"] = 0, !["permanent"] = 0]
<1>0. /\ status \in [Jobs -> JobStates] /\ tally \in [Jobs -> [Counters -> Nat]]
      /\ item \in [Items -> GoodRows] /\ None \notin AllOutcomes
      /\ \A k : ItemsOf(k) \subseteq Items
      /\ \A k \in Jobs \ {j} : \A i \in ItemsOf(k) : i \notin again
    BY JobQueueAssumption DEF TypeInv, TypeOK, ItemsOf, Reopened
<1>1. /\ item' = [i \in Items |->
            IF i \in again THEN Unheld(item[i], "pending", None, 0, 0) ELSE item[i]]
      /\ tally' = [tally EXCEPT ![j] = zeroed]
      /\ status' = [status EXCEPT ![j] = "queued"]
      /\ status[j] \in {"failed", "completed_with_errors", "cancelled"}
    BY DEF Retry
<1>2. ASSUME NEW k \in Jobs \ {j} PROVE Agrees(k)'
    BY <1>0, <1>1, AgreesKept DEF AgreeInv
<1>3. ASSUME NEW i \in ItemsOf(j)
      PROVE  \/ i \in again
             \/ i \notin again /\ item[i].status = "completed" /\ item[i].outcome \in Success
    <2>1. item[i].status \in ItemStates
        BY <1>0 DEF GoodRows, ItemRows
    <2>2. item[i].status \notin {"pending", "leased"}
        BY <1>1 DEF AgreeInv, Agrees, Told, StatesOf, OpenItem
    <2> QED BY <1>0, <2>1, <2>2 DEF Reopened, ItemStates, OpenItem, AgreeInv, SuccessCompletes
<1>4. ASSUME NEW i \in ItemsOf(j)
      PROVE  /\ CountersOf(item'[i]) = CountersOf(item[i]) \ {"failed", "retryable", "permanent"}
    <2>1. CASE i \in again
        <3>1. item'[i].status = "pending" /\ item'[i].outcome = None
            BY <1>0, <1>1, <2>1 DEF Unheld
        <3>2. CountersOf(item'[i]) = {}
            BY <1>0, <3>1 DEF CountersOf, AllOutcomes, Retryable, Success
        <3>3. item[i].status # "completed" /\ item[i].outcome \notin Success
            BY <1>0, <2>1 DEF Reopened, AgreeInv, SuccessCompletes
        <3>4. CountersOf(item[i]) \subseteq {"failed", "retryable", "permanent"}
            BY <3>3 DEF CountersOf
        <3> QED BY <3>2, <3>4
    <2>2. CASE i \notin again
        <3>1. item'[i] = item[i] /\ item[i].status = "completed" /\ item[i].outcome \in Success
            BY <1>0, <1>1, <1>3, <2>2
        <3>2. CountersOf(item[i]) \subseteq {"completed"} \cup Success
            BY <3>1 DEF CountersOf, Success, Retryable, Infrastructure
        <3> QED BY <3>1, <3>2 DEF Success
    <2> QED BY <2>1, <2>2
<1>5. ASSUME NEW k \in Counters
      PROVE  Cardinality(Counting(j, item', k)) = zeroed[k]
    <2>1. tally[j][k] = Cardinality(Counting(j, item, k))
        BY DEF AgreeInv, Agrees, Recount, Counting
    <2>2. CASE k \in {"failed", "retryable", "permanent"}
        <3>1. Counting(j, item', k) = {}
            BY <1>4, <2>2 DEF Counting
        <3>2. zeroed[k] = 0
            BY <1>0, <2>2 DEF Counters
        <3> QED BY <3>1, <3>2, FS_EmptySet
    <2>3. CASE k \notin {"failed", "retryable", "permanent"}
        <3>1. Counting(j, item', k) = Counting(j, item, k)
            BY <1>4, <2>3 DEF Counting
        <3>2. zeroed[k] = tally[j][k]
            BY <1>0, <2>3
        <3> QED BY <2>1, <3>1, <3>2
    <2> QED BY <2>2, <2>3
<1>6. zeroed = [k \in Counters |-> zeroed[k]]
    BY <1>0
<1> HIDE DEF zeroed
<1>7. zeroed = Recount(j, item')
    BY <1>5, <1>6 DEF Recount, Counting
<1>8. Told("queued", StatesOf(j, item'))
    BY OpenTellsNothing DEF EndedStates
<1>9. Agrees(j)'
    BY <1>0, <1>1, <1>7, <1>8 DEF Agrees, Recount, StatesOf, ItemsOf
<1> QED BY <1>2, <1>9

\* A claim gives items out only of a job whose status tells nothing of them:
\* in a job that has ended or is cancelled it finds no item to give out.
LEMMA ClaimAgrees ==
    ASSUME TypeInv, AgreeInv, NEW w \in Workers, NEW c \in Creds, ClaimCommit(w, c)
    PROVE  \A k \in Jobs : Agrees(k)'
<1> DEFINE j == lease[c].job
           batch == Batch(j)
<1>0. /\ status \in [Jobs -> JobStates] /\ tally \in [Jobs -> [Counters -> Nat]]
      /\ \A k : ItemsOf(k) \subseteq Items
      /\ \A k \in Jobs \ {j} : \A i \in ItemsOf(k) : i \notin batch
      /\ \A i \in batch : i \in ItemsOf(j) /\ item[i].status \in OpenItem
    BY DEF TypeInv, TypeOK, ItemsOf, Batch, Ready, OpenItem
<1>1. /\ item' = [i \in Items |-> IF i \in batch THEN Claimed(item[i], w, c) ELSE item[i]]
      /\ status' = [status EXCEPT ![j] = IF claim[w] = "queued" /\ batch # {} THEN "running" ELSE @]
      /\ tally' = tally
    BY DEF ClaimCommit
<1> HIDE DEF batch
<1>2. ASSUME NEW k \in Jobs \ {j} PROVE Agrees(k)'
    BY <1>0, <1>1, AgreesKept DEF AgreeInv
<1>3. CASE batch = {} /\ j \in Jobs
    BY <1>0, <1>1, <1>3, AgreesKept DEF AgreeInv
<1>4. CASE batch # {} /\ j \in Jobs
    <2>1. PICK i \in batch : i \in ItemsOf(j) /\ item[i].status \in OpenItem
        BY <1>0, <1>4
    <2>2. status[j] \notin EndedStates \cup {"cancelled"}
        <3>1. Told(status[j], StatesOf(j, item)) /\ item[i].status \in StatesOf(j, item)
            BY <1>4, <2>1 DEF AgreeInv, Agrees, StatesOf
        <3> QED BY <2>1, <3>1 DEF Told, OpenItem, EndedStates
    <2>3. Told(status'[j], StatesOf(j, item'))
        BY <1>0, <1>1, <1>4, <2>2, OpenTellsNothing DEF EndedStates
    <2>4. Recount(j, item') = Recount(j, item)
        <3>1. ASSUME NEW x \in ItemsOf(j) PROVE CountersOf(item'[x]) = CountersOf(item[x])
            BY <1>0, <1>1, SameCounters DEF Claimed, OpenItem
        <3> QED BY <3>1, SameRecount
    <2>5. tally'[j] = Recount(j, item')
        BY <1>1, <1>4, <2>4 DEF AgreeInv, Agrees
    <2> SUFFICES ASSUME NEW k \in Jobs, k = j PROVE Agrees(k)'
        BY <1>2
    <2>6. tally'[k] = Recount(k, item') /\ Told(status'[k], StatesOf(k, item'))
        BY <2>3, <2>5
    <2> QED BY <2>6 DEF Agrees, Recount, StatesOf, ItemsOf
<1> QED BY <1>2, <1>3, <1>4

LEMMA AgreeInit == Init => AgreeInv
<1> SUFFICES ASSUME Init PROVE AgreeInv
    OBVIOUS
<1>1. \A i \in Items : item[i] = NewItem
    BY DEF Init
<1>2. CountersOf(NewItem) = {} /\ None \notin Success
    BY JobQueueAssumption DEF NewItem, CountersOf, AllOutcomes, Success, Retryable
<1>3. ASSUME NEW j \in Jobs PROVE Agrees(j)
    <2>1. ASSUME NEW k \in Counters
          PROVE  {i \in ItemsOf(j) : k \in CountersOf(item[i])} = {}
        BY <1>1, <1>2 DEF ItemsOf
    <2>2. Recount(j, item) = [k \in Counters |-> 0]
        BY <2>1, FS_EmptySet DEF Recount
    <2>3. Told(status[j], StatesOf(j, item))
        BY OpenTellsNothing DEF Init, EndedStates
    <2> QED BY <2>2, <2>3 DEF Agrees, Init
<1>4. \A i \in Items : SuccessCompletes(i)
    BY <1>1, <1>2 DEF SuccessCompletes, NewItem
<1> QED BY <1>3, <1>4 DEF AgreeInv

LEMMA AgreeStep == TypeInv /\ AgreeInv /\ [Next]_vars => AgreeInv'
<1> SUFFICES ASSUME TypeInv, AgreeInv, [Next]_vars PROVE AgreeInv'
    OBVIOUS
<1>0. /\ status \in [Jobs -> JobStates] /\ tally \in [Jobs -> [Counters -> Nat]]
      /\ item \in [Items -> GoodRows] /\ \A i \in Items : JobOf[i] \in Jobs
      /\ \A k : ItemsOf(k) \subseteq Items
    BY JobQueueAssumption DEF TypeInv, TypeOK, ItemsOf
<1>1. \A i \in Items : SuccessCompletes(i)'
    BY HistoryMoves, SuccessCompletesStep DEF AgreeInv
<1> SUFFICES \A k \in Jobs : Agrees(k)'
    BY <1>1 DEF AgreeInv
<1>2. ASSUME UNCHANGED <<status, tally>>,
             \A i \in Items : /\ item'[i].status = item[i].status
                              /\ item'[i].outcome = item[i].outcome
      PROVE  \A k \in Jobs : Agrees(k)'
    BY <1>0, <1>2, AgreesKept DEF AgreeInv
<1>3. ASSUME NEW j \in Jobs, Create(j) \/ Resume(j) PROVE \A k \in Jobs : Agrees(k)'
    <2>1. UNCHANGED <<tally, item>> /\ status' = [status EXCEPT ![j] = "queued"]
        BY <1>3 DEF Create, Resume
    <2>2. ASSUME NEW k \in Jobs \ {j} PROVE Agrees(k)'
        BY <1>0, <2>1, AgreesKept DEF AgreeInv
    <2>3. Told("queued", StatesOf(j, item))
        BY OpenTellsNothing DEF EndedStates
    <2>4. Agrees(j)'
        BY <1>0, <2>1, <2>3 DEF AgreeInv, Agrees
    <2> QED BY <2>2, <2>4
<1>4. ASSUME NEW w \in Workers, NEW c \in Creds, NEW j \in Jobs, Acquire(w, c, j)
      PROVE  \A k \in Jobs : Agrees(k)'
    <2>1. UNCHANGED <<status, tally>>
        BY <1>4 DEF Acquire
    <2>2. \A i \in Items : item'[i].status = item[i].status /\ item'[i].outcome = item[i].outcome
        BY <1>0, <1>4 DEF Acquire, GoodRows, ItemRows
    <2> QED BY <1>2, <2>1, <2>2
<1>5. ASSUME NEW c \in Creds, Heartbeat(c) PROVE \A k \in Jobs : Agrees(k)'
    <2>1. UNCHANGED <<status, tally>>
        BY <1>5 DEF Heartbeat
    <2>2. \A i \in Items : item'[i].status = item[i].status /\ item'[i].outcome = item[i].outcome
        BY <1>0, <1>5 DEF Heartbeat, GoodRows, ItemRows
    <2> QED BY <1>2, <2>1, <2>2
<1>6. ASSUME NEW w \in Workers, ClaimRead(w) \/ ClaimFails(w) PROVE \A k \in Jobs : Agrees(k)'
    BY <1>2, <1>6 DEF ClaimRead, ClaimFails
<1>7. ASSUME NEW i \in Items, NEW n \in Numbers, NEW o \in Outcomes, Answer(i, n, o)
      PROVE  \A k \in Jobs : Agrees(k)'
    BY <1>7, CloseAgrees DEF Answer, Accepts
<1>8. ASSUME NEW i \in Items, NEW n \in Numbers, NEW o \in Outcomes, NEW b \in BOOLEAN,
             Requeue(i, n, o, b)
      PROVE  \A k \in Jobs : Agrees(k)'
    BY <1>8, CloseAgrees DEF Requeue, Accepts
<1>9. ASSUME NEW c \in Creds, Release(c) PROVE \A k \in Jobs : Agrees(k)'
    <2> DEFINE j == lease[c].job
               back == {i \in ItemsOf(j) :
                            /\ item[i].status = "leased" /\ item[i].hold.cred = c
                            /\ item[i].hold.owner = lease[c].worker}
               rows == [i \in Items |->
                            IF i \in back
                            THEN Unheld(item[i], "pending", item[i].outcome, item[i].retries, 0)
                            ELSE item[i]]
               log == Closed(attempt, back, "abandoned")
               leases == [lease EXCEPT ![c] = NoLease]
    <2>1. j \in Jobs
        BY <1>9 DEF Release, TypeInv, TypeOK, LeaseRows
    <2>2. \A i \in Items : \/ rows[i] = item[i]
                           \/ /\ i \in ItemsOf(j) /\ item[i].status = "leased"
                              /\ rows[i].status = "pending"
                              /\ rows[i].outcome = item[i].outcome
        BY DEF Unheld
    <2>3. FinalizeDraining(j, status[j], rows, log, leases)
        BY <1>9 DEF Release
    <2> HIDE DEF j, rows, log, leases
    <2> QED BY <2>1, <2>2, <2>3, FinalizeDrainingAgrees
<1>10. ASSUME NEW j \in Jobs, Pause(j) \/ Cancel(j) \/ MaintainDraining(j)
       PROVE  \A k \in Jobs : Agrees(k)'
    <2>1. PICK s \in DrainingStates : FinalizeDraining(j, s, item, attempt, lease)
        BY <1>10 DEF Pause, Cancel, MaintainDraining, DrainingStates
    <2> QED BY <2>1, FinalizeDrainingAgrees
<1>11. ASSUME NEW j \in Jobs, MaintainActive(j) PROVE \A k \in Jobs : Agrees(k)'
    <2>1. tally' = tally /\ status' = [status EXCEPT ![j] = Finalized(status[j], tally[j], j)]
        <3> DEFINE gained(k) == Cardinality({i \in {} : k \in CountersOf(item'[i])})
                   lost(k) == Cardinality({i \in {} : k \in CountersOf(item[i])})
        <3>1. \A k : gained(k) = 0 /\ lost(k) = 0
            BY FS_EmptySet
        <3>2. [k \in Counters |-> IF 0 > tally[j][k] + 0 THEN 0 ELSE tally[j][k] + 0 - 0] = tally[j]
            BY <1>0
        <3> QED BY <1>0, <1>11, <3>1, <3>2, NothingToExpire DEF MaintainActive
    <2>2. \A i \in Items : item'[i] = item[i]
        BY <1>11, NothingToExpire DEF MaintainActive
    <2>3. ASSUME NEW k \in Jobs \ {j} PROVE Agrees(k)'
        BY <1>0, <2>1, <2>2, AgreesKept DEF AgreeInv
    <2>4. Agrees(j)'
        <3>1. Told(Finalized(status[j], Recount(j, item), j), StatesOf(j, item))
            BY FinalizedTells DEF AgreeInv, Agrees
        <3>2. Recount(j, item') = Recount(j, item) /\ StatesOf(j, item') = StatesOf(j, item)
            BY <1>0, <2>2, SameRecount DEF StatesOf
        <3>3. tally'[j] = Recount(j, item') /\ Told(status'[j], StatesOf(j, item'))
            BY <1>0, <2>1, <3>1, <3>2 DEF AgreeInv, Agrees
        <3> QED BY <3>3 DEF Agrees, Recount, StatesOf, ItemsOf
    <2> QED BY <2>3, <2>4
<1>12. CASE Tick
    <2>1. UNCHANGED <<status, tally>>
        BY <1>12 DEF Tick
    <2>2. \A i \in Items : item'[i].status = item[i].status /\ item'[i].outcome = item[i].outcome
        BY <1>0, <1>12 DEF Tick, GoodRows, ItemRows
    <2> QED BY <1>2, <2>1, <2>2
<1>13. CASE UNCHANGED vars
    BY <1>2, <1>13 DEF vars
<1> QED
    BY <1>3, <1>4, <1>5, <1>6, <1>7, <1>8, <1>9, <1>10, <1>11, <1>12, <1>13,
       ClaimAgrees, RetryAgrees
    DEF Next, WorkerStep, OperatorStep, Maintain

\* The O(1) counters of a job never drift from its items, for any number of
\* items, and a job that says it has ended tells how its items ended.
THEOREM JobsAgreeWithItems == Spec => []JobAgreesWithItems
<1>1. AgreeInv => JobAgreesWithItems
    BY DEF AgreeInv, Agrees, Told, StatesOf, JobAgreesWithItems
<1> QED BY <1>1, TypeInit, TypeStep, AgreeInit, AgreeStep, PTL DEF Spec
=============================================================================
