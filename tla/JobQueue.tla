------------------------------ MODULE JobQueue ------------------------------
(***************************************************************************)
(* The PostgreSQL-backed consultation queue of machine_admin/queue.py and  *)
(* the worker and operator endpoints of machine_admin/web.py that drive    *)
(* it, for the jobs of one agreement (municipality).  Every handler runs   *)
(* in one transaction that holds the job's row lock, so it is one step;    *)
(* the exception is the claim endpoint, which reads the job before it      *)
(* takes the lock and is split in two.                                     *)
(*                                                                         *)
(* Time is a clock that counts down: a lease with ttl = 0 has expired.     *)
(* Workers are not modelled here: a request may arrive at any moment, late *)
(* or again, as long as some worker could have sent it.                    *)
(***************************************************************************)
EXTENDS Naturals, FiniteSets

CONSTANTS
    Jobs,         \* job ids, a set of naturals in order of creation
    Items,        \* item ids, a set of naturals (claims go in id order)
    JobOf,        \* JobOf[i] is the job of item i
    Workers,      \* worker ids
    Creds,        \* portal credentials (accesses) of the agreement
    Outcomes,     \* the consultation outcomes considered
    MaxRetries,   \* JobItem.max_attempts
    LeaseTicks,   \* lease_seconds, in clock ticks
    BackoffTicks, \* backoff after a technical error, in clock ticks
    MaxParallel,  \* Job.max_parallel_accounts
    MaxWorkers,   \* Municipality.max_workers
    BatchSize,    \* batch_size of a claim
    MaxClaims,    \* bound: deliveries of one item
    MaxVersion,   \* bound: result_version, that is operator retries
    None          \* SQL NULL

Infrastructure == {"credential_error", "portal_unavailable", "integration_unavailable"}
Retryable == Infrastructure \cup {"retryable_error"}
Success == {"found", "not_found"}
AllOutcomes == Success \cup Retryable \cup {"permanent_error"}

ASSUME JobQueueAssumption ==
    /\ Jobs \subseteq Nat /\ Items \subseteq Nat
    /\ IsFiniteSet(Items)
    /\ JobOf \in [Items -> Jobs]
    /\ Outcomes \subseteq AllOutcomes
    /\ {MaxRetries, LeaseTicks, MaxParallel, MaxWorkers, BatchSize, MaxClaims,
        MaxVersion} \subseteq Nat \ {0}
    /\ BackoffTicks \in Nat
    /\ None \notin Jobs /\ None \notin Workers /\ None \notin Creds
    /\ None \notin AllOutcomes

VARIABLES
    status,   \* Job.status
    version,  \* Job.result_version
    tally,    \* the six O(1) counters of the job row
    item,     \* the JobItem rows
    attempt,  \* the JobItemAttempt rows, numbered per item
    result,   \* the ConsultationResult row of each item
    lease,    \* the CredentialLease row of each credential
    claim     \* the job status a claim request in flight has read, per worker

vars == <<status, version, tally, item, attempt, result, lease, claim>>

ActiveStates == {"queued", "running"}
DrainingStates == {"pausing", "cancelling"}
EndedStates == {"completed", "completed_with_errors", "failed"}
JobStates == ActiveStates \cup DrainingStates \cup EndedStates
                \cup {"absent", "paused", "cancelled"}
OpenItem == {"pending", "leased"}
ItemStates == OpenItem \cup {"completed", "failed", "cancelled"}
Counters == {"completed", "failed", "found", "not_found", "retryable", "permanent"}

ItemsOf(j) == {i \in Items : JobOf[i] = j}
NoLease == [worker |-> None, job |-> None, ttl |-> 0]
NoHold == [owner |-> None, cred |-> None, token |-> 0, ttl |-> 0, via |-> None]
NoAttempt == [worker |-> None, status |-> "none"]
NoResult == [outcome |-> None, number |-> 0, from |-> 0, superseded |-> FALSE]
Numbers == 1 .. MaxClaims

LiveLeases == {c \in Creds : lease[c].ttl > 0}
LiveLeasesOf(j) == {c \in LiveLeases : lease[c].job = j}

(***************************************************************************)
(* What a row adds to the job's counters, and the two ways the code keeps  *)
(* them: by the delta of one transition, or by counting the rows again.    *)
(***************************************************************************)
CountersOf(row) ==
    ({"completed", "failed"} \cap {row.status})
        \cup (Success \cap {row.outcome})
        \cup {k \in {"permanent"} : row.outcome = "permanent_error"}
        \cup {k \in {"retryable"} : row.outcome \in Retryable}

Shifted_KeepsOldOutcome(counts, old, new) ==
    [k \in Counters |->
        counts[k] + IF k \in CountersOf(new) \ CountersOf(old) THEN 1 ELSE 0]

Shifted(counts, old, new) ==
    [k \in Counters |->
        IF k \in CountersOf(new) \ CountersOf(old) THEN counts[k] + 1
        ELSE IF k \in CountersOf(old) \ CountersOf(new) /\ counts[k] > 0
             THEN counts[k] - 1
        ELSE counts[k]]

Recount(j, rows) ==
    [k \in Counters |-> Cardinality({i \in ItemsOf(j) : k \in CountersOf(rows[i])})]

Finalized_OffByOne(s, counts, j) ==
    IF \/ s \in DrainingStates \cup {"paused", "cancelled"}
       \/ counts["completed"] + counts["failed"] + 1 < Cardinality(ItemsOf(j))
    THEN s
    ELSE IF counts["failed"] = 0 THEN "completed"
    ELSE IF counts["completed"] > 0 THEN "completed_with_errors"
    ELSE "failed"

\* The status a job gets once its counters say that no item is open.
Finalized(s, counts, j) ==
    IF \/ s \in DrainingStates \cup {"paused", "cancelled"}
       \/ ItemsOf(j) = {}
       \/ counts["completed"] + counts["failed"] < Cardinality(ItemsOf(j))
    THEN s
    ELSE IF counts["failed"] = 0 THEN "completed"
    ELSE IF counts["completed"] > 0 THEN "completed_with_errors"
    ELSE "failed"

(***************************************************************************)
(* job_execution_state.  Readiness, portal windows and operational blocks  *)
(* are conditions of the environment: a refusal changes nothing.           *)
(***************************************************************************)
Ready_PendingOnly(i) ==
    item[i].retries < MaxRetries /\ item[i].status = "pending" /\ item[i].wait = 0

Ready(i) ==
    /\ item[i].retries < MaxRetries
    /\ \/ item[i].status = "pending" /\ item[i].wait = 0
       \/ item[i].status = "leased" /\ item[i].hold.ttl = 0

OrderBlocked(j) ==
    \E k \in Jobs \ {j} :
        \/ status[k] \in {"running"} \cup DrainingStates
        \/ status[k] = "queued" /\ k < j

Executable(j) ==
    /\ status[j] \in ActiveStates
    /\ ~OrderBlocked(j)
    /\ \E i \in ItemsOf(j) : Ready(i)

-----------------------------------------------------------------------------
NewItem ==
    [status |-> "pending", outcome |-> None, retries |-> 0, attempts |-> 0,
     wait |-> 0, hold |-> NoHold]

Init ==
    /\ status = [j \in Jobs |-> "absent"]
    /\ version = [j \in Jobs |-> 1]
    /\ tally = [j \in Jobs |-> [k \in Counters |-> 0]]
    /\ item = [i \in Items |-> NewItem]
    /\ attempt = [i \in Items |-> [n \in Numbers |-> NoAttempt]]
    /\ result = [i \in Items |-> NoResult]
    /\ lease = [c \in Creds |-> NoLease]
    /\ claim = [w \in Workers |-> "none"]

\* A panel or API request, or a due schedule, creates the next job.
Create(j) ==
    /\ status[j] = "absent"
    /\ \A k \in Jobs : k < j => status[k] # "absent"
    /\ status' = [status EXCEPT ![j] = "queued"]
    /\ UNCHANGED <<version, tally, item, attempt, result, lease, claim>>

-----------------------------------------------------------------------------
(***************************************************************************)
(* Credential leases.  An item's hold is its lease: owner, credential,     *)
(* token (the number of the delivery) and expiry; "via" is history, the    *)
(* credential whose present lease row the item was claimed under.          *)
(***************************************************************************)
HasCapacity_OneMore(j) ==
    /\ Cardinality(LiveLeases) <= MaxWorkers
    /\ Cardinality(LiveLeasesOf(j)) < MaxParallel

HasCapacity(j) ==
    /\ Cardinality(LiveLeases) < MaxWorkers
    /\ Cardinality(LiveLeasesOf(j)) < MaxParallel

Acquire(w, c, j) ==
    /\ Executable(j)
    /\ HasCapacity(j)
    /\ \A d \in LiveLeases : lease[d].worker # w
    /\ c \notin LiveLeases
    /\ lease' = [d \in Creds |->
                    IF d = c THEN [worker |-> w, job |-> j, ttl |-> LeaseTicks]
                    ELSE IF lease[d].worker = w THEN NoLease
                    ELSE lease[d]]
    /\ item' = [i \in Items |->
                    IF item[i].hold.via = c THEN [item[i] EXCEPT !.hold.via = None]
                    ELSE item[i]]
    /\ claim' = [claim EXCEPT ![w] = "none"]  \* its old token no longer matches
    /\ UNCHANGED <<status, version, tally, attempt, result>>

Renews_Nothing(c, i) == FALSE

\* The items whose lease a heartbeat of credential c renews with its own.
Renews(c, i) ==
    /\ item[i].status = "leased" /\ item[i].hold.ttl > 0
    /\ item[i].hold.owner = lease[c].worker /\ item[i].hold.cred = c

Heartbeat(c) ==
    /\ c \in LiveLeases
    /\ lease' = [lease EXCEPT ![c].ttl = LeaseTicks]
    /\ item' = [i \in Items |->
                    IF Renews(c, i) THEN [item[i] EXCEPT !.hold.ttl = LeaseTicks]
                    ELSE item[i]]
    /\ UNCHANGED <<status, version, tally, attempt, result, claim>>

-----------------------------------------------------------------------------
(***************************************************************************)
(* Claim.  The endpoint loads the Job without a lock and evaluates         *)
(* job_execution_state; claim_job_items then locks the row, but the ORM    *)
(* session keeps the attributes it has already loaded, so the status it    *)
(* tests and overwrites is the one read before the lock.                   *)
(***************************************************************************)
ClaimRead(w) ==
    /\ claim[w] = "none"
    /\ \E c \in LiveLeases :
        /\ lease[c].worker = w
        /\ Executable(lease[c].job)
        /\ claim' = [claim EXCEPT ![w] = status[lease[c].job]]
    /\ UNCHANGED <<status, version, tally, item, attempt, result, lease>>

\* The first BatchSize ready items of the job, in id order.
Batch(j) ==
    LET ready == {i \in ItemsOf(j) : Ready(i)}
    IN  {i \in ready : Cardinality({k \in ready : k < i}) < BatchSize}

Claimed(row, w, c) ==
    [status |-> "leased", outcome |-> row.outcome, retries |-> row.retries,
     attempts |-> row.attempts + 1, wait |-> 0,
     hold |-> [owner |-> w, cred |-> c, token |-> row.attempts + 1,
               ttl |-> LeaseTicks, via |-> c]]

\* The row out of any worker's hands, with a new status, outcome, number of
\* retries and backoff.  (The token a row keeps for replays is not needed.)
Unheld(row, s, o, retries, wait) ==
    [status |-> s, outcome |-> o, retries |-> retries, attempts |-> row.attempts,
     wait |-> wait, hold |-> NoHold]

Closed_Forgotten(rows, closed, s) == rows

Closed_AnyStatus(rows, closed, s) ==
    [i \in Items |->
        [n \in Numbers |->
            IF i \in closed /\ n = item[i].attempts
            THEN [rows[i][n] EXCEPT !.status = s]
            ELSE rows[i][n]]]

\* The attempt rows once those of the items in "closed" end with status s.
Closed(rows, closed, s) ==
    [i \in Items |->
        [n \in Numbers |->
            IF i \in closed /\ n = item[i].attempts /\ rows[i][n].status = "started"
            THEN [rows[i][n] EXCEPT !.status = s]
            ELSE rows[i][n]]]

ClaimCommit(w, c) ==
    /\ claim[w] \in ActiveStates
    /\ c \in LiveLeases /\ lease[c].worker = w
    /\ LET j == lease[c].job
           batch == Batch(j)
           expired == Closed(attempt, {i \in batch : item[i].status = "leased"},
                             "lease_expired")
       IN  /\ \A i \in batch : item[i].attempts < MaxClaims
           /\ item' = [i \in Items |->
                        IF i \in batch THEN Claimed(item[i], w, c) ELSE item[i]]
           /\ attempt' = [i \in Items |->
                            IF i \in batch
                            THEN [expired[i] EXCEPT ![item[i].attempts + 1] =
                                    [worker |-> w, status |-> "started"]]
                            ELSE expired[i]]
           /\ status' = [status EXCEPT ![j] =
                            IF claim[w] = "queued" /\ batch # {} THEN "running" ELSE @]
    /\ claim' = [claim EXCEPT ![w] = "none"]
    /\ UNCHANGED <<version, tally, result, lease>>

\* The request ends without a commit: the credential lease is gone when it
\* gets the lock (409), or the connection or the server process fails.
ClaimFails(w) ==
    /\ claim[w] # "none"
    /\ claim' = [claim EXCEPT ![w] = "none"]
    /\ UNCHANGED <<status, version, tally, item, attempt, result, lease>>

-----------------------------------------------------------------------------
(***************************************************************************)
(* Answers.  A request carries the token of the delivery n it answers, so  *)
(* it may be late or repeated; one that is not accepted changes nothing,   *)
(* and neither does the idempotent replay of an accepted one.              *)
(***************************************************************************)
Owns(i, w, n) ==
    /\ item[i].status = "leased"
    /\ item[i].hold.owner = w
    /\ item[i].hold.token = n
    /\ item[i].hold.ttl > 0

Accepts(i, n) ==
    /\ n <= item[i].attempts
    /\ Owns(i, attempt[i][n].worker, n)
    /\ status[JobOf[i]] \in ActiveStates \cup DrainingStates

Spent_ByOutages(row, o, consume) ==
    IF consume THEN row.retries + 1 ELSE row.retries

Spent(row, o, consume) ==
    IF consume /\ o = "retryable_error" THEN row.retries + 1 ELSE row.retries

Retried(row, o, consume) ==
    LET spent == Spent(row, o, consume)
    IN  IF ~consume /\ o = "retryable_error"
        THEN Unheld(row, "pending", row.outcome, row.retries, 0)
        ELSE IF spent >= MaxRetries THEN Unheld(row, "failed", o, spent, 0)
        ELSE Unheld(row, "pending", o, spent,
                    IF o \in Infrastructure THEN 0 ELSE BackoffTicks)

Answered(row, o) ==
    Unheld(row, IF o \in Success THEN "completed" ELSE "failed", o, row.retries, 0)

\* Close the delivery in progress of item i with status s; the item becomes row.
Close(i, s, row) ==
    LET j == JobOf[i]
        counts == Shifted(tally[j], item[i], row)
    IN  /\ item' = [item EXCEPT ![i] = row]
        /\ attempt' = [attempt EXCEPT ![i][item[i].attempts].status = s]
        /\ tally' = [tally EXCEPT ![j] = counts]
        /\ status' = [status EXCEPT ![j] = Finalized(@, counts, j)]
        /\ UNCHANGED <<version, lease, claim>>

\* complete_job_item: a final answer is published as the item's result.
\* "from" is history: the delivery whose worker sent the answer.
Answer(i, n, o) ==
    /\ Accepts(i, n)
    /\ o \notin Retryable
    /\ Close(i, o, Answered(item[i], o))
    /\ result' = [result EXCEPT ![i] = [outcome |-> o, number |-> item[i].attempts,
                                        from |-> n, superseded |-> FALSE]]

\* requeue_job_item, and complete_job_item with a retryable outcome (consume).
Requeue(i, n, o, consume) ==
    /\ Accepts(i, n)
    /\ o \in Retryable
    /\ Close(i, IF consume THEN o ELSE "abandoned", Retried(item[i], o, consume))
    /\ UNCHANGED result

-----------------------------------------------------------------------------
(***************************************************************************)
(* finalize_draining_job, on job j in status s and the rows its caller     *)
(* leaves: nothing happens while a credential lease of the job is live.    *)
(***************************************************************************)
Dropped_Misspelled(row, s) ==
    Unheld(row, IF s = "cancelling" THEN "canceled" ELSE "pending",
           row.outcome, row.retries, 0)

Dropped_StillLeased(row, s) ==
    Unheld(row, IF s = "cancelling" THEN "cancelled" ELSE row.status,
           row.outcome, row.retries, 0)

Dropped(row, s) ==
    Unheld(row, IF s = "cancelling" THEN "cancelled" ELSE "pending",
           row.outcome, row.retries, 0)

Reserved_Ignored(j, leases) == FALSE

Reserved(j, leases) == \E c \in Creds : leases[c].job = j /\ leases[c].ttl > 0

FinalizeDraining(j, s, rows, log, leases) ==
    \/ /\ s \notin DrainingStates \/ Reserved(j, leases)
       /\ status' = [status EXCEPT ![j] = s]
       /\ item' = rows /\ attempt' = log /\ lease' = leases
       /\ UNCHANGED tally
    \/ /\ s \in DrainingStates
       /\ ~Reserved(j, leases)
       /\ lease' = [c \in Creds |-> IF leases[c].job = j THEN NoLease ELSE leases[c]]
       /\ LET open == {i \in ItemsOf(j) : rows[i].status \in OpenItem}
              left == [i \in Items |-> IF i \in open THEN Dropped(rows[i], s) ELSE rows[i]]
              counts == Recount(j, left)
          IN  /\ item' = left
              /\ attempt' = Closed(log, open, "abandoned")
              /\ tally' = [tally EXCEPT ![j] = counts]
              /\ status' = [status EXCEPT ![j] =
                    IF s = "cancelling" THEN "cancelled"
                    ELSE IF Finalized("running", counts, j) = "running" THEN "paused"
                    ELSE Finalized("running", counts, j)]

\* release_credential, sent when the worker has closed its portal session.
Release(c) ==
    /\ lease[c] # NoLease
    /\ LET j == lease[c].job
           back == {i \in ItemsOf(j) :
                        /\ item[i].status = "leased" /\ item[i].hold.cred = c
                        /\ item[i].hold.owner = lease[c].worker}
           rows == [i \in Items |->
                        IF i \in back
                        THEN Unheld(item[i], "pending", item[i].outcome, item[i].retries, 0)
                        ELSE item[i]]
       IN  FinalizeDraining(j, status[j], rows, Closed(attempt, back, "abandoned"),
                            [lease EXCEPT ![c] = NoLease])
    /\ UNCHANGED <<version, result, claim>>

Pause(j) ==
    /\ status[j] \in ActiveStates
    /\ FinalizeDraining(j, "pausing", item, attempt, lease)
    /\ UNCHANGED <<version, result, claim>>

Cancel(j) ==
    /\ status[j] \in ActiveStates \cup {"paused", "pausing"}
    /\ FinalizeDraining(j, "cancelling", item, attempt, lease)
    /\ UNCHANGED <<version, result, claim>>

Resume(j) ==
    /\ status[j] = "paused"
    /\ status' = [status EXCEPT ![j] = "queued"]
    /\ UNCHANGED <<version, tally, item, attempt, result, lease, claim>>

Reopened_All(j) == ItemsOf(j)

Reopened(j) == {i \in ItemsOf(j) : item[i].status \in {"failed", "cancelled", "leased"}}

Superseded_Forgotten(again) == result

Superseded(again) ==
    [i \in Items |->
        IF i \in again /\ result[i] # NoResult
        THEN [result[i] EXCEPT !.superseded = TRUE] ELSE result[i]]

\* control_job "retry": the failed and cancelled items get a new budget.
Retry(j) ==
    /\ status[j] \in {"failed", "completed_with_errors", "cancelled"}
    /\ LiveLeasesOf(j) = {}
    /\ version[j] < MaxVersion
    /\ LET again == Reopened(j)
       IN  /\ item' = [i \in Items |->
                IF i \in again THEN Unheld(item[i], "pending", None, 0, 0) ELSE item[i]]
           /\ attempt' = Closed(attempt, again, "abandoned")
           /\ result' = Superseded(again)
    /\ version' = [version EXCEPT ![j] = @ + 1]
    /\ tally' = [tally EXCEPT ![j] =
            [@ EXCEPT !["failed"] = 0, !["retryable"] = 0, !["permanent"] = 0]]
    /\ status' = [status EXCEPT ![j] = "queued"]
    /\ UNCHANGED <<lease, claim>>

-----------------------------------------------------------------------------
(***************************************************************************)
(* process_job_maintenance for one job: expire_exhausted_job_items, then   *)
(* finalize_draining_job, then _finalize_job_from_counters.                *)
(***************************************************************************)
Exhausted(j) ==
    {i \in ItemsOf(j) :
        /\ item[i].retries >= MaxRetries
        /\ \/ item[i].status = "pending"
           \/ item[i].status = "leased" /\ item[i].hold.ttl = 0}

MaintainActive(j) ==
    LET spent == Exhausted(j)
        rows == [i \in Items |->
            IF i \in spent
            THEN Unheld(item[i], "failed",
                        IF item[i].outcome \in Retryable THEN item[i].outcome
                        ELSE "retryable_error", item[i].retries, 0)
            ELSE item[i]]
        gained(k) == Cardinality({i \in spent : k \in CountersOf(rows[i])})
        lost(k) == Cardinality({i \in spent : k \in CountersOf(item[i])})
        counts == [k \in Counters |->
            IF lost(k) > tally[j][k] + gained(k) THEN 0
            ELSE tally[j][k] + gained(k) - lost(k)]
    IN  /\ status[j] \in ActiveStates
        /\ item' = rows
        /\ attempt' = Closed(attempt, spent, "lease_expired")
        /\ tally' = [tally EXCEPT ![j] = counts]
        /\ status' = [status EXCEPT ![j] = Finalized(@, counts, j)]
        /\ UNCHANGED <<version, result, lease, claim>>

MaintainDraining_Skipped(j) == FALSE

MaintainDraining(j) ==
    /\ status[j] \in DrainingStates
    /\ FinalizeDraining(j, status[j], item, attempt, lease)
    /\ UNCHANGED <<version, result, claim>>

Maintain(j) == MaintainActive(j) \/ MaintainDraining(j)

\* A claim request is shorter than a tick: its reads and its lock are close.
Tick ==
    /\ \A w \in Workers : claim[w] = "none"
    /\ lease' = [c \in Creds |-> [lease[c] EXCEPT !.ttl = IF @ > 0 THEN @ - 1 ELSE 0]]
    /\ item' = [i \in Items |-> [item[i] EXCEPT !.hold.ttl = IF @ > 0 THEN @ - 1 ELSE 0,
                                                !.wait = IF @ > 0 THEN @ - 1 ELSE 0]]
    /\ UNCHANGED <<status, version, tally, attempt, result, claim>>

WorkerStep ==
    \/ \E w \in Workers, c \in Creds, j \in Jobs : Acquire(w, c, j)
    \/ \E c \in Creds : Heartbeat(c)
    \/ \E w \in Workers : ClaimRead(w)
    \/ \E w \in Workers, c \in Creds : ClaimCommit(w, c)
    \/ \E w \in Workers : ClaimFails(w)
    \/ \E i \in Items, n \in Numbers, o \in Outcomes : Answer(i, n, o)
    \/ \E i \in Items, n \in Numbers, o \in Outcomes, b \in BOOLEAN : Requeue(i, n, o, b)
    \/ \E c \in Creds : Release(c)

OperatorStep ==
    \/ \E j \in Jobs : Create(j)
    \/ \E j \in Jobs : Pause(j)
    \/ \E j \in Jobs : Cancel(j)
    \/ \E j \in Jobs : Resume(j)
    \/ \E j \in Jobs : Retry(j)

Next == WorkerStep \/ OperatorStep \/ (\E j \in Jobs : Maintain(j)) \/ Tick

Spec == Init /\ [][Next]_vars
=============================================================================
