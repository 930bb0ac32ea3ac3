--------------------------- MODULE JobQueueProps ---------------------------
(***************************************************************************)
(* What the consultation queue promises.                                   *)
(***************************************************************************)
EXTENDS JobQueue

LeaseRows ==
    {NoLease} \cup [worker : Workers, job : Jobs, ttl : 0 .. LeaseTicks]
Holds ==
    [owner : Workers \cup {None}, cred : Creds \cup {None}, token : 0 .. MaxClaims,
     ttl : 0 .. LeaseTicks, via : Creds \cup {None}]
ItemRows ==
    [status : ItemStates, outcome : Outcomes \cup {None, "retryable_error"},
     retries : 0 .. MaxRetries, attempts : 0 .. MaxClaims, wait : 0 .. BackoffTicks,
     hold : Holds]
AttemptStates == {"none", "started", "abandoned", "lease_expired"} \cup AllOutcomes
AttemptRows == [worker : Workers \cup {None}, status : AttemptStates]
ResultRows ==
    [outcome : Outcomes \cup {None}, number : 0 .. MaxClaims, from : 0 .. MaxClaims,
     superseded : BOOLEAN]

\* Every table holds rows of its schema.
TypeOK ==
    /\ status \in [Jobs -> JobStates]
    /\ version \in [Jobs -> 1 .. MaxVersion]
    /\ tally \in [Jobs -> [Counters -> Nat]]
    /\ item \in [Items -> ItemRows]
    /\ attempt \in [Items -> [Numbers -> AttemptRows]]
    /\ result \in [Items -> ResultRows]
    /\ lease \in [Creds -> LeaseRows]
    /\ claim \in [Workers -> {"none"} \cup ActiveStates]

\* What a job says of itself is what its items say.  The O(1) deltas of
\* complete, requeue, retry and expiry never drift from the rows: a recount
\* would not change a single counter.  And no item stays open behind a terminal
\* status, which tells whether some or all items failed.
JobAgreesWithItems ==
    \A j \in Jobs :
        LET states == {item[i].status : i \in ItemsOf(j)}
        IN  /\ tally[j] = Recount(j, item)
            /\ status[j] = "completed" => states = {"completed"}
            /\ status[j] = "completed_with_errors" => states = {"completed", "failed"}
            /\ status[j] = "failed" => states = {"failed"}
            /\ status[j] = "cancelled" => states \cap OpenItem = {}

\* The attempt history is exact: a leased item has one attempt in progress, the
\* last one, held by the worker that owns the lease; every earlier delivery is
\* closed; an item that is not leased has none in progress.  And the retry
\* budget is spent by technical errors only, one for each in the history, and an
\* item is given up exactly when it is spent: outages, drains and dead workers
\* never cost an attempt.  (Until the operator's retry renews the budget.)
HistoryExplainsBudget ==
    \A i \in Items :
        LET errors == {n \in Numbers : attempt[i][n].status = "retryable_error"}
        IN  /\ \A n \in Numbers :
                /\ (attempt[i][n].status = "none") <=> (n > item[i].attempts)
                /\ attempt[i][n].status = "started" <=>
                        (item[i].status = "leased" /\ n = item[i].attempts)
                /\ attempt[i][n].status = "started" => attempt[i][n].worker = item[i].hold.owner
            /\ version[JobOf[i]] = 1 => item[i].retries = Cardinality(errors)
            /\ (item[i].status = "failed" /\ item[i].outcome # "permanent_error")
                    => item[i].retries = MaxRetries
            /\ item[i].status \in OpenItem => item[i].retries < MaxRetries

\* A paused or cancelled job is quiet: no access is reserved for it and none of
\* its items is out with a worker, so the operator may edit or retry it.
QuietWhenStopped ==
    \A j \in Jobs : status[j] \in {"paused", "cancelled"} =>
        /\ LiveLeasesOf(j) = {}
        /\ \A i \in ItemsOf(j) : item[i].status # "leased"

\* The result a reader sees is the one the item ended with: a valid result row
\* exists for an item exactly when it is closed by a final answer, and it
\* carries that answer and the number of the delivery that really sent it.
PublishedResultMatchesItem ==
    \A i \in Items :
        LET valid == result[i] # NoResult /\ ~result[i].superseded
            closed == \/ item[i].status = "completed"
                      \/ item[i].status = "failed" /\ item[i].outcome = "permanent_error"
        IN  /\ valid <=> closed
            /\ valid => /\ result[i].outcome = item[i].outcome
                        /\ attempt[i][result[i].number].status = item[i].outcome
                        /\ result[i].number = item[i].attempts
                        /\ result[i].from = result[i].number

\* While a worker keeps its access reserved, the items it claimed under that
\* reservation stay its own: their leases never expire before the access
\* lease, so the heartbeat alone protects a slow consultation.
SessionKeepsItems ==
    \A c \in LiveLeases, i \in Items :
        (item[i].status = "leased" /\ item[i].hold.via = c)
            => /\ item[i].hold.ttl >= lease[c].ttl
               /\ item[i].hold.owner = lease[c].worker

\* The accesses of an agreement are never reserved beyond its limit of sessions,
\* nor those of a job beyond its own, and no worker holds two (acquire_credential).
LeaseLimits ==
    /\ Cardinality(LiveLeases) <= MaxWorkers
    /\ \A j \in Jobs : Cardinality(LiveLeasesOf(j)) <= MaxParallel
    /\ \A c, d \in Creds :
        (lease[c].worker = lease[d].worker /\ lease[c].worker # None) => c = d

\* What is closed stays so.  A consultation that succeeded is final: no late
\* answer, retry, pause or cancellation repeats the item or replaces its
\* result.  And the history is append-only: once a delivery is closed, no late
\* or repeated request rewrites how it ended.
ClosedRecordsStay ==
    [][\A i \in Items :
        /\ item[i].status = "completed" =>
            /\ item'[i].status = "completed"
            /\ item'[i].outcome = item[i].outcome
            /\ result'[i] = result[i]
        /\ \A n \in Numbers : attempt[i][n].status \notin {"none", "started"} =>
                                attempt'[i][n] = attempt[i][n]]_vars

\* A drain ends only after the logouts: a live reservation is removed by the
\* release its own worker sends when its session is closed, never by a pause, a
\* cancellation, maintenance, a retry or the release of another access.
DrainWaitsForLogout ==
    [][\A c \in LiveLeases : lease'[c] = NoLease => Release(c)]_vars

-----------------------------------------------------------------------------
(***************************************************************************)
(* What the comments, messages and business rules say and the code does    *)
(* not keep.                                                               *)
(***************************************************************************)

\* request_job_drain: "Stop claiming immediately"; the operator is told that
\* no new item will be started.  Once a job is pausing or cancelling, none of
\* its items is claimed and the request is not undone by a worker.
DrainStopsClaims ==
    [][\A j \in Jobs : status[j] \in DrainingStates =>
            /\ status'[j] \notin ActiveStates
            /\ \A i \in ItemsOf(j) : item'[i].attempts = item[i].attempts]_vars

\* BUSINESS_RULES: several consultations may wait, one of them runs, and a
\* paused one that is resumed continues its pending items: when no job is
\* draining and no item is out with a worker, some job that is queued or
\* running has the turn, so the agreement's work goes on.
SomeActiveJobHasTheTurn ==
    (/\ \E j \in Jobs : status[j] \in ActiveStates
     /\ \A j \in Jobs : status[j] \notin DrainingStates
     /\ \A i \in Items : item[i].status = "leased" => item[i].hold.ttl = 0)
    => \E j \in Jobs : status[j] \in ActiveStates /\ ~OrderBlocked(j)
=============================================================================
