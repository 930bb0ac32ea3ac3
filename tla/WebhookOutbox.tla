--------------------------- MODULE WebhookOutbox ---------------------------
(***************************************************************************)
(* The outbox of machine_admin/webhooks.py.  Maintenance writes one row    *)
(* for each generation of results a job finished and each enabled endpoint *)
(* of its owner; consumers claim due rows, post them without holding any   *)
(* lock, and write the outcome back if the row is still theirs.  Operators *)
(* retry and cancel rows, and disable endpoints, at any moment.            *)
(*                                                                         *)
(* One job, seen from here: it ends with a final status, which it keeps    *)
(* until an operator's retry opens its next generation.  Rows about ready  *)
(* exports go the same way as rows about finished jobs and are left out.   *)
(* Time is counted in ticks; 0 is a moment that has passed.                *)
(***************************************************************************)
EXTENDS Naturals

CONSTANTS
    None,
    Consumers,      \* consumer threads, one in each scheduler process
    NumEndpoints,   \* webhook endpoints of the job's owner
    MaxVersion,     \* bound: generations of the job
    MaxAttempts,    \* max_attempts (5)
    LockTicks,      \* locked_until (120 s)
    BackoffTicks,   \* next_attempt_at after a failure
    MaxResets       \* bound: retries and toggles by operators

ASSUME WebhookOutboxAssumption ==
    /\ {NumEndpoints, MaxVersion, MaxAttempts, LockTicks} \subseteq Nat \ {0}
    /\ {BackoffTicks, MaxResets} \subseteq Nat
    /\ None \notin Consumers

VARIABLES
    job,        \* status and result_version
    enabled,    \* endpoints that are enabled
    row,        \* notification_outbox, by version and endpoint
    hand,       \* what each consumer holds: the row it posts and the reply
    received,   \* rows whose endpoint has received them with success
    ended,      \* history: the status each generation ended with
    resets      \* retries and toggles by operators so far

vars == <<job, enabled, row, hand, received, ended, resets>>

Endpoints == 1 .. NumEndpoints
Versions == 1 .. MaxVersion
Rows == Versions \X Endpoints
FinalStatuses == {"completed", "failed"}   \* "failed" for those an operator may reopen
Settled == {"sent", "failed", "cancelled"}

NoRow == [status |-> "none", attempts |-> 0, lock |-> None, ttl |-> 0, wait |-> 0, payload |-> "none"]
Idle == [row |-> None, reply |-> "none"]

Init ==
    /\ job = [status |-> "running", version |-> 1]
    /\ enabled = Endpoints
    /\ row = [r \in Rows |-> NoRow]
    /\ hand = [k \in Consumers |-> Idle]
    /\ received = {}
    /\ ended = [v \in Versions |-> "none"]
    /\ resets = 0
-----------------------------------------------------------------------------
(* The job. *)

Finish(s) ==
    /\ job.status = "running"
    /\ job' = [job EXCEPT !.status = s]
    /\ ended' = [ended EXCEPT ![job.version] = s]
    /\ UNCHANGED <<enabled, row, hand, received, resets>>

Reopen_SameVersion ==
    /\ job.status = "failed"
    /\ job' = [job EXCEPT !.status = "running"]
    /\ UNCHANGED <<enabled, row, hand, received, ended, resets>>

Reopen ==
    /\ job.status = "failed" /\ job.version < MaxVersion
    /\ job' = [status |-> "running", version |-> job.version + 1]
    /\ UNCHANGED <<enabled, row, hand, received, ended, resets>>

Missing_OncePerJob ==
    {r \in Rows : r[1] = job.version /\ r[2] \in enabled /\ \A v \in Versions : row[<<v, r[2]>>] = NoRow}

\* enqueue_webhooks: an advisory lock lets one scheduler at a time do it.
Missing == {r \in Rows : r[1] = job.version /\ r[2] \in enabled /\ row[r] = NoRow}

Enqueue ==
    /\ job.status \in FinalStatuses
    /\ row' = [r \in Rows |-> IF r \in Missing
                              THEN [NoRow EXCEPT !.status = "pending", !.payload = job.status] ELSE row[r]]
    /\ UNCHANGED <<job, enabled, hand, received, ended, resets>>
-----------------------------------------------------------------------------
(* process_one_webhook. *)

\* Rows whose last attempt was interrupted are given up first.
Exhausted(r) == row[r].status = "processing" /\ row[r].ttl = 0 /\ row[r].attempts >= MaxAttempts

Due_Unlocked(r) ==
    row[r].status \in {"pending", "retry"} /\ row[r].attempts < MaxAttempts /\ row[r].wait = 0

Due(r) ==
    /\ row[r].attempts < MaxAttempts /\ row[r].wait = 0
    /\ \/ row[r].status \in {"pending", "retry"}
       \/ row[r].status = "processing" /\ row[r].ttl = 0

\* Rows are taken in the order of their ids.
Before(q, r) == q[1] < r[1] \/ (q[1] = r[1] /\ q[2] < r[2])
Next1(r) == Due(r) /\ \A q \in Rows : Due(q) /\ q # r => Before(r, q)

GivenUp == [r \in Rows |-> IF Exhausted(r) THEN [row[r] EXCEPT !.status = "failed", !.lock = None, !.ttl = 0]
                           ELSE row[r]]

ClaimNothing(k) ==
    /\ hand[k] = Idle /\ ~\E r \in Rows : Due(r)
    /\ row' = GivenUp
    /\ UNCHANGED <<job, enabled, hand, received, ended, resets>>

\* The row keeps the lock it may still have.
ClaimDisabled(k, r) ==
    /\ hand[k] = Idle /\ Next1(r) /\ r[2] \notin enabled
    /\ row' = [GivenUp EXCEPT ![r].status = "cancelled"]
    /\ UNCHANGED <<job, enabled, hand, received, ended, resets>>

Claim(k, r) ==
    /\ hand[k] = Idle /\ Next1(r) /\ r[2] \in enabled
    /\ row' = [GivenUp EXCEPT ![r] = [row[r] EXCEPT !.status = "processing", !.lock = k, !.ttl = LockTicks,
                                                    !.attempts = @ + 1]]
    /\ hand' = [hand EXCEPT ![k] = [row |-> r, reply |-> "waiting"]]
    /\ UNCHANGED <<job, enabled, received, ended, resets>>

\* The endpoint may receive the event and its answer be lost.
Post(k, got, heard) ==
    /\ hand[k].reply = "waiting" /\ (heard => got)
    /\ hand' = [hand EXCEPT ![k].reply = IF heard THEN "accepted" ELSE "refused"]
    /\ received' = IF got THEN received \cup {hand[k].row} ELSE received
    /\ UNCHANGED <<job, enabled, row, ended, resets>>

Outcome(r, reply) ==
    [row[r] EXCEPT !.status = IF reply = "accepted" THEN "sent"
                              ELSE IF row[r].attempts >= MaxAttempts THEN "failed" ELSE "retry",
                   !.wait = IF reply = "accepted" THEN 0 ELSE BackoffTicks,
                   !.lock = None, !.ttl = 0]

WriteBack_AnyLock(k) ==
    /\ hand[k].reply \in {"accepted", "refused"}
    /\ row' = [row EXCEPT ![hand[k].row] = Outcome(hand[k].row, hand[k].reply)]
    /\ hand' = [hand EXCEPT ![k] = Idle]
    /\ UNCHANGED <<job, enabled, received, ended, resets>>

WriteBack(k) ==
    LET r == hand[k].row
    IN  /\ hand[k].reply \in {"accepted", "refused"}
        /\ row' = IF row[r].lock = k THEN [row EXCEPT ![r] = Outcome(r, hand[k].reply)] ELSE row
        /\ hand' = [hand EXCEPT ![k] = Idle]
        /\ UNCHANGED <<job, enabled, received, ended, resets>>

\* A scheduler process dies; another one, or itself restarted, goes on.
Crash(k) ==
    /\ hand[k] # Idle
    /\ hand' = [hand EXCEPT ![k] = Idle]
    /\ UNCHANGED <<job, enabled, row, received, ended, resets>>
-----------------------------------------------------------------------------
(* Operators. *)

Reset == resets < MaxResets /\ resets' = resets + 1

Retry(r) ==
    /\ row[r].status \notin {"none", "processing", "sent"} /\ Reset
    /\ row' = [row EXCEPT ![r] = [NoRow EXCEPT !.status = "pending", !.payload = row[r].payload]]
    /\ UNCHANGED <<job, enabled, hand, received, ended>>

Cancel(r) ==
    /\ row[r].status \notin {"none", "processing", "sent"}
    /\ row' = [row EXCEPT ![r] = [@ EXCEPT !.status = "cancelled", !.wait = 0, !.lock = None, !.ttl = 0]]
    /\ UNCHANGED <<job, enabled, hand, received, ended, resets>>

Toggle(e) ==
    /\ Reset
    /\ enabled' = IF e \in enabled THEN enabled \ {e} ELSE enabled \cup {e}
    /\ UNCHANGED <<job, row, hand, received, ended>>
-----------------------------------------------------------------------------
Less(n) == IF n = 0 THEN 0 ELSE n - 1

Tick ==
    /\ row' = [r \in Rows |-> [row[r] EXCEPT !.ttl = Less(@), !.wait = Less(@)]]
    /\ UNCHANGED <<job, enabled, hand, received, ended, resets>>

ProcessOne(k) ==
    \/ ClaimNothing(k)
    \/ \E r \in Rows : ClaimDisabled(k, r) \/ Claim(k, r)
    \/ \E got, heard \in BOOLEAN : Post(k, got, heard)
    \/ WriteBack(k)

Next ==
    \/ \E s \in FinalStatuses : Finish(s)
    \/ Reopen
    \/ Enqueue
    \/ \E k \in Consumers : ProcessOne(k) \/ Crash(k)
    \/ \E r \in Rows : Retry(r) \/ Cancel(r)
    \/ \E e \in Endpoints : Toggle(e)
    \/ Tick

Spec == Init /\ [][Next]_vars

\* Maintenance runs every five seconds, consumers loop, and a post times out.
FairSpec ==
    Spec /\ WF_vars(Tick) /\ WF_vars(Enqueue) /\ \A k \in Consumers : WF_vars(ProcessOne(k))
-----------------------------------------------------------------------------
(* Properties. *)

\* A row tells the truth about its generation even when the job was reopened,
\* or ended differently, before it was sent.
EventTellsTheEnd == \A r \in Rows : row[r] # NoRow => row[r].payload = ended[r[1]]

\* A settled row is reopened by an operator only: a consumer that finds its
\* row taken over, given up, retried or cancelled changes nothing, and a sent
\* row is never sent again.  The exception is a row taken from a consumer that
\* let its lock run out and cancelled because its endpoint was disabled: the
\* code leaves the lock there, and that consumer may still write over it.
SettledStays ==
    [][\A r \in Rows :
        /\ row[r].status = "sent" => row'[r].status = "sent"
        /\ row[r].status \in {"failed", "cancelled"} /\ row[r].lock = None =>
              row'[r].status \in {row[r].status, "cancelled"} \/ (row'[r].attempts = 0 /\ resets' > resets)]_vars

\* Whatever crashes, an event leaves the queue in the end.
EventSettles == \A r \in Rows : row[r].status \in {"pending", "retry", "processing"} ~> row[r].status \in Settled

\* A generation that stays finished is announced to every endpoint that stays
\* enabled, unless its row was cancelled or ran out of attempts.
FinishedIsAnnounced ==
    \A r \in Rows :
        job.version = r[1] /\ job.status \in FinalStatuses /\ r[2] \in enabled ~>
            \/ r \in received \/ row[r].status \in {"failed", "cancelled"}
            \/ job.version # r[1] \/ r[2] \notin enabled
=============================================================================
