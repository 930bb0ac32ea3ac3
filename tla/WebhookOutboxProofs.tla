------------------------ MODULE WebhookOutboxProofs ------------------------
(***************************************************************************)
(* Proofs about the outbox, for any number of consumers, endpoints,        *)
(* generations and attempts and any length of locks and waits.             *)
(***************************************************************************)
EXTENDS WebhookOutbox, TLAPS

Statuses == {"none", "pending", "retry", "processing"} \cup Settled

RowStates ==
    [status : Statuses, attempts : 0 .. MaxAttempts, lock : Consumers \cup {None},
     ttl : 0 .. LockTicks, wait : 0 .. BackoffTicks, payload : {"none"} \cup FinalStatuses]

Hands == {Idle} \cup [row : Rows, reply : {"waiting", "accepted", "refused"}]

TypeOK ==
    /\ job \in [status : {"running"} \cup FinalStatuses, version : Versions]
    /\ enabled \subseteq Endpoints
    /\ row \in [Rows -> RowStates]
    /\ hand \in [Consumers -> Hands]
    /\ received \subseteq Rows
    /\ ended \in [Versions -> {"none"} \cup FinalStatuses]
    /\ resets \in 0 .. MaxResets

\* A generation that is over is recorded as it ended.
EndIsRecorded == job.status \in FinalStatuses => ended[job.version] = job.status

\* No row is written before its generation ends.
RowsAreOfEndedGenerations ==
    \A r \in Rows : row[r] # NoRow => \/ r[1] < job.version
                                      \/ r[1] = job.version /\ job.status \in FinalStatuses

\* Nobody holds the lock of a sent row.
SentIsUnlocked == \A r \in Rows : row[r].status = "sent" => row[r].lock = None

\* An endpoint has received what its consumer heard accepted, and what is sent.
SentWasReceived ==
    /\ \A r \in Rows : row[r].status = "sent" => r \in received
    /\ \A k \in Consumers : hand[k].reply = "accepted" => hand[k].row \in received

OutboxInv ==
    /\ TypeOK
    /\ EndIsRecorded
    /\ RowsAreOfEndedGenerations
    /\ EventTellsTheEnd
    /\ SentIsUnlocked
    /\ SentWasReceived

-----------------------------------------------------------------------------
(* Helpers. *)

LEMMA InRange ==
    /\ 0 \in 0 .. LockTicks /\ LockTicks \in 0 .. LockTicks
    /\ 0 \in 0 .. BackoffTicks /\ BackoffTicks \in 0 .. BackoffTicks
    /\ 0 \in 0 .. MaxAttempts /\ 1 \in Versions /\ 0 \in 0 .. MaxResets
    /\ Versions \subseteq Nat
BY WebhookOutboxAssumption DEF Versions

LEMMA NoRowTyped == NoRow \in RowStates /\ NoRow.status = "none"
BY InRange DEF NoRow, RowStates, Statuses

LEMMA InitOutbox == Init => OutboxInv
<1> SUFFICES ASSUME Init PROVE OutboxInv
    OBVIOUS
<1>1. TypeOK
    BY InRange, NoRowTyped DEF Init, TypeOK, Hands, FinalStatuses
<1>2. \A r \in Rows : row[r] = NoRow /\ row[r].status = "none"
    BY NoRowTyped DEF Init
<1>3. \A k \in Consumers : hand[k].reply = "none"
    BY DEF Init, Idle
<1> QED BY <1>1, <1>2, <1>3
        DEF OutboxInv, Init, EndIsRecorded, RowsAreOfEndedGenerations, EventTellsTheEnd,
            SentIsUnlocked, SentWasReceived, FinalStatuses

-----------------------------------------------------------------------------
(* The job. *)

LEMMA FinishKeeps == ASSUME OutboxInv, NEW s \in FinalStatuses, Finish(s) PROVE OutboxInv'
BY InRange DEF OutboxInv, TypeOK, EndIsRecorded, RowsAreOfEndedGenerations, EventTellsTheEnd,
           SentIsUnlocked, SentWasReceived, Finish, FinalStatuses, Rows

LEMMA ReopenKeeps == ASSUME OutboxInv, Reopen PROVE OutboxInv'
<1>1. job.version \in Nat /\ job.version + 1 \in Versions /\ job'.version = job.version + 1
    BY WebhookOutboxAssumption DEF Reopen, OutboxInv, TypeOK, Versions
<1>2. \A r \in Rows : r[1] \in Nat
    BY InRange DEF Rows
<1>3. TypeOK'
    BY <1>1 DEF Reopen, OutboxInv, TypeOK
<1>4. RowsAreOfEndedGenerations'
    BY <1>1, <1>2 DEF Reopen, OutboxInv, RowsAreOfEndedGenerations
<1>5. EndIsRecorded'
    BY DEF Reopen, EndIsRecorded, FinalStatuses
<1> QED BY <1>3, <1>4, <1>5
        DEF Reopen, OutboxInv, EventTellsTheEnd, SentIsUnlocked, SentWasReceived

LEMMA EnqueueKeeps == ASSUME OutboxInv, Enqueue PROVE OutboxInv'
BY NoRowTyped, InRange DEF OutboxInv, TypeOK, EndIsRecorded, RowsAreOfEndedGenerations, EventTellsTheEnd,
           SentIsUnlocked, SentWasReceived, Enqueue, Missing, NoRow, RowStates, Statuses, Settled,
           FinalStatuses, Rows

-----------------------------------------------------------------------------
(* Consumers, operators and time write rows that are there. *)

\* What they may do to a row: it stays there with its payload, and is marked
\* as sent only when it is given up by its holder and has been received.
RowsKept ==
    \A q \in Rows :
        /\ row'[q] # NoRow => row[q] # NoRow
        /\ row'[q].payload = row[q].payload
        /\ row'[q].status = "sent" => row'[q].lock = None /\ q \in received

LEMMA RowsKeptKeeps ==
    ASSUME OutboxInv, RowsKept, row' \in [Rows -> RowStates],
           hand' \in [Consumers -> Hands],
           \A k \in Consumers : hand'[k].reply = "accepted" => hand'[k].row \in received,
           enabled' \subseteq Endpoints, resets' \in 0 .. MaxResets,
           UNCHANGED <<job, received, ended>>
    PROVE  OutboxInv'
BY DEF OutboxInv, TypeOK, EndIsRecorded, RowsAreOfEndedGenerations, EventTellsTheEnd,
           SentIsUnlocked, SentWasReceived, RowsKept

\* Giving up interrupted rows.
LEMMA GivenUpRows ==
    ASSUME OutboxInv
    PROVE  /\ GivenUp \in [Rows -> RowStates]
           /\ \A q \in Rows :
                 /\ GivenUp[q] # NoRow => row[q] # NoRow
                 /\ GivenUp[q].payload = row[q].payload
                 /\ GivenUp[q].status = "sent" => GivenUp[q].lock = None /\ q \in received
<1>1. ASSUME NEW q \in Rows
      PROVE  /\ GivenUp[q] \in RowStates /\ GivenUp[q].payload = row[q].payload
             /\ GivenUp[q] # NoRow => row[q] # NoRow
             /\ GivenUp[q].status = "sent" => GivenUp[q].lock = None /\ q \in received
    <2> DEFINE x == [row[q] EXCEPT !.status = "failed", !.lock = None, !.ttl = 0]
    <2>1. row[q] \in RowStates
        BY DEF OutboxInv, TypeOK
    <2>2. x \in RowStates /\ x.payload = row[q].payload /\ x.status = "failed"
        BY <2>1, InRange DEF RowStates, Statuses, Settled
    <2>3. GivenUp[q] = IF Exhausted(q) THEN x ELSE row[q]
        BY DEF GivenUp
    <2>4. Exhausted(q) => row[q] # NoRow
        BY NoRowTyped DEF Exhausted
    <2> HIDE DEF x
    <2> QED BY <2>1, <2>2, <2>3, <2>4 DEF OutboxInv, SentIsUnlocked, SentWasReceived
<1>2. GivenUp = [q \in Rows |-> GivenUp[q]]
    BY DEF GivenUp
<1> QED BY <1>1, <1>2

LEMMA ClaimNothingKeeps ==
    ASSUME OutboxInv, NEW k \in Consumers, ClaimNothing(k) PROVE OutboxInv'
<1>1. RowsKept /\ row' \in [Rows -> RowStates]
    BY GivenUpRows DEF ClaimNothing, RowsKept
<1> QED BY <1>1, RowsKeptKeeps DEF ClaimNothing, OutboxInv, TypeOK, SentWasReceived

LEMMA ClaimDisabledKeeps ==
    ASSUME OutboxInv, NEW k \in Consumers, NEW r \in Rows, ClaimDisabled(k, r) PROVE OutboxInv'
<1> DEFINE x == [GivenUp[r] EXCEPT !.status = "cancelled"]
<1>1. row' = [GivenUp EXCEPT ![r] = x]
    BY GivenUpRows DEF ClaimDisabled
<1>2. x \in RowStates /\ x.payload = row[r].payload /\ x.status = "cancelled"
    BY GivenUpRows DEF RowStates, Statuses, Settled
<1>3. row[r] # NoRow
    BY NoRowTyped DEF ClaimDisabled, Next1, Due
<1> HIDE DEF x
<1>4. RowsKept /\ row' \in [Rows -> RowStates]
    BY <1>1, <1>2, <1>3, GivenUpRows DEF RowsKept
<1> QED BY <1>4, RowsKeptKeeps DEF ClaimDisabled, OutboxInv, TypeOK, SentWasReceived

LEMMA ClaimKeeps ==
    ASSUME OutboxInv, NEW k \in Consumers, NEW r \in Rows, Claim(k, r) PROVE OutboxInv'
<1> DEFINE x == [row[r] EXCEPT !.status = "processing", !.lock = k, !.ttl = LockTicks,
                               !.attempts = @ + 1]
<1>1. row' = [GivenUp EXCEPT ![r] = x]
    BY DEF Claim
<1>2. row[r] \in RowStates /\ row[r].attempts \in 0 .. MaxAttempts /\ row[r].attempts < MaxAttempts
    BY DEF Claim, Next1, Due, OutboxInv, TypeOK, RowStates
<1>3. x \in RowStates /\ x.payload = row[r].payload /\ x.status = "processing"
    <2>1. row[r].attempts + 1 \in 0 .. MaxAttempts
        BY <1>2, WebhookOutboxAssumption
    <2> QED BY <1>2, <2>1, InRange DEF RowStates, Statuses
<1>4. row[r] # NoRow
    BY NoRowTyped DEF Claim, Next1, Due
<1> HIDE DEF x
<1>5. RowsKept /\ row' \in [Rows -> RowStates]
    BY <1>1, <1>3, <1>4, GivenUpRows DEF RowsKept
<1>6. hand' \in [Consumers -> Hands] /\ hand'[k].reply = "waiting"
    BY DEF Claim, Hands, OutboxInv, TypeOK
<1> QED BY <1>5, <1>6, RowsKeptKeeps DEF Claim, OutboxInv, TypeOK, SentWasReceived

LEMMA PostKeeps ==
    ASSUME OutboxInv, NEW k \in Consumers, NEW got \in BOOLEAN, NEW heard \in BOOLEAN,
           Post(k, got, heard)
    PROVE  OutboxInv'
BY DEF OutboxInv, TypeOK, EndIsRecorded, RowsAreOfEndedGenerations, EventTellsTheEnd,
           SentIsUnlocked, SentWasReceived, Post, Hands, Idle

LEMMA OutcomeOfReply ==
    ASSUME OutboxInv, NEW r \in Rows, NEW reply \in {"accepted", "refused"}
    PROVE  /\ Outcome(r, reply) \in RowStates
           /\ Outcome(r, reply).payload = row[r].payload
           /\ Outcome(r, reply).lock = None
           /\ Outcome(r, reply).status = "sent" => reply = "accepted"
BY InRange DEF OutboxInv, TypeOK, Outcome, RowStates, Statuses, Settled

LEMMA WriteBackKeeps ==
    ASSUME OutboxInv, NEW k \in Consumers, WriteBack(k) PROVE OutboxInv'
<1> DEFINE r == hand[k].row
           x == Outcome(r, hand[k].reply)
<1>1. r \in Rows /\ hand[k].reply \in {"accepted", "refused"}
    BY DEF WriteBack, OutboxInv, TypeOK, Hands, Idle
<1>2. /\ x \in RowStates /\ x.payload = row[r].payload /\ x.lock = None
      /\ x.status = "sent" => r \in received
    BY <1>1, OutcomeOfReply DEF OutboxInv, SentWasReceived
<1>3. row' = IF row[r].lock = k THEN [row EXCEPT ![r] = x] ELSE row
    BY DEF WriteBack
<1>4. row[r].lock = k => row[r] # NoRow
    BY WebhookOutboxAssumption DEF NoRow
<1> HIDE DEF r, x
<1>5. RowsKept /\ row' \in [Rows -> RowStates]
    BY <1>1, <1>2, <1>3, <1>4 DEF RowsKept, OutboxInv, TypeOK, SentIsUnlocked, SentWasReceived
<1>6. hand' \in [Consumers -> Hands] /\ hand'[k].reply = "none"
    BY DEF WriteBack, Hands, Idle, OutboxInv, TypeOK
<1> QED BY <1>5, <1>6, RowsKeptKeeps DEF WriteBack, OutboxInv, TypeOK, SentWasReceived

LEMMA CrashKeeps == ASSUME OutboxInv, NEW k \in Consumers, Crash(k) PROVE OutboxInv'
BY DEF OutboxInv, TypeOK, EndIsRecorded, RowsAreOfEndedGenerations, EventTellsTheEnd,
           SentIsUnlocked, SentWasReceived, Crash, Hands, Idle

LEMMA RetryKeeps == ASSUME OutboxInv, NEW r \in Rows, Retry(r) PROVE OutboxInv'
<1> DEFINE x == [NoRow EXCEPT !.status = "pending", !.payload = row[r].payload]
<1>1. row' = [row EXCEPT ![r] = x] /\ row[r] # NoRow
    BY NoRowTyped DEF Retry
<1>2. x \in RowStates /\ x.payload = row[r].payload /\ x.status = "pending"
    BY InRange DEF RowStates, Statuses, OutboxInv, TypeOK, NoRow
<1>3. resets' \in 0 .. MaxResets
    BY WebhookOutboxAssumption DEF Retry, Reset, OutboxInv, TypeOK
<1> HIDE DEF x
<1>4. RowsKept /\ row' \in [Rows -> RowStates]
    BY <1>1, <1>2 DEF RowsKept, OutboxInv, TypeOK, SentIsUnlocked, SentWasReceived
<1> QED BY <1>3, <1>4, RowsKeptKeeps DEF Retry, OutboxInv, TypeOK, SentWasReceived

LEMMA CancelKeeps == ASSUME OutboxInv, NEW r \in Rows, Cancel(r) PROVE OutboxInv'
<1> DEFINE x == [row[r] EXCEPT !.status = "cancelled", !.wait = 0, !.lock = None, !.ttl = 0]
<1>1. row' = [row EXCEPT ![r] = x] /\ row[r] # NoRow
    BY NoRowTyped DEF Cancel
<1>2. x \in RowStates /\ x.payload = row[r].payload /\ x.status = "cancelled"
    BY InRange DEF RowStates, Statuses, Settled, OutboxInv, TypeOK
<1> HIDE DEF x
<1>3. RowsKept /\ row' \in [Rows -> RowStates]
    BY <1>1, <1>2 DEF RowsKept, OutboxInv, TypeOK, SentIsUnlocked, SentWasReceived
<1> QED BY <1>3, RowsKeptKeeps DEF Cancel, OutboxInv, TypeOK, SentWasReceived

LEMMA ToggleKeeps == ASSUME OutboxInv, NEW e \in Endpoints, Toggle(e) PROVE OutboxInv'
BY WebhookOutboxAssumption DEF OutboxInv, TypeOK, EndIsRecorded, RowsAreOfEndedGenerations, EventTellsTheEnd,
           SentIsUnlocked, SentWasReceived, Toggle, Reset

LEMMA TickKeeps == ASSUME OutboxInv, Tick PROVE OutboxInv'
<1>1. ASSUME NEW r \in Rows
      PROVE  /\ row'[r] \in RowStates /\ row'[r].payload = row[r].payload
             /\ row'[r].status = row[r].status /\ row'[r].lock = row[r].lock
             /\ row[r] = NoRow => row'[r] = NoRow
    <2> DEFINE x == [row[r] EXCEPT !.ttl = Less(@), !.wait = Less(@)]
    <2>1. row'[r] = x /\ row[r] \in RowStates
        BY DEF Tick, OutboxInv, TypeOK
    <2>2. /\ row[r].ttl \in 0 .. LockTicks => Less(row[r].ttl) \in 0 .. LockTicks
          /\ row[r].wait \in 0 .. BackoffTicks => Less(row[r].wait) \in 0 .. BackoffTicks
        BY WebhookOutboxAssumption DEF Less
    <2>3. /\ x \in RowStates /\ x.payload = row[r].payload
          /\ x.status = row[r].status /\ x.lock = row[r].lock
        BY <2>1, <2>2 DEF RowStates
    <2>4. row[r] = NoRow => x = NoRow
        <3>1. NoRow.ttl = 0 /\ NoRow.wait = 0 /\ Less(0) = 0
            BY DEF NoRow, Less
        <3>2. ASSUME NEW a \in RowStates, a.ttl = 0, a.wait = 0
              PROVE  [a EXCEPT !.ttl = 0, !.wait = 0] = a
            BY <3>2 DEF RowStates
        <3> QED BY <3>1, <3>2, NoRowTyped
    <2> HIDE DEF x
    <2> QED BY <2>1, <2>3, <2>4
<1>2. row' = [r \in Rows |-> row'[r]]
    BY DEF Tick
<1>3. RowsKept /\ row' \in [Rows -> RowStates]
    BY <1>1, <1>2 DEF RowsKept, OutboxInv, SentIsUnlocked, SentWasReceived
<1> QED BY <1>3, RowsKeptKeeps DEF Tick, OutboxInv, TypeOK, SentWasReceived

-----------------------------------------------------------------------------
(* The theorems. *)

LEMMA StepKeeps == ASSUME OutboxInv, [Next]_vars PROVE OutboxInv'
<1>1. ASSUME NEW k \in Consumers, ProcessOne(k) PROVE OutboxInv'
    BY <1>1, ClaimNothingKeeps, ClaimDisabledKeeps, ClaimKeeps, PostKeeps, WriteBackKeeps
       DEF ProcessOne
<1>2. CASE UNCHANGED vars
    BY <1>2 DEF OutboxInv, TypeOK, EndIsRecorded, RowsAreOfEndedGenerations, EventTellsTheEnd,
           SentIsUnlocked, SentWasReceived, vars
<1>3. CASE Next
    BY <1>1, <1>3, FinishKeeps, ReopenKeeps, EnqueueKeeps, CrashKeeps, RetryKeeps, CancelKeeps,
       ToggleKeeps, TickKeeps DEF Next
<1> QED BY <1>2, <1>3

\* Rows, hands, versions and counters are what the schema and the loop of a
\* consumer allow, whatever crashes and however long a post takes.
THEOREM OutboxIsTyped == Spec => []TypeOK
<1>1. OutboxInv => TypeOK
    BY DEF OutboxInv
<1> QED BY <1>1, InitOutbox, StepKeeps, PTL DEF Spec

\* A row is announced as its generation ended, even when the job was reopened,
\* or ended differently, before the row was posted (enqueue_webhooks freezes
\* the payload; control_job opens the next generation).
THEOREM EventsTellTheEnd == Spec => []EventTellsTheEnd
<1>1. OutboxInv => EventTellsTheEnd
    BY DEF OutboxInv
<1> QED BY <1>1, InitOutbox, StepKeeps, PTL DEF Spec

\* A row is marked as sent only when its endpoint has received it, though the
\* consumer that received the answer may by then have lost its lock, and
\* another one may be posting the row (process_one_webhook).
THEOREM SentRowsWereReceived == Spec => []SentWasReceived
<1>1. OutboxInv => SentWasReceived
    BY DEF OutboxInv
<1> QED BY <1>1, InitOutbox, StepKeeps, PTL DEF Spec

-----------------------------------------------------------------------------
(* Settled rows. *)

SettledStep(r) ==
    /\ row[r].status = "sent" => row'[r].status = "sent"
    /\ row[r].status \in {"failed", "cancelled"} /\ row[r].lock = None =>
          row'[r].status \in {row[r].status, "cancelled"} \/ (row'[r].attempts = 0 /\ resets' > resets)

\* A row that is settled is neither given up nor claimed.
LEMMA SettledIsNotClaimed ==
    ASSUME OutboxInv, NEW r \in Rows, row[r].status \in Settled
    PROVE  ~Due(r) /\ ~Exhausted(r) /\ GivenUp[r] = row[r]
BY DEF Settled, Due, Exhausted, GivenUp

LEMMA SettledRowsKeep ==
    ASSUME OutboxInv, NEW r \in Rows, row[r].status \in Settled, [Next]_vars,
           row[r].status = "sent" \/ row[r].lock = None
    PROVE  SettledStep(r)
<1>1. row[r].lock = None
    BY DEF OutboxInv, SentIsUnlocked
<1>2. row[r] # NoRow
    BY NoRowTyped DEF Settled
<1>3. row \in [Rows -> RowStates]
    BY DEF OutboxInv, TypeOK
<1>4. CASE row'[r] = row[r]
    BY <1>4 DEF SettledStep
<1>5. CASE Enqueue
    BY <1>2, <1>5 DEF Enqueue, Missing, SettledStep
<1>6. ASSUME NEW k \in Consumers, ProcessOne(k) \/ Crash(k) PROVE row'[r] = row[r]
    <2>1. CASE ClaimNothing(k)
        BY <2>1, SettledIsNotClaimed DEF ClaimNothing
    <2>2. ASSUME NEW q \in Rows, ClaimDisabled(k, q) \/ Claim(k, q) PROVE row'[r] = row[r]
        <3>1. q # r
            BY <2>2, SettledIsNotClaimed DEF ClaimDisabled, Claim, Next1
        <3>2. GivenUp \in [Rows -> RowStates]
            BY GivenUpRows
        <3> QED BY <2>2, <3>1, <3>2, SettledIsNotClaimed DEF ClaimDisabled, Claim
    <2>3. ASSUME NEW got \in BOOLEAN, NEW heard \in BOOLEAN, Post(k, got, heard) PROVE row'[r] = row[r]
        BY <2>3 DEF Post
    <2>4. CASE WriteBack(k)
        BY <1>1, <1>3, <2>4, WebhookOutboxAssumption DEF WriteBack
    <2>5. CASE Crash(k)
        BY <2>5 DEF Crash
    <2> QED BY <1>6, <2>1, <2>2, <2>3, <2>4, <2>5 DEF ProcessOne
<1>7. ASSUME NEW q \in Rows, Retry(q) PROVE SettledStep(r)
    <2>1. CASE q = r
        <3>1. row'[r].attempts = 0 /\ resets' > resets
            BY <1>3, <1>7, <2>1 DEF Retry, NoRow, Reset, OutboxInv, TypeOK
        <3> QED BY <1>7, <2>1, <3>1 DEF SettledStep, Retry
    <2>2. CASE q # r
        BY <1>3, <1>4, <1>7, <2>2 DEF Retry
    <2> QED BY <2>1, <2>2
<1>8. ASSUME NEW q \in Rows, Cancel(q) PROVE SettledStep(r)
    <2>1. CASE q = r
        <3>1. row'[r].status = "cancelled" /\ row[r].status # "sent"
            BY <1>3, <1>8, <2>1 DEF Cancel, RowStates
        <3> QED BY <3>1 DEF SettledStep
    <2>2. CASE q # r
        BY <1>3, <1>4, <1>8, <2>2 DEF Cancel
    <2> QED BY <2>1, <2>2
<1>9. CASE Tick
    <2>1. row'[r].status = row[r].status
        BY <1>3, <1>9 DEF Tick, RowStates
    <2> QED BY <2>1 DEF SettledStep
<1>10. ASSUME \/ \E s \in FinalStatuses : Finish(s)
              \/ Reopen
              \/ \E e \in Endpoints : Toggle(e)
              \/ UNCHANGED vars
       PROVE row'[r] = row[r]
    BY <1>10 DEF Finish, Reopen, Toggle, vars
<1> QED BY <1>4, <1>5, <1>6, <1>7, <1>8, <1>9, <1>10 DEF Next

\* A consumer that lost its row changes nothing, and a sent row is never sent
\* again (process_one_webhook, notification_control): a settled row that no
\* consumer still holds is touched by operators only.
THEOREM SettledRowsStay == Spec => SettledStays
<1>1. OutboxInv /\ [Next]_vars => [\A r \in Rows : SettledStep(r)]_vars
    <2> SUFFICES ASSUME OutboxInv, [Next]_vars, NEW r \in Rows PROVE SettledStep(r)
        OBVIOUS
    <2>1. CASE row[r].status = "sent" \/ (row[r].status \in Settled /\ row[r].lock = None)
        BY <2>1, SettledRowsKeep DEF Settled
    <2>2. CASE ~(row[r].status = "sent" \/ (row[r].status \in Settled /\ row[r].lock = None))
        BY <2>2 DEF SettledStep, Settled
    <2> QED BY <2>1, <2>2
<1>2. [][\A r \in Rows : SettledStep(r)]_vars => SettledStays
    BY DEF SettledStays, SettledStep
<1> QED BY <1>1, <1>2, InitOutbox, StepKeeps, PTL DEF Spec

=============================================================================
