---------------------------- MODULE WorkerEngine ----------------------------
(***************************************************************************)
(* GenericWorker of workers/engine.py driving the queue: the polling       *)
(* thread that reserves an access, opens a portal session, consults items, *)
(* closes the session and releases the access, and the renewal thread that *)
(* keeps the reservation alive meanwhile.  Each request is the step of     *)
(* JobQueue that serves it, joined to what its reply does to the worker.   *)
(*                                                                         *)
(* A request may be lost, or served and its reply lost; portals refuse     *)
(* logins and go down; processes die.  Each such upset, and each operator  *)
(* intervention, is counted against MaxUpsets.                             *)
(***************************************************************************)
EXTENDS JobQueue

CONSTANTS
    AckTries,   \* tries of a durable acknowledgement (4)
    MaxUpsets   \* bound: faults and interventions of a behaviour

ASSUME WorkerEngineAssumption ==
    AckTries \in Nat \ {0} /\ MaxUpsets \in Nat /\ "retryable_error" \in Outcomes

VARIABLES
    phase,    \* where the polling thread is
    access,   \* _current_credential_id
    open,     \* the credential of the portal session the worker has open
    todo,     \* the rest of the batch: <<item, delivery>> pairs
    answer,   \* outcome of the consultation, or failure of the access, to be reported
    tries,    \* acknowledgements of it that were lost
    signals,  \* stop_event, _drain_event and _lease_lost, those that are set
    age,      \* ticks since _last_renewal
    beaten,   \* the renewal thread has tried since the last tick
    upsets,   \* faults and interventions so far
    health,   \* what PortalCredential.status and cooldown_until of an access say now
    outage    \* an OperationalBlock of the portal, or of its captcha, is in force

local == <<phase, access, open, todo, answer, tries, signals, age, beaten>>
entry == <<health, outage>>
evars == <<vars, local, upsets, entry>>

Phases == {"idle", "login", "opened", "ready", "claiming", "batch", "consulting",
           "answering", "reporting", "returning", "closing", "releasing"}
Healths == {"active", "cooldown", "invalid"}
Signals == {"stop", "drain", "lost"}

ShouldDrain(w) == signals[w] # {}
Renewing(w) == phase[w] \notin {"idle", "releasing"} /\ "lost" \notin signals[w]

\* The access lease, as the server sees it, is still the one w reserved.
Valid(w) == access[w] \in LiveLeases /\ lease[access[w]].worker = w

First(w) == CHOOSE p \in todo[w] : \A q \in todo[w] : p[1] <= q[1]
Rest(w) == todo[w] \ {First(w)}

Upset == upsets < MaxUpsets /\ upsets' = upsets + 1

EngineInit ==
    /\ Init
    /\ phase = [w \in Workers |-> "idle"]
    /\ access = [w \in Workers |-> None]
    /\ open = [w \in Workers |-> None]
    /\ todo = [w \in Workers |-> {}]
    /\ answer = [w \in Workers |-> None]
    /\ tries = [w \in Workers |-> 0]
    /\ signals = [w \in Workers |-> {}]
    /\ age = [w \in Workers |-> 0]
    /\ beaten = [w \in Workers |-> TRUE]
    /\ upsets = 0
    /\ health = [c \in Creds |-> "active"]
    /\ outage = FALSE

(***************************************************************************)
(* Reply fragments: what the worker does next.  Leaving the batch early    *)
(* drops it, as an exception or a return of _consume_job does.             *)
(***************************************************************************)
GoTo(w, p) ==
    /\ phase' = [phase EXCEPT ![w] = p]
    /\ UNCHANGED <<access, open, todo, answer, tries, signals, age, beaten>>

Work(w, p, batch) ==
    /\ phase' = [phase EXCEPT ![w] = p]
    /\ todo' = [todo EXCEPT ![w] = batch]
    /\ answer' = [answer EXCEPT ![w] = None]
    /\ tries' = [tries EXCEPT ![w] = 0]
    /\ UNCHANGED <<access, open, signals, age, beaten>>

Abort(w) == Work(w, "closing", {})

\* The failures classify_exception may make of a login, a recovery or a consultation.
Failures == Retryable \cap Outcomes

\* A failure of the access or the portal is to be reported; "batch" is what
\* is given back after that.
Fail(w, failure, batch) ==
    /\ phase' = [phase EXCEPT ![w] = "reporting"]
    /\ todo' = [todo EXCEPT ![w] = batch]
    /\ answer' = [answer EXCEPT ![w] = failure]
    /\ tries' = [tries EXCEPT ![w] = 0]
    /\ UNCHANGED <<access, open, signals, age, beaten>>

-----------------------------------------------------------------------------
\* An access that is refused, cools down or is shut out with its portal is
\* neither ready nor a candidate.
Usable(c) == ~outage /\ health[c] = "active"

\* _process_job: reserve an access for a job the backend calls executable.
Reserve(w, c, j) ==
    /\ phase[w] = "idle" /\ "stop" \notin signals[w]
    /\ Usable(c) /\ Acquire(w, c, j)
    /\ phase' = [phase EXCEPT ![w] = "login"]
    /\ access' = [access EXCEPT ![w] = c]
    /\ open' = [open EXCEPT ![w] = None]
    /\ signals' = [signals EXCEPT ![w] = @ \ {"drain", "lost"}]
    /\ age' = [age EXCEPT ![w] = 0]
    /\ beaten' = [beaten EXCEPT ![w] = TRUE]
    /\ UNCHANGED <<todo, answer, tries, upsets>>

\* The reservation is made, its reply is lost: the worker knows of none.
ReserveUnheard(w, c, j) ==
    /\ phase[w] = "idle" /\ "stop" \notin signals[w]
    /\ Upset /\ Usable(c) /\ Acquire(w, c, j)
    /\ UNCHANGED local

\* open_session; a drain seen before it starts ends the assignment.
OpenSession(w) ==
    /\ phase[w] = "login" /\ ~ShouldDrain(w)
    /\ phase' = [phase EXCEPT ![w] = "opened"]
    /\ open' = [open EXCEPT ![w] = access[w]]
    /\ UNCHANGED <<vars, access, todo, answer, tries, signals, age, beaten, upsets>>

\* A login that fails is reported, one that is interrupted by a drain is not.
LoginRefused(w) ==
    /\ phase[w] = "login"
    /\ \/ ShouldDrain(w) /\ GoTo(w, "closing") /\ UNCHANGED upsets
       \/ ~ShouldDrain(w) /\ Upset /\ \E f \in Failures : Fail(w, f, {})
    /\ UNCHANGED vars

\* apply_credential_report: an outage shuts the agreement and leaves the access
\* as it is, a refusal blocks it for good; any other failure has it cool down,
\* and the third login in a row (counted in AccessChecks) blocks it too.
Blame(w) ==
    \/ answer[w] \in {"portal_unavailable", "integration_unavailable"}
       /\ outage' = TRUE /\ UNCHANGED health
    \/ \E h \in {"cooldown", "invalid"} :
          /\ h = "cooldown" => answer[w] = "retryable_error"
          /\ h = "invalid" => answer[w] = "credential_error"
                               \/ (answer[w] = "retryable_error" /\ open[w] = None)
          /\ health' = [health EXCEPT ![access[w]] = h] /\ UNCHANGED outage

\* _report_session_failure, sent once: a conflict or a lost request or reply is
\* an exception, and the batch is left.
ReportFailure(w) ==
    /\ phase[w] = "reporting"
    /\ \/ /\ Valid(w) /\ Blame(w)
          /\ Work(w, IF todo[w] = {} THEN "closing" ELSE "returning", todo[w])
          /\ UNCHANGED upsets
       \/ Valid(w) /\ Upset /\ Blame(w) /\ Abort(w)
       \/ Upset /\ UNCHANGED entry /\ Abort(w)
       \/ ~Valid(w) /\ UNCHANGED <<entry, upsets>> /\ Abort(w)
    /\ UNCHANGED vars

\* _report_credential "success": a conflict or a lost reply ends the session.
\* The access is active already, as it was when it was reserved.
ReportLogin(w) ==
    /\ phase[w] = "opened"
    /\ \/ GoTo(w, IF ShouldDrain(w) \/ ~Valid(w) THEN "closing" ELSE "ready")
          /\ UNCHANGED upsets
       \/ ~ShouldDrain(w) /\ Upset /\ GoTo(w, "closing")
    /\ UNCHANGED vars

-----------------------------------------------------------------------------
\* The polling thread's heartbeat; "onward" is where it goes if not drained.
\* A conflict or a lost request or reply is an exception: the batch is left.
Beat(w, onward, drained) ==
    \/ /\ Valid(w) /\ Heartbeat(access[w])
       /\ signals' = [signals EXCEPT ![w] =
            IF status[lease[access[w]].job] \in ActiveStates THEN @ ELSE @ \cup {"drain"}]
       /\ phase' = [phase EXCEPT ![w] = IF signals'[w] = {} THEN onward ELSE drained]
       /\ age' = [age EXCEPT ![w] = 0]
       /\ UNCHANGED <<access, open, todo, answer, tries, beaten, upsets>>
    \/ Valid(w) /\ Upset /\ Heartbeat(access[w]) /\ Abort(w)
    \/ Upset /\ Abort(w) /\ UNCHANGED vars
    \/ ~Valid(w) /\ Abort(w) /\ UNCHANGED <<vars, upsets>>

\* The top of the loop of _consume_job.
Continue(w) ==
    /\ phase[w] = "ready"
    /\ \/ ShouldDrain(w) /\ GoTo(w, "closing") /\ UNCHANGED <<vars, upsets>>
       \/ ~ShouldDrain(w) /\ Beat(w, "claiming", "closing")

\* A claim the backend refuses before it takes the job's lock.
ClaimRefused(w) ==
    /\ phase[w] = "claiming" /\ claim[w] = "none"
    /\ outage \/ ~(Valid(w) /\ Executable(lease[access[w]].job))
    /\ GoTo(w, "closing")
    /\ UNCHANGED <<vars, upsets>>

SendClaim(w) ==
    /\ phase[w] = "claiming" /\ Valid(w) /\ ~outage
    /\ ClaimRead(w)
    /\ UNCHANGED <<local, upsets>>

ClaimServed(w) ==
    /\ phase[w] = "claiming"
    /\ ClaimCommit(w, access[w])
    /\ LET got == {<<i, item'[i].attempts>> :
                    i \in {k \in Items : item'[k].attempts > item[k].attempts}}
       IN  \/ Work(w, IF got = {} THEN "closing" ELSE "batch", got) /\ UNCHANGED upsets
           \/ Upset /\ Abort(w)

ClaimLost(w) ==
    /\ phase[w] = "claiming"
    /\ ClaimFails(w)
    /\ \/ ~(Valid(w) /\ claim[w] \in ActiveStates) /\ UNCHANGED upsets
       \/ Upset
    /\ Abort(w)

\* The server ends a claim whose worker has died meanwhile.
ClaimOrphaned(w) ==
    /\ phase[w] # "claiming"
    /\ (\E c \in Creds : ClaimCommit(w, c)) \/ ClaimFails(w)
    /\ UNCHANGED <<local, upsets>>

-----------------------------------------------------------------------------
NextItem(w) ==
    /\ phase[w] = "batch"
    /\ \/ ShouldDrain(w) /\ GoTo(w, "returning") /\ UNCHANGED <<vars, upsets>>
       \/ ~ShouldDrain(w) /\ Beat(w, "consulting", "returning")

\* session.consult: a portal that is down is an upset.  An answer got after
\* the lease was found lost is not sent.
Consulted(w, o) ==
    /\ phase[w] = "consulting"
    /\ IF o \in Infrastructure THEN Upset ELSE UNCHANGED upsets
    /\ \/ "lost" \in signals[w] /\ Abort(w)
       \/ /\ "lost" \notin signals[w]
          /\ phase' = [phase EXCEPT ![w] = "answering"]
          /\ answer' = [answer EXCEPT ![w] = o]
          /\ UNCHANGED <<access, open, todo, tries, signals, age, beaten>>
    /\ UNCHANGED vars

\* The request the worker sends for delivery p with outcome o, and the replay
\* the backend answers when it has already applied it.
Apply(p, o, consume) ==
    IF o \in Retryable THEN Requeue(p[1], p[2], o, consume) ELSE Answer(p[1], p[2], o)

Replayed_Never(p, o, consume) == FALSE

Replayed(p, o, consume) ==
    /\ item[p[1]].attempts = p[2] /\ item[p[1]].status # "leased"
    /\ IF o \in Retryable
       THEN item[p[1]].status \in {"pending", "failed"} /\ (item[p[1]].outcome = o \/ ~consume)
       ELSE item[p[1]].status \in {"completed", "failed"} /\ item[p[1]].outcome = o

Served(p, o, consume) ==
    \/ Apply(p, o, consume)
    \/ Replayed(p, o, consume) /\ UNCHANGED vars

Refused(p, o, consume) == ~Accepts(p[1], p[2]) /\ ~Replayed(p, o, consume)

\* A durable request loses its reply, or itself: it is sent again with the
\* same token, until it has been sent AckTries times.
Unacknowledged(w, p, o, consume) ==
    /\ Upset
    /\ Served(p, o, consume) \/ UNCHANGED vars
    /\ IF tries[w] + 1 < AckTries
       THEN /\ tries' = [tries EXCEPT ![w] = @ + 1]
            /\ UNCHANGED <<phase, access, open, todo, answer, signals, age, beaten>>
       ELSE Abort(w)

\* After the acknowledgement: the next item, or the report of what ends the
\* session: the failure itself, or that of the recovery after a technical error.
AfterAnswer(w, o) ==
    \/ /\ o \notin Infrastructure
       /\ Work(w, IF Rest(w) = {} THEN "ready" ELSE "batch", Rest(w))
       /\ UNCHANGED upsets
    \/ o \in Retryable /\ Fail(w, o, Rest(w)) /\ UNCHANGED upsets
    \/ o = "retryable_error" /\ Upset /\ \E f \in Infrastructure \cap Failures : Fail(w, f, Rest(w))

Acknowledge(w) ==
    /\ phase[w] = "answering"
    /\ LET p == First(w)
           o == answer[w]
       IN  \/ Served(p, o, TRUE) /\ AfterAnswer(w, o)
           \/ /\ Refused(p, o, TRUE) /\ Work(w, "returning", Rest(w))
              /\ UNCHANGED <<vars, upsets>>
           \/ Unacknowledged(w, p, o, TRUE)

\* _requeue_many gives the rest back without spending an attempt, until one
\* is refused.
ReturnItem(w) ==
    /\ phase[w] = "returning"
    /\ \/ todo[w] = {} /\ Abort(w) /\ UNCHANGED <<vars, upsets>>
       \/ /\ todo[w] # {}
          /\ LET p == First(w)
             IN  \/ /\ Served(p, "retryable_error", FALSE)
                    /\ Work(w, "returning", Rest(w)) /\ UNCHANGED upsets
                 \/ /\ Refused(p, "retryable_error", FALSE)
                    /\ Abort(w) /\ UNCHANGED <<vars, upsets>>
                 \/ Unacknowledged(w, p, "retryable_error", FALSE)

-----------------------------------------------------------------------------
\* _close_and_release: only a closed session releases its access.
CloseSession_ReleasesAnyway(w) ==
    /\ phase[w] = "closing"
    /\ \/ open' = [open EXCEPT ![w] = None] /\ UNCHANGED upsets
       \/ open[w] # None /\ Upset /\ UNCHANGED open
    /\ phase' = [phase EXCEPT ![w] = "releasing"]
    /\ UNCHANGED <<vars, access, todo, answer, tries, signals, age, beaten>>

CloseSession(w) ==
    /\ phase[w] = "closing"
    /\ \/ /\ phase' = [phase EXCEPT ![w] = "releasing"]
          /\ open' = [open EXCEPT ![w] = None]
          /\ UNCHANGED <<access, upsets>>
       \/ /\ open[w] # None /\ Upset
          /\ phase' = [phase EXCEPT ![w] = "idle"]
          /\ access' = [access EXCEPT ![w] = None]
          /\ UNCHANGED open
    /\ UNCHANGED <<vars, todo, answer, tries, signals, age, beaten>>

\* The release is sent once; the worker is idle whether or not it arrives.
SendRelease(w) ==
    /\ phase[w] = "releasing"
    /\ \/ lease[access[w]].worker = w /\ Release(access[w]) /\ UNCHANGED upsets
       \/ lease[access[w]].worker # w /\ UNCHANGED <<vars, upsets>>
       \/ Upset /\ UNCHANGED vars
    /\ phase' = [phase EXCEPT ![w] = "idle"]
    /\ access' = [access EXCEPT ![w] = None]
    /\ UNCHANGED <<open, todo, answer, tries, signals, age, beaten>>

-----------------------------------------------------------------------------
\* One turn of _renewal_loop; it ends when the lease is known to be lost.
Renew(w) ==
    /\ Renewing(w) /\ ~beaten[w]
    /\ beaten' = [beaten EXCEPT ![w] = TRUE]
    /\ \/ /\ Valid(w) /\ Heartbeat(access[w])
          /\ signals' = [signals EXCEPT ![w] =
                IF status[lease[access[w]].job] \in ActiveStates THEN @ ELSE @ \cup {"drain"}]
          /\ age' = [age EXCEPT ![w] = 0]
          /\ UNCHANGED upsets
       \/ /\ ~Valid(w)
          /\ signals' = [signals EXCEPT ![w] = @ \cup {"lost"}]
          /\ UNCHANGED <<vars, age, upsets>>
       \/ /\ Upset
          /\ (Valid(w) /\ Heartbeat(access[w])) \/ UNCHANGED vars
          /\ signals' = [signals EXCEPT ![w] =
                IF age[w] >= LeaseTicks THEN @ \cup {"lost"} ELSE @]
          /\ UNCHANGED age
    /\ UNCHANGED <<phase, access, open, todo, answer, tries>>

\* The pool drains a slot, or the service stops; the slot is started again.
StopSlot(w) ==
    /\ "stop" \notin signals[w] /\ Upset
    /\ signals' = [signals EXCEPT ![w] = @ \cup {"stop"}]
    /\ UNCHANGED <<vars, phase, access, open, todo, answer, tries, age, beaten>>

StartSlot(w) ==
    /\ phase[w] = "idle" /\ "stop" \in signals[w]
    /\ signals' = [signals EXCEPT ![w] = @ \ {"stop"}]
    /\ UNCHANGED <<vars, phase, access, open, todo, answer, tries, age, beaten, upsets>>

\* The process dies and its sessions with it.  The next one has another id;
\* ids are reused here, and the queue refuses this one while its lease lives.
Crash(w) ==
    /\ phase[w] # "idle" /\ Upset
    /\ phase' = [phase EXCEPT ![w] = "idle"]
    /\ access' = [access EXCEPT ![w] = None]
    /\ open' = [open EXCEPT ![w] = None]
    /\ todo' = [todo EXCEPT ![w] = {}]
    /\ answer' = [answer EXCEPT ![w] = None]
    /\ tries' = [tries EXCEPT ![w] = 0]
    /\ signals' = [signals EXCEPT ![w] = {}]
    /\ UNCHANGED <<vars, age, beaten>>

\* update_portal_credential: an access is corrected while nobody has it reserved.
Correct(c) ==
    /\ Upset /\ c \notin LiveLeases /\ health[c] # "active"
    /\ health' = [health EXCEPT ![c] = "active"]
    /\ UNCHANGED <<vars, outage>>

Operator ==
    /\ \/ (\E j \in Jobs : Create(j)) /\ UNCHANGED <<upsets, entry>>
       \/ (Upset /\ \E j \in Jobs : Pause(j) \/ Cancel(j) \/ Retry(j)) /\ UNCHANGED entry
       \/ (\E j \in Jobs : Resume(j)) /\ UNCHANGED <<upsets, entry>>
       \/ \E c \in Creds : Correct(c)
    /\ UNCHANGED local

Maintenance == (\E j \in Jobs : Maintain(j)) /\ UNCHANGED <<local, upsets, entry>>

Reopens_BlocksOnly ==
    outage /\ outage' = FALSE /\ UNCHANGED <<health, vars, local, upsets>>

\* blocked_until and cooldown_until (at most a day) pass.
Reopens ==
    /\ \/ outage /\ outage' = FALSE /\ UNCHANGED health
       \/ \E c \in Creds : /\ health[c] = "cooldown"
                            /\ health' = [health EXCEPT ![c] = "active"]
                            /\ UNCHANGED outage
    /\ UNCHANGED <<vars, local, upsets>>

\* The renewal thread of every worker tries at least once a tick.
Clock ==
    /\ \A w \in Workers : Renewing(w) => beaten[w]
    /\ Tick
    /\ age' = [w \in Workers |-> IF age[w] < LeaseTicks THEN age[w] + 1 ELSE age[w]]
    /\ beaten' = [w \in Workers |-> FALSE]
    /\ UNCHANGED <<phase, access, open, todo, answer, tries, signals, upsets, entry>>

\* The steps of the polling thread, in the order it takes them.
Turn(w) ==
    \/ \E c \in Creds, j \in Jobs : Reserve(w, c, j) \/ ReserveUnheard(w, c, j)
    \/ OpenSession(w) \/ LoginRefused(w) \/ ReportLogin(w)
    \/ Continue(w)
    \/ ClaimRefused(w) \/ SendClaim(w) \/ ClaimServed(w) \/ ClaimLost(w) \/ ClaimOrphaned(w)
    \/ NextItem(w)
    \/ \E o \in Outcomes : Consulted(w, o)
    \/ Acknowledge(w) \/ ReturnItem(w)
    \/ CloseSession(w) \/ SendRelease(w)
    \/ StartSlot(w)

Poll(w) == ReportFailure(w) \/ (Turn(w) /\ UNCHANGED entry)

EngineNext ==
    \/ \E w \in Workers : Poll(w) \/ ((Renew(w) \/ StopSlot(w) \/ Crash(w)) /\ UNCHANGED entry)
    \/ Operator \/ Maintenance \/ Clock \/ Reopens

EngineSpec == EngineInit /\ [][EngineNext]_evars

(***************************************************************************)
(* Fairness.  Both threads of a worker run; its requests and the portal's  *)
(* have timeouts, so a step always ends.  The scheduler process runs the   *)
(* maintenance every five seconds, and time passes.  Faults, operators and *)
(* job creation owe nothing.                                               *)
(***************************************************************************)
FairEngineSpec ==
    /\ EngineSpec
    /\ \A w \in Workers : WF_evars(Poll(w)) /\ WF_evars(Renew(w) /\ UNCHANGED entry)
    /\ WF_evars(Maintenance)
    /\ WF_evars(Clock)
    /\ WF_evars(Reopens)

-----------------------------------------------------------------------------
\* An open portal session is covered by its reservation: as long as less than
\* a lease has passed since the worker's last answered renewal, whatever was
\* lost, drained or crashed elsewhere, the access is reserved for that worker.
\* And while it consults, that item and the rest of its batch are leased to it
\* under the very deliveries it was given: no other worker consults them.
SessionIsItsWorkers ==
    \A w \in Workers : age[w] < LeaseTicks =>
        /\ open[w] # None => open[w] \in LiveLeases /\ lease[open[w]].worker = w
        /\ phase[w] = "consulting" =>
              \A p \in todo[w] : p[2] = item[p[1]].attempts /\ Owns(p[1], w, p[2])

\* A worker with a fresh renewal that holds a final answer gets it recorded:
\* whatever acknowledgements were lost on the way, the backend accepts it or
\* recognises that it has it already; it is never told that it lost the item.
FinalAnswerIsAccepted ==
    \A w \in Workers :
        (phase[w] = "answering" /\ answer[w] \notin Retryable /\ age[w] < LeaseTicks)
            => LET p == First(w)
               IN  Accepts(p[1], p[2]) \/ Replayed(p, answer[w], TRUE)

\* Every pause and cancellation takes effect: the job stops draining.
DrainEnds == \A j \in Jobs : status[j] \in DrainingStates ~> status[j] \notin DrainingStates

\* Every job that is queued or running ends, unless an operator stops it or the
\* portal has refused every access: then it waits for one to be corrected, and
\* from there it must end again.  Cooldowns and outages only delay it.
JobEnds ==
    \A j \in Jobs : status[j] \in ActiveStates
        ~> \/ status[j] \notin ActiveStates
           \/ \A c \in Creds : health[c] = "invalid"
=============================================================================
