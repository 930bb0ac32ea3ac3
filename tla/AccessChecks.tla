---------------------------- MODULE AccessChecks ----------------------------
(***************************************************************************)
(* Login tests (machine_admin/access_checks.py) and the health of portal   *)
(* accesses: a test reserves its access like a consultation does, so both  *)
(* share leases, and the verdicts of both decide whether the access may be *)
(* used again.                                                             *)
(*                                                                         *)
(* One agreement, whose accesses all have a login of their own.  Only the  *)
(* latest test of an access is kept: a new one is refused while it is      *)
(* active, so every older one is final and requests about it change        *)
(* nothing.  Time is counted in ticks and handlers are shorter than one;   *)
(* a value of 0 is a moment that has passed.  A test's error code is kept  *)
(* only as far as it says that the time ran out.                           *)
(***************************************************************************)
EXTENDS Naturals, FiniteSets, Sequences, SequencesExt

CONSTANTS
    None,
    Accesses,       \* portal_credentials of the agreement
    Workers,
    Secrets,        \* passwords an access may have
    MaxWorkers,     \* municipality.max_workers
    LoginLimit,     \* unconfirmed logins that block an access (3)
    Window,         \* queued tests a claim looks at (20)
    LeaseTicks,     \* lease_seconds (120 s)
    TimeoutTicks,   \* ACCESS_CHECK_TIMEOUT_SECONDS (300 s)
    RetestTicks,    \* wait between tests (15 min)
    CooldownTicks   \* cooldown of an access or of the agreement (15 min)

ASSUME AccessChecksAssumption ==
    /\ {LoginLimit, Window, LeaseTicks, TimeoutTicks, RetestTicks, CooldownTicks} \subseteq Nat \ {0}
    /\ MaxWorkers \in Nat
    /\ IsFiniteSet(Accesses) /\ Secrets # {} /\ None \notin Workers

VARIABLES
    access,    \* status, login_failure_count, cooldown_until and password
    lease,     \* credential_leases
    check,     \* the latest test of each access
    waiting,   \* accesses whose test is queued, in the order of its id
    blocked    \* operational_blocks.blocked_until of the agreement

vars == <<access, lease, check, waiting, blocked>>

NoLease == [worker |-> None, token |-> 0, test |-> FALSE, ttl |-> 0, secret |-> None, told |-> FALSE]
NoCheck == [status |-> "none", worker |-> None, token |-> 0, ttl |-> 0, timeout |-> FALSE, wait |-> 0]

Outcomes == {"success", "transient_failure", "invalid_credentials", "unavailable"}
Active == {"queued", "running", "cancelling"}

\* A token is compared only with those on record, so a fresh one is any other.
Tokens == 1 .. (2 * Cardinality(Accesses) + 1)
Fresh == CHOOSE t \in Tokens : \A c \in Accesses : t # lease[c].token /\ t # check[c].token

Live(c) == lease[c].ttl > 0
Busy(w) == \E c \in Accesses : Live(c) /\ lease[c].worker = w
LiveCheckLease(c) == Live(c) /\ lease[c].token = check[c].token

Init ==
    /\ access = [c \in Accesses |-> [status |-> "active", logins |-> 0, wait |-> 0,
                                     secret |-> CHOOSE s \in Secrets : TRUE]]
    /\ lease = [c \in Accesses |-> NoLease]
    /\ check = [c \in Accesses |-> NoCheck]
    /\ waiting = <<>>
    /\ blocked = 0
-----------------------------------------------------------------------------
(* Reservations. *)

\* The lease table once w has reserved c: its expired rows and c's are gone.
Reserved(w, c, test) ==
    [d \in Accesses |->
        IF d = c THEN [worker |-> w, token |-> Fresh, test |-> test, ttl |-> LeaseTicks,
                       secret |-> access[c].secret, told |-> FALSE]
        ELSE IF lease[d].worker = w /\ ~Live(d) THEN NoLease
        ELSE lease[d]]

Usable(c) ==
    \/ access[c].status = "active"
    \/ access[c].status = "cooldown" /\ access[c].wait = 0

\* A consultation reserves an access of the agreement.
Acquire(w, c) ==
    /\ blocked = 0
    /\ Cardinality({d \in Accesses : Live(d)}) < MaxWorkers
    /\ ~Busy(w) /\ ~Live(c) /\ Usable(c)
    /\ lease' = Reserved(w, c, FALSE)
    /\ access' = [access EXCEPT ![c].status = "active", ![c].wait = 0]
    /\ UNCHANGED <<check, waiting, blocked>>

\* What a heartbeat or the sweep makes of a test whose time may be up.
TimedOut(k) ==
    IF k.status = "running" /\ k.ttl = 0 THEN [k EXCEPT !.status = "cancelling", !.timeout = TRUE] ELSE k

\* The renewal of a lease; for a test, the reply may tell the worker to stop.
Heartbeat(c) ==
    LET k == IF lease[c].test /\ LiveCheckLease(c) THEN TimedOut(check[c]) ELSE check[c]
    IN  /\ Live(c)
        /\ check' = [check EXCEPT ![c] = k]
        /\ lease' = [lease EXCEPT ![c].ttl = LeaseTicks,
                        ![c].told = lease[c].test /\ (k.token # lease[c].token \/ k.status # "running")]
        /\ UNCHANGED <<access, waiting, blocked>>

\* A test whose session ended before it gave a verdict.
Interrupted(k) ==
    LET late == k.timeout \/ (k.status = "running" /\ k.ttl = 0)
    IN  [k EXCEPT !.status = IF k.status = "cancelling" /\ ~late THEN "cancelled" ELSE "failed",
                  !.timeout = late]

\* The worker has closed its session; its lease may have run out already.
Release(c) ==
    /\ lease[c] # NoLease
    /\ lease' = [lease EXCEPT ![c] = NoLease]
    /\ check' = IF lease[c].test /\ check[c].token = lease[c].token
                   /\ check[c].status \in {"running", "cancelling"}
                THEN [check EXCEPT ![c] = Interrupted(@)] ELSE check
    /\ UNCHANGED <<access, waiting, blocked>>
-----------------------------------------------------------------------------
(* Verdicts about an access. *)

Report(c, outcome, atLogin) ==
    LET a == access[c]
        logins == IF atLogin /\ a.logins < LoginLimit THEN a.logins + 1 ELSE a.logins
        Marked(s, n, wait) == [access EXCEPT ![c] = [status |-> s, logins |-> n, wait |-> wait, secret |-> a.secret]]
    IN  /\ access' = CASE outcome = "success" -> Marked("active", 0, 0)
                       [] outcome = "unavailable" -> access
                       [] outcome = "invalid_credentials" \/
                            (outcome = "transient_failure" /\ logins >= LoginLimit) -> Marked("invalid", logins, 0)
                       [] OTHER -> Marked("cooldown", logins, CooldownTicks)
        /\ blocked' = IF outcome = "unavailable" THEN CooldownTicks ELSE blocked

\* The worker of a consultation reports how its login or its session went.  A
\* reserved access is active until its worker reports a failure, once, and
\* then closes the session.
ReportAccess(c, outcome, atLogin) ==
    /\ Live(c) /\ ~lease[c].test /\ access[c].status = "active"
    /\ Report(c, outcome, atLogin)
    /\ UNCHANGED <<lease, check, waiting>>

Complete_LateVerdict(c, outcome) ==
    /\ check[c].status \in {"running", "cancelling"} /\ LiveCheckLease(c)
    /\ Report(c, outcome, TRUE)
    /\ check' = [check EXCEPT ![c].status = IF outcome = "success" THEN "success" ELSE "failed"]
    /\ UNCHANGED <<lease, waiting>>

\* A test's answer, on time or not, once or again.  It counts only while the
\* test is running, in time and still holds its lease.
Complete(c, outcome) ==
    /\ check[c].status = "running"
    /\ \/ /\ check[c].ttl = 0
          /\ check' = [check EXCEPT ![c] = TimedOut(@)]
          /\ UNCHANGED <<access, blocked>>
       \/ /\ check[c].ttl > 0 /\ LiveCheckLease(c)
          /\ Report(c, outcome, TRUE)
          /\ check' = [check EXCEPT ![c].status = IF outcome = "success" THEN "success" ELSE "failed"]
    /\ UNCHANGED <<lease, waiting>>
-----------------------------------------------------------------------------
(* The life of a test. *)

MayTest_SessionOpen(c) ==
    access[c].status # "disabled" /\ check[c].status \notin Active /\ check[c].wait = 0

MayTest(c) ==
    /\ access[c].status # "disabled"
    /\ check[c].status \notin Active
    /\ ~LiveCheckLease(c)
    /\ check[c].wait = 0 \/ (check[c].status = "cancelled" /\ check[c].token = 0)

RequestCheck(c) ==
    /\ MayTest(c)
    /\ check' = [check EXCEPT ![c] = [NoCheck EXCEPT !.status = "queued", !.wait = RetestTicks]]
    /\ waiting' = Append(waiting, c)
    /\ UNCHANGED <<access, lease, blocked>>

CancelCheck(c) ==
    /\ check[c].status \in Active
    /\ check' = [check EXCEPT ![c].status = IF LiveCheckLease(c) THEN "cancelling" ELSE "cancelled"]
    /\ waiting' = SelectSeq(waiting, LAMBDA d : d # c)
    /\ UNCHANGED <<access, lease, blocked>>

Swept_TimeOnly(unlocked) ==
    [c \in Accesses |-> IF c \in unlocked THEN TimedOut(check[c]) ELSE check[c]]

\* expire_access_checks over the rows no other request has locked.
Swept(unlocked) ==
    [c \in Accesses |->
        IF c \notin unlocked \/ check[c].status \notin {"running", "cancelling"} THEN check[c]
        ELSE IF LiveCheckLease(c) THEN TimedOut(check[c])
        ELSE Interrupted(check[c])]

Sweep(unlocked) ==
    /\ check' = Swept(unlocked)
    /\ UNCHANGED <<access, lease, waiting, blocked>>

\* A claim passes over tests of disabled accesses (they fail) and of reserved
\* ones (they wait), and takes the first other unless its worker has a lease.
ClaimCheck(w, unlocked) ==
    LET rows  == SelectSeq(waiting, LAMBDA c : c \in unlocked)
        seen  == SubSeq(rows, 1, IF Len(rows) < Window THEN Len(rows) ELSE Window)
        free  == {i \in DOMAIN seen : access[seen[i]].status # "disabled" /\ ~Live(seen[i])}
        first == {i \in free : \A j \in free : i <= j}
        dead  == {c \in Accesses : access[c].status = "disabled"
                                  /\ \E i \in DOMAIN seen : seen[i] = c /\ \A j \in free : i < j}
        taken == {c \in Accesses : ~Busy(w) /\ \E i \in first : seen[i] = c}
        swept == Swept(unlocked)
    IN  /\ check' = [c \in Accesses |->
                        IF c \in dead THEN [check[c] EXCEPT !.status = "failed"]
                        ELSE IF c \in taken
                        THEN [status |-> "running", worker |-> w, token |-> Fresh, ttl |-> TimeoutTicks,
                              timeout |-> FALSE, wait |-> check[c].wait]
                        ELSE swept[c]]
        /\ waiting' = SelectSeq(waiting, LAMBDA c : c \notin dead \cup taken)
        /\ lease' = IF taken = {} THEN lease ELSE Reserved(w, CHOOSE c \in taken : TRUE, TRUE)
        /\ UNCHANGED <<access, blocked>>
-----------------------------------------------------------------------------
(* The operator. *)

Toggle_InUse(c) ==
    /\ access' = [access EXCEPT ![c].status =
                    IF @ # "disabled" THEN "disabled"
                    ELSE IF access[c].logins >= LoginLimit THEN "invalid" ELSE "active"]
    /\ UNCHANGED <<lease, check, waiting, blocked>>

Toggle_Active(c) ==
    /\ ~Live(c)
    /\ access' = [access EXCEPT ![c].status = IF @ = "disabled" THEN "active" ELSE "disabled"]
    /\ UNCHANGED <<lease, check, waiting, blocked>>

Toggle(c) ==
    /\ ~Live(c)
    /\ access' = [access EXCEPT ![c].status =
                    IF @ # "disabled" THEN "disabled"
                    ELSE IF access[c].logins >= LoginLimit THEN "invalid" ELSE "active"]
    /\ UNCHANGED <<lease, check, waiting, blocked>>

Edit_InUse(c, secret) ==
    /\ secret # access[c].secret
    /\ access' = [access EXCEPT ![c] = [status |-> "active", logins |-> 0, wait |-> 0, secret |-> secret]]
    /\ UNCHANGED <<lease, check, waiting, blocked>>

\* The login, the password or the profile is corrected.
Edit(c, secret) ==
    /\ ~Live(c) /\ secret # access[c].secret
    /\ access' = [access EXCEPT ![c] = [status |-> "active", logins |-> 0, wait |-> 0, secret |-> secret]]
    /\ UNCHANGED <<lease, check, waiting, blocked>>
-----------------------------------------------------------------------------
Less(n) == IF n = 0 THEN 0 ELSE n - 1

Tick ==
    /\ access' = [c \in Accesses |-> [access[c] EXCEPT !.wait = Less(@)]]
    /\ lease' = [c \in Accesses |-> [lease[c] EXCEPT !.ttl = Less(@)]]
    /\ check' = [c \in Accesses |-> [check[c] EXCEPT !.ttl = Less(@), !.wait = Less(@)]]
    /\ blocked' = Less(blocked)
    /\ UNCHANGED waiting

Requests(w) ==
    \/ \E c \in Accesses : Acquire(w, c)
    \/ \E unlocked \in SUBSET Accesses : ClaimCheck(w, unlocked)

Sessions(c) ==
    \/ Heartbeat(c)
    \/ Release(c)
    \/ \E outcome \in Outcomes : Complete(c, outcome)
    \/ \E outcome \in Outcomes, atLogin \in BOOLEAN : ReportAccess(c, outcome, atLogin)

Operator(c) ==
    \/ RequestCheck(c)
    \/ CancelCheck(c)
    \/ Toggle(c)
    \/ \E secret \in Secrets : Edit(c, secret)

Next ==
    \/ \E w \in Workers : Requests(w)
    \/ \E c \in Accesses : Sessions(c) \/ Operator(c)
    \/ \E unlocked \in SUBSET Accesses : Sweep(unlocked)
    \/ Tick

Spec == Init /\ [][Next]_vars

\* A worker told to stop closes its session: logins run under a cancellation
\* scope.  The scheduler sweeps every row it does not keep finding locked.
FairSpec ==
    /\ Spec
    /\ WF_vars(Tick)
    /\ \A c \in Accesses : WF_vars(lease[c].told /\ Release(c))
    /\ WF_vars(Sweep(Accesses))
-----------------------------------------------------------------------------
(* Properties. *)

AccessRows ==
    [status : {"active", "cooldown", "invalid", "disabled"}, logins : 0 .. LoginLimit,
     wait : 0 .. CooldownTicks, secret : Secrets]
LeaseRows ==
    [worker : Workers \cup {None}, token : Tokens \cup {0}, test : BOOLEAN, ttl : 0 .. LeaseTicks,
     secret : Secrets \cup {None}, told : BOOLEAN]
CheckRows ==
    [status : Active \cup {"none", "success", "failed", "cancelled"}, worker : Workers \cup {None},
     token : Tokens \cup {0}, ttl : 0 .. TimeoutTicks, timeout : BOOLEAN, wait : 0 .. RetestTicks]

\* Every table holds rows of its schema.
TablesOK ==
    /\ access \in [Accesses -> AccessRows]
    /\ lease \in [Accesses -> LeaseRows]
    /\ check \in [Accesses -> CheckRows]
    /\ blocked \in 0 .. CooldownTicks

\* No worker has two live reservations, whether for tests or consultations.
OneLeasePerWorker ==
    \A c, d \in Accesses : Live(c) /\ Live(d) /\ lease[c].worker = lease[d].worker => c = d

\* A live reservation for a test is that of the latest test: no other test of
\* the access starts, or is even accepted, before the session has been closed.
TestOwnsItsLease ==
    \A c \in Accesses : Live(c) /\ lease[c].test => /\ lease[c].token = check[c].token
                                                     /\ check[c].status # "queued"

\* The password of an access is never changed under an open session, so no
\* verdict is ever about an older password than the stored one.
LiveSessionUsesCurrentPassword ==
    \A c \in Accesses : Live(c) => lease[c].secret = access[c].secret

\* A disabled access is in nobody's hands, not even a login test's.
DisabledIsUnused == \A c \in Accesses : access[c].status = "disabled" => ~Live(c)

\* Three unconfirmed logins block the access until a fix or a good login:
\* neither waiting nor disabling and enabling it puts it back into use.
BlockedUntilFixed ==
    \A c \in Accesses : access[c].logins >= LoginLimit => access[c].status \in {"invalid", "disabled"}

\* While an access is reserved for a test, its health changes only by a verdict
\* that the test gives in time and before anyone asked it to stop.
CancelWins ==
    [][\A c \in Accesses :
        access'[c].status # access[c].status \/ access'[c].logins # access[c].logins =>
            ~(Live(c) /\ lease[c].test) \/ (check[c].status = "running" /\ check[c].ttl > 0)]_vars

\* A test that a worker started ends, whatever happens to worker and messages.
CheckEnds == \A c \in Accesses : check[c].status \in {"running", "cancelling"} ~> check[c].status \notin Active
=============================================================================
