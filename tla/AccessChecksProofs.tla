------------------------- MODULE AccessChecksProofs -------------------------
(***************************************************************************)
(* Proofs about login tests and the health of accesses, for every set of   *)
(* accesses, workers and passwords and every value of the limits.  The     *)
(* order of the queue of tests plays no part in them: whichever free test  *)
(* a claim takes, the invariant holds.                                     *)
(***************************************************************************)
EXTENDS AccessChecks, FiniteSetTheorems, TLAPS

\* The tables have their types and no reservation conflicts with another one,
\* with its access or with its test.
AccessInv ==
    /\ TablesOK
    /\ OneLeasePerWorker
    /\ TestOwnsItsLease
    /\ LiveSessionUsesCurrentPassword
    /\ DisabledIsUnused
    /\ BlockedUntilFixed

-----------------------------------------------------------------------------
(* Helpers. *)

\* There are more tokens than rows that may hold one, so a fresh one exists.
LEMMA FreshToken == Fresh \in Tokens
<1> DEFINE Held == {lease[c].token : c \in Accesses} \cup {check[c].token : c \in Accesses}
           n == Cardinality(Accesses)
<1>1. IsFiniteSet(Accesses) /\ n \in Nat
    BY AccessChecksAssumption, FS_CardinalityType
<1>2. ASSUME NEW f
      PROVE  /\ IsFiniteSet({f[c].token : c \in Accesses})
             /\ Cardinality({f[c].token : c \in Accesses}) <= n
    <2> DEFINE T == {f[c].token : c \in Accesses}
               g == [c \in Accesses |-> f[c].token]
    <2>1. g \in Surjection(Accesses, T)
        BY DEF Surjection
    <2> HIDE DEF g, T
    <2>2. IsFiniteSet(T) /\ Cardinality(T) <= n
        BY <1>1, <2>1, FS_Surjection
    <2> QED BY <2>2 DEF T
<1>3. IsFiniteSet(Held) /\ Cardinality(Held) <= 2 * n
    <2>1. ASSUME NEW S, NEW T, IsFiniteSet(S), IsFiniteSet(T), Cardinality(S) <= n, Cardinality(T) <= n
          PROVE  IsFiniteSet(S \cup T) /\ Cardinality(S \cup T) <= 2 * n
        <3>1. /\ IsFiniteSet(S \cup T) /\ IsFiniteSet(S \cap T)
              /\ Cardinality(S \cup T) = Cardinality(S) + Cardinality(T) - Cardinality(S \cap T)
            BY <2>1, FS_Union, FS_Intersection
        <3>2. /\ Cardinality(S) \in Nat /\ Cardinality(T) \in Nat
              /\ Cardinality(S \cap T) \in Nat
            BY <2>1, <3>1, FS_CardinalityType
        <3> HIDE DEF n
        <3> QED BY <1>1, <2>1, <3>1, <3>2
    <2> QED BY <1>2, <2>1
<1>4. IsFiniteSet(Tokens) /\ Cardinality(Tokens) = 2 * n + 1
    <2> HIDE DEF n
    <2>1. /\ 2 * n + 1 \in Int /\ 1 \in Int /\ ~(1 > 2 * n + 1)
          /\ (2 * n + 1) - 1 + 1 = 2 * n + 1
        BY <1>1
    <2>2. IsFiniteSet(1 .. (2 * n + 1)) /\ Cardinality(1 .. (2 * n + 1)) = 2 * n + 1
        BY <2>1, FS_Interval
    <2> QED BY <2>2 DEF Tokens, n
<1>5. ~(Tokens \subseteq Held)
    <2> SUFFICES ASSUME Tokens \subseteq Held PROVE FALSE
        OBVIOUS
    <2>1. Cardinality(Tokens) <= Cardinality(Held)
        BY <1>3, FS_Subset
    <2>2. Cardinality(Held) \in Nat
        BY <1>3, FS_CardinalityType
    <2> HIDE DEF n, Held
    <2> QED BY <1>1, <1>3, <1>4, <2>1, <2>2
<1>6. \E t \in Tokens : \A c \in Accesses : t # lease[c].token /\ t # check[c].token
    BY <1>5
<1> QED BY <1>6 DEF Fresh

\* Zero and the limits are values of the clocks and counters of the schema.
LEMMA LimitsInRange ==
    /\ 0 \in 0 .. LoginLimit /\ LoginLimit \in 0 .. LoginLimit
    /\ 0 \in 0 .. CooldownTicks /\ CooldownTicks \in 0 .. CooldownTicks
    /\ 0 \in 0 .. LeaseTicks /\ LeaseTicks \in 0 .. LeaseTicks
    /\ 0 \in 0 .. TimeoutTicks /\ TimeoutTicks \in 0 .. TimeoutTicks
    /\ 0 \in 0 .. RetestTicks /\ RetestTicks \in 0 .. RetestTicks
BY AccessChecksAssumption

\* Interrupting a test, or ending its time, keeps its row, its token and the
\* fact that it is not queued.
LEMMA EndedTests ==
    ASSUME NEW k \in CheckRows
    PROVE  /\ TimedOut(k) \in CheckRows /\ Interrupted(k) \in CheckRows
           /\ TimedOut(k).token = k.token /\ Interrupted(k).token = k.token
           /\ TimedOut(k).status = "queued" => k.status = "queued"
           /\ Interrupted(k).status # "queued"
<1>1. ASSUME NEW s \in Active \cup {"none", "success", "failed", "cancelled"}, NEW b \in BOOLEAN
      PROVE  /\ [k EXCEPT !.status = s, !.timeout = b] \in CheckRows
             /\ [k EXCEPT !.status = s, !.timeout = b].token = k.token
             /\ [k EXCEPT !.status = s, !.timeout = b].status = s
    BY DEF CheckRows
<1>2. /\ TimedOut(k) \in CheckRows /\ TimedOut(k).token = k.token
      /\ TimedOut(k).status = "queued" => k.status = "queued"
    BY <1>1 DEF TimedOut, Active
<1> DEFINE late == k.timeout \/ (k.status = "running" /\ k.ttl = 0)
           s == IF k.status = "cancelling" /\ ~late THEN "cancelled" ELSE "failed"
<1>3. late \in BOOLEAN /\ s \in Active \cup {"none", "success", "failed", "cancelled"} /\ s # "queued"
    OBVIOUS
<1>4. Interrupted(k) = [k EXCEPT !.status = s, !.timeout = late]
    BY DEF Interrupted
<1> HIDE DEF late, s
<1>5. /\ [k EXCEPT !.status = s, !.timeout = late] \in CheckRows
      /\ [k EXCEPT !.status = s, !.timeout = late].token = k.token
      /\ [k EXCEPT !.status = s, !.timeout = late].status = s
    BY <1>1, <1>3
<1>6. /\ Interrupted(k) \in CheckRows /\ Interrupted(k).token = k.token
      /\ Interrupted(k).status # "queued"
    BY <1>3, <1>4, <1>5
<1> QED BY <1>2, <1>6

-----------------------------------------------------------------------------
(* Steps that open no session. *)

\* What a step that opens no session and starts no test may do to both tables.
NoNewSession ==
    \A c \in Accesses :
        /\ lease'[c].ttl > 0 =>
              /\ lease[c].ttl > 0
              /\ lease'[c].worker = lease[c].worker /\ lease'[c].token = lease[c].token
              /\ lease'[c].test = lease[c].test /\ lease'[c].secret = lease[c].secret
        /\ check'[c].token = check[c].token
        /\ check'[c].status = "queued" => check[c].status = "queued"

\* An access in use keeps its password and is not disabled, and one that has
\* reached the limit is out of use.
HealthKept ==
    \A c \in Accesses :
        /\ lease[c].ttl > 0 => access'[c].secret = access[c].secret
        /\ access'[c].status = "disabled" => access[c].status = "disabled" \/ ~(lease[c].ttl > 0)
        /\ access'[c].logins >= LoginLimit => access'[c].status \in {"invalid", "disabled"}

LEMMA QuietStep ==
    ASSUME AccessInv, TablesOK', NoNewSession, HealthKept
    PROVE  AccessInv'
<1>1. OneLeasePerWorker'
    BY DEF AccessInv, NoNewSession, OneLeasePerWorker, Live
<1>2. TestOwnsItsLease'
    BY DEF AccessInv, NoNewSession, TestOwnsItsLease, Live
<1>3. LiveSessionUsesCurrentPassword'
    BY DEF AccessInv, NoNewSession, HealthKept, LiveSessionUsesCurrentPassword, Live
<1>4. DisabledIsUnused'
    BY DEF AccessInv, NoNewSession, HealthKept, DisabledIsUnused, Live
<1>5. BlockedUntilFixed'
    BY DEF HealthKept, BlockedUntilFixed
<1> QED BY <1>1, <1>2, <1>3, <1>4, <1>5 DEF AccessInv

\* A step that leaves every access as it is keeps its health.
LEMMA SameHealth ==
    ASSUME AccessInv, UNCHANGED access
    PROVE  HealthKept
BY DEF AccessInv, BlockedUntilFixed, HealthKept

\* A renewed lease is a row of the table.
LEMMA LeaseFields ==
    ASSUME NEW l \in LeaseRows, NEW n \in 0 .. LeaseTicks, NEW b \in BOOLEAN
    PROVE  [l EXCEPT !.ttl = n, !.told = b] \in LeaseRows
BY DEF LeaseRows

LEMMA HeartbeatStep ==
    ASSUME AccessInv, NEW c \in Accesses, Heartbeat(c)
    PROVE  AccessInv'
<1> USE DEF AccessInv, TablesOK
<1> DEFINE k == IF lease[c].test /\ LiveCheckLease(c) THEN TimedOut(check[c]) ELSE check[c]
           b == lease[c].test /\ (k.token # lease[c].token \/ k.status # "running")
<1>1. /\ k \in CheckRows /\ k.token = check[c].token
      /\ k.status = "queued" => check[c].status = "queued"
    BY EndedTests
<1>2. b \in BOOLEAN
    BY DEF LeaseRows
<1>3. /\ check' = [check EXCEPT ![c] = k]
      /\ lease' = [lease EXCEPT ![c] = [lease[c] EXCEPT !.ttl = LeaseTicks, !.told = b]]
      /\ lease[c].ttl > 0 /\ UNCHANGED <<access, waiting, blocked>>
    BY DEF Heartbeat, Live
<1> HIDE DEF k, b
<1>4. TablesOK'
    BY <1>1, <1>2, <1>3, LeaseFields, LimitsInRange
<1>5. NoNewSession
    <2>1. /\ lease'[c].worker = lease[c].worker /\ lease'[c].token = lease[c].token
          /\ lease'[c].test = lease[c].test /\ lease'[c].secret = lease[c].secret
          /\ check'[c].token = check[c].token
          /\ check'[c].status = "queued" => check[c].status = "queued"
        <3>1. lease'[c] = [lease[c] EXCEPT !.ttl = LeaseTicks, !.told = b] /\ check'[c] = k
            BY <1>3
        <3>2. lease[c] \in LeaseRows
            OBVIOUS
        <3>3. /\ [lease[c] EXCEPT !.ttl = LeaseTicks, !.told = b].worker = lease[c].worker
              /\ [lease[c] EXCEPT !.ttl = LeaseTicks, !.told = b].token = lease[c].token
              /\ [lease[c] EXCEPT !.ttl = LeaseTicks, !.told = b].test = lease[c].test
              /\ [lease[c] EXCEPT !.ttl = LeaseTicks, !.told = b].secret = lease[c].secret
            BY <3>2 DEF LeaseRows
        <3> QED BY <1>1, <3>1, <3>3
    <2>2. \A d \in Accesses \ {c} : lease'[d] = lease[d] /\ check'[d] = check[d]
        BY <1>3
    <2> QED BY <1>3, <2>1, <2>2 DEF NoNewSession
<1> QED BY <1>3, <1>4, <1>5, QuietStep, SameHealth

LEMMA ReleaseStep ==
    ASSUME AccessInv, NEW c \in Accesses, Release(c)
    PROVE  AccessInv'
<1> USE DEF AccessInv, TablesOK
<1>1. NoLease \in LeaseRows /\ ~(NoLease.ttl > 0)
    BY LimitsInRange DEF LeaseRows, NoLease
<1>2. TablesOK'
    BY <1>1, EndedTests DEF Release
<1>3. NoNewSession
    BY <1>1, EndedTests DEF Release, NoNewSession
<1> QED BY <1>2, <1>3, QuietStep, SameHealth DEF Release

LEMMA SweepStep ==
    ASSUME AccessInv, NEW unlocked \in SUBSET Accesses, Sweep(unlocked)
    PROVE  AccessInv'
<1> USE DEF AccessInv, TablesOK
<1>1. TablesOK'
    BY EndedTests DEF Sweep, Swept
<1>2. NoNewSession
    BY EndedTests DEF Sweep, Swept, NoNewSession
<1> QED BY <1>1, <1>2, QuietStep, SameHealth DEF Sweep

\* A verdict about an access in use keeps the tables and its health.
LEMMA ReportKeeps ==
    ASSUME AccessInv, NEW c \in Accesses, NEW outcome \in Outcomes, NEW atLogin \in BOOLEAN,
           Live(c), Report(c, outcome, atLogin)
    PROVE  /\ access' \in [Accesses -> AccessRows]
           /\ blocked' \in 0 .. CooldownTicks
           /\ HealthKept
<1> USE DEF AccessInv, TablesOK
<1> DEFINE a == access[c]
           logins == IF atLogin /\ a.logins < LoginLimit THEN a.logins + 1 ELSE a.logins
<1>1. a \in AccessRows /\ a.logins \in 0 .. LoginLimit /\ a.secret \in Secrets
    BY DEF AccessRows
<1>2. logins \in 0 .. LoginLimit
    BY <1>1, AccessChecksAssumption
<1>3. a.logins >= LoginLimit => a.status \in {"invalid", "disabled"}
    BY DEF BlockedUntilFixed
<1>4. \A d \in Accesses : access[d].logins >= LoginLimit => access[d].status \in {"invalid", "disabled"}
    BY DEF BlockedUntilFixed
<1>5. a.status # "disabled"
    BY DEF DisabledIsUnused
<1> DEFINE Row(s, l, n) == [status |-> s, logins |-> l, wait |-> n, secret |-> a.secret]
<1>6. ASSUME NEW s \in {"active", "cooldown", "invalid", "disabled"}, NEW l \in 0 .. LoginLimit,
             NEW n \in 0 .. CooldownTicks
      PROVE  Row(s, l, n) \in AccessRows
    BY <1>1 DEF AccessRows
<1>7. PICK row \in AccessRows :
        /\ access' = [access EXCEPT ![c] = row]
        /\ row.secret = a.secret /\ row.status # "disabled"
        /\ row.logins >= LoginLimit => row.status = "invalid"
    <2>1. LoginLimit \in Nat \ {0}
        BY AccessChecksAssumption
    <2>2. CASE outcome = "success"
        <3>1. access' = [access EXCEPT ![c] = Row("active", 0, 0)]
            BY <2>2 DEF Report
        <3>2. Row("active", 0, 0) \in AccessRows
            BY <1>6, LimitsInRange
        <3>3. ~(Row("active", 0, 0).logins >= LoginLimit)
            BY <2>1
        <3> QED BY <3>1, <3>2, <3>3
    <2>3. CASE outcome = "unavailable"
        <3>1. access' = [access EXCEPT ![c] = a]
            BY <2>3 DEF Report
        <3> QED BY <1>1, <1>3, <1>5, <3>1
    <2> HIDE DEF logins
    <2>4. CASE /\ outcome \notin {"success", "unavailable"}
               /\ outcome = "invalid_credentials" \/
                    (outcome = "transient_failure" /\ logins >= LoginLimit)
        <3>1. access' = [access EXCEPT ![c] = Row("invalid", logins, 0)]
            BY <2>4 DEF Report, logins
        <3>2. Row("invalid", logins, 0) \in AccessRows
            BY <1>2, <1>6, LimitsInRange
        <3> QED BY <3>1, <3>2
    <2>5. CASE /\ outcome \notin {"success", "unavailable", "invalid_credentials"}
               /\ ~(outcome = "transient_failure" /\ logins >= LoginLimit)
        <3>1. access' = [access EXCEPT ![c] = Row("cooldown", logins, CooldownTicks)]
            BY <2>5 DEF Report, logins
        <3>2. Row("cooldown", logins, CooldownTicks) \in AccessRows
            BY <1>2, <1>6, LimitsInRange
        <3>3. ~(logins >= LoginLimit)
            BY <2>5 DEF Outcomes
        <3> QED BY <3>1, <3>2, <3>3
    <2> QED BY <2>2, <2>3, <2>4, <2>5 DEF Outcomes
<1>8. access' \in [Accesses -> AccessRows]
    BY <1>7
<1>9. HealthKept
    BY <1>4, <1>7 DEF HealthKept
<1>10. blocked' \in 0 .. CooldownTicks
    BY LimitsInRange DEF Report
<1> QED BY <1>8, <1>9, <1>10

LEMMA ReportAccessStep ==
    ASSUME AccessInv, NEW c \in Accesses, NEW outcome \in Outcomes, NEW atLogin \in BOOLEAN,
           ReportAccess(c, outcome, atLogin)
    PROVE  AccessInv'
<1>1. Live(c) /\ Report(c, outcome, atLogin) /\ UNCHANGED <<lease, check>>
    BY DEF ReportAccess
<1>2. /\ access' \in [Accesses -> AccessRows] /\ blocked' \in 0 .. CooldownTicks
      /\ HealthKept
    BY <1>1, ReportKeeps
<1>3. TablesOK' /\ NoNewSession
    BY <1>1, <1>2 DEF AccessInv, TablesOK, NoNewSession
<1> QED BY <1>2, <1>3, QuietStep

LEMMA CompleteStep ==
    ASSUME AccessInv, NEW c \in Accesses, NEW outcome \in Outcomes, Complete(c, outcome)
    PROVE  AccessInv'
<1> USE DEF AccessInv, TablesOK
<1>1. CASE check[c].ttl = 0 /\ check' = [check EXCEPT ![c] = TimedOut(@)] /\ UNCHANGED <<access, lease, blocked>>
    <2>1. TablesOK' /\ NoNewSession
        BY <1>1, EndedTests DEF NoNewSession
    <2> QED BY <1>1, <2>1, QuietStep, SameHealth
<1>2. CASE /\ LiveCheckLease(c) /\ Report(c, outcome, TRUE) /\ UNCHANGED lease
           /\ check' = [check EXCEPT ![c].status = IF outcome = "success" THEN "success" ELSE "failed"]
    <2>1. /\ access' \in [Accesses -> AccessRows] /\ blocked' \in 0 .. CooldownTicks
          /\ HealthKept
        BY <1>2, ReportKeeps DEF LiveCheckLease
    <2>2. check' \in [Accesses -> CheckRows]
        BY <1>2 DEF CheckRows
    <2>3. NoNewSession
        BY <1>2 DEF NoNewSession, CheckRows
    <2> QED BY <1>2, <2>1, <2>2, <2>3, QuietStep
<1> QED BY <1>1, <1>2 DEF Complete

LEMMA RequestCheckStep ==
    ASSUME AccessInv, NEW c \in Accesses, RequestCheck(c)
    PROVE  AccessInv'
<1> USE DEF AccessInv, TablesOK
<1> DEFINE k == [NoCheck EXCEPT !.status = "queued", !.wait = RetestTicks]
<1>1. k \in CheckRows
    BY LimitsInRange DEF NoCheck, CheckRows, Active
<1> HIDE DEF k
<1>2. check' = [check EXCEPT ![c] = k] /\ UNCHANGED <<access, lease, blocked>>
    BY DEF RequestCheck, k
<1>3. Live(c) => ~lease[c].test
    BY DEF RequestCheck, MayTest, LiveCheckLease, TestOwnsItsLease
<1>4. TablesOK'
    BY <1>1, <1>2
<1>5. TestOwnsItsLease'
    BY <1>2, <1>3 DEF TestOwnsItsLease, Live
<1> QED BY <1>2, <1>4, <1>5
        DEF OneLeasePerWorker, LiveSessionUsesCurrentPassword, DisabledIsUnused, BlockedUntilFixed, Live

LEMMA CancelCheckStep ==
    ASSUME AccessInv, NEW c \in Accesses, CancelCheck(c)
    PROVE  AccessInv'
<1> USE DEF AccessInv, TablesOK
<1>1. /\ check' = [check EXCEPT ![c].status = IF LiveCheckLease(c) THEN "cancelling" ELSE "cancelled"]
      /\ UNCHANGED <<access, lease, blocked>>
    BY DEF CancelCheck
<1>2. TablesOK'
    BY <1>1 DEF CheckRows, Active
<1>3. NoNewSession
    BY <1>1 DEF NoNewSession, CheckRows
<1> QED BY <1>1, <1>2, <1>3, QuietStep, SameHealth

LEMMA ToggleStep ==
    ASSUME AccessInv, NEW c \in Accesses, Toggle(c)
    PROVE  AccessInv'
<1> USE DEF AccessInv, TablesOK
<1> DEFINE s == IF access[c].status # "disabled" THEN "disabled"
                ELSE IF access[c].logins >= LoginLimit THEN "invalid" ELSE "active"
<1>1. /\ access' = [access EXCEPT ![c].status = s]
      /\ ~(lease[c].ttl > 0) /\ UNCHANGED <<lease, check, blocked>>
    BY DEF Toggle, Live
<1>2. /\ s \in {"disabled", "invalid", "active"}
      /\ access[c].logins >= LoginLimit => s \in {"invalid", "disabled"}
    OBVIOUS
<1> HIDE DEF s
<1>3. TablesOK'
    BY <1>1, <1>2 DEF AccessRows
<1>4. /\ access'[c].status = s /\ access'[c].logins = access[c].logins
      /\ \A d \in Accesses \ {c} : access'[d] = access[d]
    BY <1>1 DEF AccessRows
<1>5. HealthKept
    BY <1>1, <1>2, <1>4 DEF HealthKept, BlockedUntilFixed
<1>6. NoNewSession
    BY <1>1 DEF NoNewSession
<1> QED BY <1>3, <1>5, <1>6, QuietStep

LEMMA EditStep ==
    ASSUME AccessInv, NEW c \in Accesses, NEW secret \in Secrets, Edit(c, secret)
    PROVE  AccessInv'
<1> USE DEF AccessInv, TablesOK
<1> DEFINE row == [status |-> "active", logins |-> 0, wait |-> 0, secret |-> secret]
<1>1. /\ row \in AccessRows /\ row.status = "active" /\ ~(row.logins >= LoginLimit)
    BY LimitsInRange, AccessChecksAssumption DEF AccessRows
<1> HIDE DEF row
<1>2. /\ access' = [access EXCEPT ![c] = row]
      /\ ~(lease[c].ttl > 0) /\ UNCHANGED <<lease, check, blocked>>
    BY DEF Edit, Live, row
<1>3. TablesOK'
    BY <1>1, <1>2
<1>4. HealthKept
    BY <1>1, <1>2 DEF HealthKept, BlockedUntilFixed
<1>5. NoNewSession
    BY <1>2 DEF NoNewSession
<1> QED BY <1>3, <1>4, <1>5, QuietStep

\* Counting down stays in range and never brings a clock back.
LEMMA LessInRange ==
    ASSUME NEW limit \in Nat, NEW n \in 0 .. limit
    PROVE  Less(n) \in 0 .. limit /\ (Less(n) > 0 => n > 0)
BY DEF Less

LEMMA TickStep ==
    ASSUME AccessInv, Tick
    PROVE  AccessInv'
<1> USE DEF AccessInv, TablesOK
<1>1. ASSUME NEW c \in Accesses
      PROVE  /\ access'[c] \in AccessRows
             /\ access'[c].status = access[c].status /\ access'[c].logins = access[c].logins
             /\ access'[c].secret = access[c].secret
    <2>1. access'[c] = [access[c] EXCEPT !.wait = Less(@)] /\ access[c] \in AccessRows
        BY DEF Tick
    <2>2. Less(access[c].wait) \in 0 .. CooldownTicks
        BY <2>1, LessInRange, AccessChecksAssumption DEF AccessRows
    <2> QED BY <2>1, <2>2 DEF AccessRows
<1>2. ASSUME NEW c \in Accesses
      PROVE  /\ lease'[c] \in LeaseRows
             /\ lease'[c].ttl > 0 => lease[c].ttl > 0
             /\ lease'[c].worker = lease[c].worker /\ lease'[c].token = lease[c].token
             /\ lease'[c].test = lease[c].test /\ lease'[c].secret = lease[c].secret
    <2>1. lease'[c] = [lease[c] EXCEPT !.ttl = Less(@)] /\ lease[c] \in LeaseRows
        BY DEF Tick
    <2>2. Less(lease[c].ttl) \in 0 .. LeaseTicks /\ (Less(lease[c].ttl) > 0 => lease[c].ttl > 0)
        BY <2>1, LessInRange, AccessChecksAssumption DEF LeaseRows
    <2> QED BY <2>1, <2>2 DEF LeaseRows
<1>3. ASSUME NEW c \in Accesses
      PROVE  /\ check'[c] \in CheckRows
             /\ check'[c].token = check[c].token /\ check'[c].status = check[c].status
    <2>1. check'[c] = [check[c] EXCEPT !.ttl = Less(@), !.wait = Less(@)] /\ check[c] \in CheckRows
        BY DEF Tick
    <2>2. Less(check[c].ttl) \in 0 .. TimeoutTicks /\ Less(check[c].wait) \in 0 .. RetestTicks
        BY <2>1, LessInRange, AccessChecksAssumption DEF CheckRows
    <2> QED BY <2>1, <2>2 DEF CheckRows
<1>4. blocked' \in 0 .. CooldownTicks
    BY LessInRange, AccessChecksAssumption DEF Tick
<1>5. access' = [c \in Accesses |-> access'[c]] /\ lease' = [c \in Accesses |-> lease'[c]]
      /\ check' = [c \in Accesses |-> check'[c]]
    BY DEF Tick
<1>6. TablesOK'
    BY <1>1, <1>2, <1>3, <1>4, <1>5
<1>7. HealthKept
    BY <1>1 DEF HealthKept, BlockedUntilFixed
<1>8. NoNewSession
    BY <1>2, <1>3 DEF NoNewSession
<1> QED BY <1>6, <1>7, <1>8, QuietStep
-----------------------------------------------------------------------------
(* Steps that open a session. *)

\* A worker without a session that reserves a free access that is not disabled
\* gets a session with the stored password, and nobody else's changes.
LEMMA NewSession ==
    ASSUME AccessInv, NEW w \in Workers, NEW c \in Accesses, NEW test \in BOOLEAN,
           ~Busy(w), lease' = Reserved(w, c, test), access[c].status # "disabled",
           \A d \in Accesses : access'[d].secret = access[d].secret,
           \A d \in Accesses : access'[d].status = "disabled" => access[d].status = "disabled"
    PROVE  /\ lease' \in [Accesses -> LeaseRows]
           /\ lease'[c].token = Fresh /\ lease'[c].test = test
           /\ \A d \in Accesses \ {c} : lease'[d].ttl > 0 => lease'[d] = lease[d]
           /\ OneLeasePerWorker'
           /\ LiveSessionUsesCurrentPassword'
           /\ DisabledIsUnused'
<1>1. TablesOK
    BY DEF AccessInv
<1>2. /\ lease' \in [Accesses -> LeaseRows]
      /\ lease'[c].worker = w /\ lease'[c].secret = access[c].secret
      /\ lease'[c].token = Fresh /\ lease'[c].test = test
      /\ \A d \in Accesses \ {c} : lease'[d].ttl > 0 => lease'[d] = lease[d]
    <2> DEFINE row == [worker |-> w, token |-> Fresh, test |-> test, ttl |-> LeaseTicks,
                       secret |-> access[c].secret, told |-> FALSE]
    <2>1. access[c].secret \in Secrets
        BY <1>1 DEF TablesOK, AccessRows
    <2>2. /\ row \in LeaseRows /\ row.worker = w /\ row.secret = access[c].secret
          /\ row.token = Fresh /\ row.test = test
        BY <2>1, FreshToken, LimitsInRange DEF LeaseRows
    <2>3. NoLease \in LeaseRows /\ ~(NoLease.ttl > 0)
        BY LimitsInRange DEF LeaseRows, NoLease
    <2>4. lease' = [d \in Accesses |-> IF d = c THEN row
                                       ELSE IF lease[d].worker = w /\ ~Live(d) THEN NoLease ELSE lease[d]]
        BY DEF Reserved
    <2> HIDE DEF row
    <2> QED BY <1>1, <2>2, <2>3, <2>4 DEF TablesOK
<1>3. \A d \in Accesses : lease[d].ttl > 0 => lease[d].worker # w
    BY DEF Busy, Live
<1>4. OneLeasePerWorker'
    BY <1>2, <1>3 DEF AccessInv, OneLeasePerWorker, Live
<1>5. LiveSessionUsesCurrentPassword'
    BY <1>2 DEF AccessInv, LiveSessionUsesCurrentPassword, Live
<1>6. DisabledIsUnused'
    BY <1>2 DEF AccessInv, DisabledIsUnused, Live
<1> QED BY <1>2, <1>4, <1>5, <1>6

LEMMA AcquireStep ==
    ASSUME AccessInv, NEW w \in Workers, NEW c \in Accesses, Acquire(w, c)
    PROVE  AccessInv'
<1>1. TablesOK /\ access[c] \in AccessRows
    BY DEF AccessInv, TablesOK
<1>2. /\ ~Busy(w) /\ lease' = Reserved(w, c, FALSE) /\ UNCHANGED <<check, blocked>>
      /\ access' = [access EXCEPT ![c].status = "active", ![c].wait = 0]
      /\ access[c].status \in {"active", "cooldown"}
    BY DEF Acquire, Usable
<1>3. /\ access'[c] \in AccessRows /\ access'[c].status = "active"
      /\ access'[c].secret = access[c].secret /\ access'[c].logins = access[c].logins
      /\ access' = [access EXCEPT ![c] = access'[c]]
    <2>1. access'[c] = [access[c] EXCEPT !.status = "active", !.wait = 0]
        BY <1>1, <1>2 DEF TablesOK
    <2>2. access' = [access EXCEPT ![c] = access'[c]]
        BY <1>1, <1>2 DEF TablesOK
    <2> QED BY <1>1, <2>1, <2>2, LimitsInRange DEF AccessRows
<1>4. \A d \in Accesses : /\ access'[d].secret = access[d].secret
                          /\ access'[d].status = "disabled" => access[d].status = "disabled"
    BY <1>1, <1>3 DEF TablesOK
<1>5. /\ lease' \in [Accesses -> LeaseRows] /\ OneLeasePerWorker'
      /\ LiveSessionUsesCurrentPassword' /\ DisabledIsUnused'
      /\ lease'[c].test = FALSE
      /\ \A d \in Accesses \ {c} : lease'[d].ttl > 0 => lease'[d] = lease[d]
    BY <1>2, <1>4, NewSession
<1>6. TablesOK'
    BY <1>1, <1>2, <1>3, <1>5 DEF TablesOK
<1>7. TestOwnsItsLease'
    BY <1>2, <1>5 DEF AccessInv, TestOwnsItsLease, Live
<1>8. BlockedUntilFixed'
    BY <1>1, <1>2, <1>3 DEF AccessInv, BlockedUntilFixed, TablesOK
<1> QED BY <1>5, <1>6, <1>7, <1>8 DEF AccessInv

\* A claim gives up queued tests of disabled accesses and starts the test of a
\* free access, if its worker has no session.
LEMMA ClaimCheckEffect ==
    ASSUME NEW w, NEW unlocked, ClaimCheck(w, unlocked)
    PROVE  \E dead, taken \in SUBSET Accesses :
            /\ \A c \in dead : access[c].status = "disabled"
            /\ \A c \in taken : access[c].status # "disabled" /\ ~Live(c) /\ ~Busy(w)
            /\ check' = [c \in Accesses |->
                            IF c \in dead THEN [check[c] EXCEPT !.status = "failed"]
                            ELSE IF c \in taken
                            THEN [status |-> "running", worker |-> w, token |-> Fresh, ttl |-> TimeoutTicks,
                                  timeout |-> FALSE, wait |-> check[c].wait]
                            ELSE Swept(unlocked)[c]]
            /\ lease' = IF taken = {} THEN lease ELSE Reserved(w, CHOOSE c \in taken : TRUE, TRUE)
            /\ UNCHANGED <<access, blocked>>
<1> DEFINE rows  == SelectSeq(waiting, LAMBDA c : c \in unlocked)
           seen  == SubSeq(rows, 1, IF Len(rows) < Window THEN Len(rows) ELSE Window)
           free  == {i \in DOMAIN seen : access[seen[i]].status # "disabled" /\ ~Live(seen[i])}
           first == {i \in free : \A j \in free : i <= j}
           dead  == {c \in Accesses : access[c].status = "disabled"
                                     /\ \E i \in DOMAIN seen : seen[i] = c /\ \A j \in free : i < j}
           taken == {c \in Accesses : ~Busy(w) /\ \E i \in first : seen[i] = c}
<1>1. \A c \in dead : access[c].status = "disabled"
    OBVIOUS
<1>2. \A c \in taken : access[c].status # "disabled" /\ ~Live(c) /\ ~Busy(w)
    OBVIOUS
<1>3. /\ check' = [c \in Accesses |->
                        IF c \in dead THEN [check[c] EXCEPT !.status = "failed"]
                        ELSE IF c \in taken
                        THEN [status |-> "running", worker |-> w, token |-> Fresh, ttl |-> TimeoutTicks,
                              timeout |-> FALSE, wait |-> check[c].wait]
                        ELSE Swept(unlocked)[c]]
      /\ lease' = IF taken = {} THEN lease ELSE Reserved(w, CHOOSE c \in taken : TRUE, TRUE)
      /\ UNCHANGED <<access, blocked>>
    BY Zenon DEF ClaimCheck
<1>4. dead \in SUBSET Accesses /\ taken \in SUBSET Accesses
    OBVIOUS
<1> HIDE DEF dead, taken
<1> QED BY <1>1, <1>2, <1>3, <1>4

LEMMA ClaimCheckStep ==
    ASSUME AccessInv, NEW w \in Workers, NEW unlocked \in SUBSET Accesses, ClaimCheck(w, unlocked)
    PROVE  AccessInv'
<1>1. TablesOK
    BY DEF AccessInv
<1>2. PICK dead \in SUBSET Accesses, taken \in SUBSET Accesses :
        /\ \A c \in dead : access[c].status = "disabled"
        /\ \A c \in taken : access[c].status # "disabled" /\ ~Live(c) /\ ~Busy(w)
        /\ check' = [c \in Accesses |->
                        IF c \in dead THEN [check[c] EXCEPT !.status = "failed"]
                        ELSE IF c \in taken
                        THEN [status |-> "running", worker |-> w, token |-> Fresh, ttl |-> TimeoutTicks,
                              timeout |-> FALSE, wait |-> check[c].wait]
                        ELSE Swept(unlocked)[c]]
        /\ lease' = IF taken = {} THEN lease ELSE Reserved(w, CHOOSE c \in taken : TRUE, TRUE)
        /\ UNCHANGED <<access, blocked>>
    BY ClaimCheckEffect
<1>3. ASSUME NEW c \in Accesses
      PROVE  /\ check'[c] \in CheckRows
             /\ c \notin taken => /\ check'[c].token = check[c].token
                                  /\ check'[c].status = "queued" => check[c].status = "queued"
             /\ c \in taken => check'[c].token = Fresh /\ check'[c].status = "running"
    <2>1. check[c] \in CheckRows
        BY <1>1 DEF TablesOK
    <2>2. CASE c \in dead
        <3>1. check'[c] = [check[c] EXCEPT !.status = "failed"] /\ c \notin taken
            BY <1>2, <2>2
        <3> QED BY <2>1, <3>1 DEF CheckRows
    <2>3. CASE c \in taken
        <3>1. check'[c] = [status |-> "running", worker |-> w, token |-> Fresh, ttl |-> TimeoutTicks,
                           timeout |-> FALSE, wait |-> check[c].wait]
            BY <1>2, <2>3
        <3>2. check[c].wait \in 0 .. RetestTicks
            BY <2>1 DEF CheckRows
        <3> QED BY <2>3, <3>1, <3>2, FreshToken, LimitsInRange DEF CheckRows, Active
    <2>4. CASE c \notin dead \cup taken
        <3>1. check'[c] = Swept(unlocked)[c]
            BY <1>2, <2>4
        <3> QED BY <2>1, <2>4, <3>1, EndedTests DEF Swept
    <2> QED BY <2>2, <2>3, <2>4
<1>4. check' \in [Accesses -> CheckRows]
    <2>1. check' = [c \in Accesses |-> check'[c]]
        BY <1>2
    <2> QED BY <1>3, <2>1
<1>5. HealthKept
    BY <1>2, SameHealth
<1>6. CASE taken = {}
    <2>1. TablesOK'
        BY <1>1, <1>2, <1>4, <1>6 DEF TablesOK
    <2>2. NoNewSession
        BY <1>2, <1>3, <1>6 DEF NoNewSession
    <2> QED BY <1>5, <2>1, <2>2, QuietStep
<1>7. CASE taken # {}
    <2> DEFINE c == CHOOSE x \in taken : TRUE
    <2>1. c \in taken /\ c \in Accesses
        BY <1>7
    <2>2. lease' = Reserved(w, c, TRUE)
        BY <1>2, <1>7
    <2> HIDE DEF c
    <2>3. access[c].status # "disabled" /\ ~Live(c) /\ ~Busy(w) /\ UNCHANGED <<access, blocked>>
        BY <1>2, <2>1
    <2>4. /\ lease' \in [Accesses -> LeaseRows]
          /\ lease'[c].token = Fresh /\ lease'[c].test = TRUE
          /\ \A d \in Accesses \ {c} : lease'[d].ttl > 0 => lease'[d] = lease[d]
          /\ OneLeasePerWorker' /\ LiveSessionUsesCurrentPassword' /\ DisabledIsUnused'
        BY <2>1, <2>2, <2>3, NewSession
    <2>5. TablesOK'
        BY <1>1, <1>4, <2>3, <2>4 DEF TablesOK
    <2>6. TestOwnsItsLease'
        <3>1. check'[c].token = Fresh /\ check'[c].status = "running"
            BY <1>3, <2>1
        <3>2. ASSUME NEW d \in Accesses \ {c}, lease'[d].ttl > 0
              PROVE  lease'[d] = lease[d] /\ d \notin taken
            BY <1>2, <2>4, <3>2 DEF Live
        <3>3. \A d \in Accesses : lease[d].ttl > 0 /\ lease[d].test =>
                    lease[d].token = check[d].token /\ check[d].status # "queued"
            BY DEF AccessInv, TestOwnsItsLease, Live
        <3> QED BY <1>3, <2>4, <3>1, <3>2, <3>3 DEF TestOwnsItsLease, Live
    <2>7. BlockedUntilFixed'
        BY <2>3 DEF AccessInv, BlockedUntilFixed
    <2> QED BY <2>4, <2>5, <2>6, <2>7 DEF AccessInv
<1> QED BY <1>6, <1>7
-----------------------------------------------------------------------------
LEMMA AccessInvInit == Init => AccessInv
<1> SUFFICES ASSUME Init PROVE AccessInv
    OBVIOUS
<1> DEFINE s == CHOOSE s \in Secrets : TRUE
<1>1. s \in Secrets
    BY AccessChecksAssumption
<1> HIDE DEF s
<1>2. /\ access = [c \in Accesses |-> [status |-> "active", logins |-> 0, wait |-> 0, secret |-> s]]
      /\ lease = [c \in Accesses |-> NoLease] /\ check = [c \in Accesses |-> NoCheck] /\ blocked = 0
    BY DEF Init, s
<1>3. NoLease \in LeaseRows /\ NoCheck \in CheckRows /\ ~(NoLease.ttl > 0)
    BY LimitsInRange DEF NoLease, LeaseRows, NoCheck, CheckRows
<1>4. TablesOK
    BY <1>1, <1>2, <1>3, LimitsInRange DEF TablesOK, AccessRows
<1>5. \A c \in Accesses : ~Live(c) /\ access[c].status = "active" /\ ~(access[c].logins >= LoginLimit)
    BY <1>2, <1>3, AccessChecksAssumption DEF Live
<1> QED BY <1>4, <1>5 DEF AccessInv, OneLeasePerWorker, TestOwnsItsLease,
            LiveSessionUsesCurrentPassword, DisabledIsUnused, BlockedUntilFixed

LEMMA AccessInvStep == AccessInv /\ [Next]_vars => AccessInv'
<1> SUFFICES ASSUME AccessInv, [Next]_vars PROVE AccessInv'
    OBVIOUS
<1>1. ASSUME NEW w \in Workers, Requests(w) PROVE AccessInv'
    BY <1>1, AcquireStep, ClaimCheckStep DEF Requests
<1>2. ASSUME NEW c \in Accesses, Sessions(c) PROVE AccessInv'
    BY <1>2, HeartbeatStep, ReleaseStep, CompleteStep, ReportAccessStep DEF Sessions
<1>3. ASSUME NEW c \in Accesses, Operator(c) PROVE AccessInv'
    BY <1>3, RequestCheckStep, CancelCheckStep, ToggleStep, EditStep DEF Operator
<1>4. ASSUME NEW unlocked \in SUBSET Accesses, Sweep(unlocked) PROVE AccessInv'
    BY <1>4, SweepStep
<1>5. CASE UNCHANGED vars
    BY <1>5 DEF vars, AccessInv, TablesOK, OneLeasePerWorker, TestOwnsItsLease, Live,
                LiveSessionUsesCurrentPassword, DisabledIsUnused, BlockedUntilFixed
<1> QED BY <1>1, <1>2, <1>3, <1>4, <1>5, TickStep DEF Next

\* Reservations, tests and health agree in every reachable state.
THEOREM AccessesAreSafe == Spec => []AccessInv
BY AccessInvInit, AccessInvStep, PTL DEF Spec

\* A worker never holds two live reservations (access_checks.py:227,
\* acquire_credential), so it never runs two portal sessions.
THEOREM WorkersHoldOneAccess == Spec => []OneLeasePerWorker
<1>1. AccessInv => OneLeasePerWorker
    BY DEF AccessInv
<1> QED BY <1>1, AccessesAreSafe, PTL

\* No second test of an access is accepted or started while the session of the
\* first is open (access_checks.py:104-105).
THEOREM TestsOwnTheirLeases == Spec => []TestOwnsItsLease
<1>1. AccessInv => TestOwnsItsLease
    BY DEF AccessInv
<1> QED BY <1>1, AccessesAreSafe, PTL

\* A password is never replaced under an open session (services.py:233-239).
THEOREM SessionsUseTheStoredPassword == Spec => []LiveSessionUsesCurrentPassword
<1>1. AccessInv => LiveSessionUsesCurrentPassword
    BY DEF AccessInv
<1> QED BY <1>1, AccessesAreSafe, PTL

\* Disabling and reserving an access exclude each other (web.py:1361-1368).
THEOREM DisabledAccessesAreUnused == Spec => []DisabledIsUnused
<1>1. AccessInv => DisabledIsUnused
    BY DEF AccessInv
<1> QED BY <1>1, AccessesAreSafe, PTL

\* An access blocked by unconfirmed logins stays out of use until a fix or a
\* good login (queue.py:509-518, web.py:1375).
THEOREM BlockedAccessesStayBlocked == Spec => []BlockedUntilFixed
<1>1. AccessInv => BlockedUntilFixed
    BY DEF AccessInv
<1> QED BY <1>1, AccessesAreSafe, PTL
-----------------------------------------------------------------------------
(* Cancelled and late tests. *)

\* The health of c may change in this step.
MayJudge(c) == ~(Live(c) /\ lease[c].test) \/ (check[c].status = "running" /\ check[c].ttl > 0)
HealthChanged(c) == access'[c].status # access[c].status \/ access'[c].logins # access[c].logins

\* A step that touches the row of one access, which it may judge.
LEMMA OneJudged ==
    ASSUME TablesOK, NEW d \in Accesses, MayJudge(d),
           \A c \in Accesses \ {d} : access'[c] = access[c]
    PROVE  \A c \in Accesses : HealthChanged(c) => MayJudge(c)
BY DEF HealthChanged

LEMMA JudgedInTime ==
    ASSUME TablesOK, [Next]_vars
    PROVE  \A c \in Accesses : HealthChanged(c) => MayJudge(c)
<1> USE DEF TablesOK
<1>1. ASSUME UNCHANGED access PROVE \A c \in Accesses : HealthChanged(c) => MayJudge(c)
    BY <1>1 DEF HealthChanged
<1>2. ASSUME NEW w \in Workers, Requests(w) PROVE \A c \in Accesses : HealthChanged(c) => MayJudge(c)
    <2>1. ASSUME NEW d \in Accesses, Acquire(w, d)
          PROVE  MayJudge(d) /\ \A c \in Accesses \ {d} : access'[c] = access[c]
        BY <2>1 DEF Acquire, MayJudge
    <2>2. ASSUME NEW unlocked \in SUBSET Accesses, ClaimCheck(w, unlocked) PROVE UNCHANGED access
        BY <2>2 DEF ClaimCheck
    <2> QED BY <1>1, <1>2, <2>1, <2>2, OneJudged DEF Requests
<1>3. ASSUME NEW d \in Accesses, Sessions(d) PROVE \A c \in Accesses : HealthChanged(c) => MayJudge(c)
    <2>1. ASSUME NEW outcome \in Outcomes, NEW atLogin \in BOOLEAN, Report(d, outcome, atLogin)
          PROVE  \A c \in Accesses \ {d} : access'[c] = access[c]
        BY <2>1 DEF Report
    <2>2. ASSUME NEW outcome \in Outcomes, NEW atLogin \in BOOLEAN, ReportAccess(d, outcome, atLogin)
          PROVE  MayJudge(d) /\ \A c \in Accesses \ {d} : access'[c] = access[c]
        BY <2>1, <2>2 DEF ReportAccess, MayJudge
    <2>3. ASSUME NEW outcome \in Outcomes, Complete(d, outcome)
          PROVE  UNCHANGED access \/ (MayJudge(d) /\ \A c \in Accesses \ {d} : access'[c] = access[c])
        BY <2>1, <2>3 DEF Complete, MayJudge
    <2>4. ASSUME Heartbeat(d) \/ Release(d) PROVE UNCHANGED access
        BY <2>4 DEF Heartbeat, Release
    <2> QED BY <1>1, <1>3, <2>2, <2>3, <2>4, OneJudged DEF Sessions
<1>4. ASSUME NEW d \in Accesses, Operator(d) PROVE \A c \in Accesses : HealthChanged(c) => MayJudge(c)
    <2>1. ASSUME RequestCheck(d) \/ CancelCheck(d) PROVE UNCHANGED access
        BY <2>1 DEF RequestCheck, CancelCheck
    <2>2. ASSUME Toggle(d) \/ \E secret \in Secrets : Edit(d, secret)
          PROVE  MayJudge(d) /\ \A c \in Accesses \ {d} : access'[c] = access[c]
        BY <2>2 DEF Toggle, Edit, MayJudge
    <2> QED BY <1>1, <1>4, <2>1, <2>2, OneJudged DEF Operator
<1>5. ASSUME NEW unlocked \in SUBSET Accesses, Sweep(unlocked) PROVE UNCHANGED access
    BY <1>5 DEF Sweep
<1>6. ASSUME Tick PROVE \A c \in Accesses : ~HealthChanged(c)
    <2> SUFFICES ASSUME NEW c \in Accesses PROVE ~HealthChanged(c)
        OBVIOUS
    <2>1. access'[c] = [access[c] EXCEPT !.wait = Less(@)] /\ access[c] \in AccessRows
        BY <1>6 DEF Tick
    <2> QED BY <2>1 DEF HealthChanged, AccessRows
<1>7. ASSUME UNCHANGED vars PROVE UNCHANGED access
    BY <1>7 DEF vars
<1> QED BY <1>1, <1>2, <1>3, <1>4, <1>5, <1>6, <1>7 DEF Next

\* While an access is reserved for a test its health changes only by a verdict
\* given in time and before anyone asked the test to stop: cancellation wins
\* the race with a late login response (access_checks.py:262-270).
THEOREM CancellationsWin == Spec => CancelWins
<1>1. AccessInv /\ [Next]_vars =>
        [\A c \in Accesses :
            access'[c].status # access[c].status \/ access'[c].logins # access[c].logins =>
                ~(Live(c) /\ lease[c].test) \/ (check[c].status = "running" /\ check[c].ttl > 0)]_vars
    BY JudgedInTime DEF AccessInv, HealthChanged, MayJudge
<1> QED BY <1>1, AccessesAreSafe, PTL DEF Spec, CancelWins
=============================================================================
