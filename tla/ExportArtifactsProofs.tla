----------------------- MODULE ExportArtifactsProofs -----------------------
(***************************************************************************)
(* Proofs about the exports of a job, for any number of requests,          *)
(* builders, generations, rows and attempts, and for locks of any length.  *)
(***************************************************************************)
EXTENDS ExportArtifacts, FiniteSetTheorems, TLAPS

ArtifactStates ==
    [status : {"queued", "building", "ready", "failed"}, attempts : 0 .. MaxAttempts,
     lock : {0} \cup Tokens, ttl : 0 .. LockTicks, path : {0} \cup Tokens]

Jobs == [status : Statuses, version : 1 .. MaxVersion, rows : 0 .. MaxRows]
Loads == {None, Answered} \cup [version : 1 .. MaxVersion, status : Statuses]
Hands == {Idle} \cup [key : Keys, token : Tokens, step : {"render", "write", "publish"}]

TypeOK ==
    /\ job \in Jobs
    /\ loaded \in [DOMAIN loaded -> Loads]
    /\ Requested \subseteq Keys
    /\ artifact \in [Requested -> ArtifactStates]
    /\ DOMAIN file \subseteq Keys \X Tokens
    /\ file \in [DOMAIN file -> BOOLEAN]
    /\ hand \in [Builders -> Hands]

Works(b) == hand[b] # Idle

\* A builder works for an artifact that was asked for, in a file that is neither
\* another builder's nor the one its artifact was published in.
TokensAreApart ==
    /\ \A b \in Builders : Works(b) => hand[b].key \in Requested
    /\ \A b, c \in Builders : Works(b) /\ Works(c) /\ File(b) = File(c) => b = c
    /\ \A b \in Builders : Works(b) => artifact[hand[b].key].path # hand[b].token

\* A ready artifact has a path and no lock, and no other one has a path.
ReadyIsAtRest ==
    \A k \in Requested :
        IF artifact[k].status = "ready"
        THEN artifact[k].lock = 0 /\ artifact[k].ttl = 0 /\ artifact[k].path # 0
        ELSE artifact[k].path = 0

\* What a builder is about to publish has been written.
WrittenBeforePublished ==
    \A b \in Builders : hand[b].step = "publish" => File(b) \in DOMAIN file /\ file[File(b)]

\* Every file is the one of a ready artifact or of a builder at work.
FilesAreOwned ==
    \A f \in DOMAIN file : \/ \E k \in Requested : f = <<k, artifact[k].path>>
                           \/ \E b \in Builders : Works(b) /\ f = File(b)

ExportInv ==
    /\ TypeOK
    /\ TokensAreApart
    /\ ReadyIsAtRest
    /\ WrittenBeforePublished
    /\ FilesAreOwned
    /\ ReadyHasItsFile
    /\ OneFinalPerGeneration

\* What a step does to the artifacts that are ready: nothing.
ReadyKept ==
    \A k \in Requested :
        artifact[k].status = "ready" => k \in DOMAIN artifact' /\ artifact'[k] = artifact[k]

-----------------------------------------------------------------------------
(* Helpers. *)

LEMMA ImageIsNoLarger ==
    ASSUME NEW S, IsFiniteSet(S), NEW f
    PROVE  /\ IsFiniteSet({f[x] : x \in S})
           /\ Cardinality({f[x] : x \in S}) <= Cardinality(S)
<1> DEFINE T == {f[x] : x \in S}
           g == [x \in S |-> f[x]]
<1>1. g \in Surjection(S, T)
    BY DEF Surjection
<1> HIDE DEF g, T
<1>2. IsFiniteSet(T) /\ Cardinality(T) <= Cardinality(S)
    BY <1>1, FS_Surjection
<1> QED BY <1>2 DEF T

LEMMA TokenNumbers ==
    /\ IsFiniteSet(Tokens) /\ Cardinality(Tokens) = Cardinality(Builders) + 2
    /\ 0 \notin Tokens
<1>1. Cardinality(Builders) \in Nat
    BY ExportArtifactsAssumption, FS_CardinalityType
<1> DEFINE n == Cardinality(Builders) + 2
<1>2. n \in Int /\ 1 \in Int /\ ~(1 > n) /\ n - 1 + 1 = n
    BY <1>1
<1> HIDE DEF n
<1>3. IsFiniteSet(1 .. n) /\ Cardinality(1 .. n) = n /\ 0 \notin 1 .. n
    BY <1>2, FS_Interval
<1> QED BY <1>3 DEF Tokens, n

\* The artifact uses one token at most and so does every builder, and there are
\* more of them, so a fresh one exists.
LEMMA FreshToken ==
    ASSUME ExportInv, NEW k \in Requested
    PROVE  /\ Fresh(k) \in Tokens /\ <<k, Fresh(k)>> \notin DOMAIN file
           /\ artifact[k].lock # Fresh(k) /\ artifact[k].path # Fresh(k)
           /\ \A b \in Builders : hand[b].key = k => hand[b].token # Fresh(k)
<1> DEFINE a == IF artifact[k].lock # 0 THEN artifact[k].lock ELSE artifact[k].path
           h == [b \in Builders |-> hand[b].token]
           H == {h[b] : b \in Builders}
<1>1. IsFiniteSet(Builders) /\ Cardinality(Builders) \in Nat
    BY ExportArtifactsAssumption, FS_CardinalityType
<1>2. IsFiniteSet(H) /\ Cardinality(H) <= Cardinality(Builders)
    <2> HIDE DEF h
    <2> QED BY <1>1, ImageIsNoLarger
<1>3. IsFiniteSet(H \cup {a}) /\ Cardinality(H \cup {a}) <= Cardinality(Builders) + 1
    <2> HIDE DEF H, a
    <2>1. Cardinality(H) \in Nat
        BY <1>2, FS_CardinalityType
    <2>2. /\ IsFiniteSet(H \cup {a})
          /\ Cardinality(H \cup {a}) = Cardinality(H) \/ Cardinality(H \cup {a}) = Cardinality(H) + 1
        BY <1>2, FS_AddElement
    <2> QED BY <1>1, <1>2, <2>1, <2>2
<1>4. PICK t \in Tokens : t \notin H \cup {a}
    <2> SUFFICES ASSUME Tokens \subseteq H \cup {a} PROVE FALSE
        OBVIOUS
    <2> HIDE DEF H, a
    <2>1. Cardinality(Tokens) <= Cardinality(H \cup {a})
        BY <1>3, FS_Subset
    <2>2. Cardinality(H \cup {a}) \in Nat
        BY <1>3, FS_CardinalityType
    <2> QED BY <1>1, <1>3, <2>1, <2>2, TokenNumbers
<1>5. t # 0
    BY TokenNumbers
<1>6. artifact[k].lock # t /\ artifact[k].path # t
    <2>1. a # t
        BY <1>4
    <2>2. artifact[k].path # 0 => artifact[k].lock = 0
        BY DEF ExportInv, ReadyIsAtRest
    <2> QED BY <1>5, <2>1, <2>2
<1>7. \A b \in Builders : hand[b].token # t
    <2> SUFFICES ASSUME NEW b \in Builders PROVE hand[b].token # t
        OBVIOUS
    <2>1. h[b] # t
        BY <1>4
    <2> QED BY <2>1
<1>8. <<k, t>> \notin DOMAIN file
    BY <1>6, <1>7 DEF ExportInv, FilesAreOwned, File
<1>9. \E u \in Tokens : /\ <<k, u>> \notin DOMAIN file
                        /\ artifact[k].lock # u /\ artifact[k].path # u
                        /\ \A b \in Builders : hand[b].key = k => hand[b].token # u
    BY <1>6, <1>7, <1>8
<1> QED BY <1>9 DEF Fresh

LEMMA InRange ==
    /\ 0 \in 0 .. LockTicks /\ LockTicks \in 0 .. LockTicks
    /\ 0 \in 0 .. MaxAttempts /\ MaxAttempts \in 0 .. MaxAttempts
    /\ 0 \in 0 .. MaxRows /\ 1 \in 1 .. MaxVersion
    /\ MaxRows + 1 \in 0 .. MaxRows + 1 /\ 0 .. MaxRows \subseteq 0 .. MaxRows + 1
BY ExportArtifactsAssumption

LEMMA WorkingHands ==
    ASSUME TypeOK, NEW b \in Builders
    PROVE  /\ hand[b].step # "idle" => Works(b)
           /\ Works(b) => /\ hand[b] \in [key : Keys, token : Tokens, step : {"render", "write", "publish"}]
                          /\ hand[b].key \in Keys /\ hand[b].token \in Tokens
                          /\ hand[b].token # 0
BY TokenNumbers DEF TypeOK, Works, Hands, Idle

LEMMA InitExport == Init => ExportInv
<1> SUFFICES ASSUME Init PROVE ExportInv
    OBVIOUS
<1>1. Requested = {} /\ DOMAIN file = {}
    BY DEF Init, Requested
<1>2. TypeOK
    <2>1. loaded \in [DOMAIN loaded -> Loads]
        <3>1. PICK users \in SUBSET Requesters : loaded = [u \in users |-> None]
            BY DEF Init
        <3> QED BY <3>1 DEF Loads
    <2>2. job \in Jobs
        BY InRange DEF Init, Jobs, Statuses
    <2>3. hand \in [Builders -> Hands]
        BY DEF Init, Hands
    <2>4. artifact \in [Requested -> ArtifactStates] /\ file \in [DOMAIN file -> BOOLEAN]
        BY <1>1 DEF Requested, Init
    <2> QED BY <1>1, <2>1, <2>2, <2>3, <2>4 DEF TypeOK
<1>3. \A b \in Builders : ~Works(b) /\ hand[b].step = "idle"
    BY DEF Init, Works, Idle
<1> QED BY <1>1, <1>2, <1>3
        DEF ExportInv, TokensAreApart, ReadyIsAtRest, WrittenBeforePublished, FilesAreOwned,
            ReadyHasItsFile, OneFinalPerGeneration

-----------------------------------------------------------------------------
(* The job, its requests, and the artifacts that nobody has built yet. *)

\* What a step does to the artifacts when no builder publishes: those that are
\* ready stay as they are, and the others have no path.
ArtifactsKept ==
    /\ Requested \subseteq Requested' /\ Requested' \subseteq Keys
    /\ artifact' \in [Requested' -> ArtifactStates]
    /\ \A k \in Requested' :
          \/ k \in Requested /\ artifact'[k] = artifact[k]
          \/ /\ artifact'[k].status # "ready" /\ artifact'[k].path = 0
             /\ k \in Requested => artifact[k].status # "ready"

LEMMA ArtifactsKeptKeeps ==
    ASSUME ExportInv, ArtifactsKept, UNCHANGED <<file, hand>>, job' \in Jobs,
           loaded' \in [DOMAIN loaded' -> Loads], OneFinalPerGeneration'
    PROVE  ExportInv' /\ ReadyKept
<1>1. TypeOK'
    BY DEF ExportInv, TypeOK, ArtifactsKept
<1>2. \A k \in Requested : artifact'[k].path = artifact[k].path
    BY DEF ArtifactsKept, ExportInv, ReadyIsAtRest
<1>3. TokensAreApart'
    <2>1. \A b \in Builders : (Works(b)' <=> Works(b)) /\ hand'[b] = hand[b] /\ File(b)' = File(b)
        BY DEF Works, File
    <2> QED BY <1>2, <2>1 DEF ExportInv, TokensAreApart, ArtifactsKept
<1>4. ReadyIsAtRest'
    BY DEF ExportInv, ReadyIsAtRest, ArtifactsKept
<1>5. WrittenBeforePublished'
    BY DEF ExportInv, WrittenBeforePublished, File
<1>6. FilesAreOwned'
    BY <1>2 DEF ExportInv, FilesAreOwned, ArtifactsKept, Works, File
<1>7. ReadyHasItsFile'
    BY DEF ExportInv, ReadyHasItsFile, ArtifactsKept
<1>8. ReadyKept
    BY DEF ArtifactsKept, ReadyKept, Requested
<1> QED BY <1>1, <1>3, <1>4, <1>5, <1>6, <1>7, <1>8 DEF ExportInv

\* A request for rows that are there keeps what is ready, adds its own key at
\* most, and an artifact that fails again is queued.
LEMMA RequestedArtifacts ==
    ASSUME ExportInv, NEW key \in Keys, RequestExport(key)
    PROVE  ArtifactsKept /\ Requested' = Requested \cup {key}
<1>1. ASSUME NEW a \in ArtifactStates, artifact' = With(key, a), a.status # "ready", a.path = 0,
             key \in Requested => artifact[key].status # "ready"
      PROVE  ArtifactsKept /\ Requested' = Requested \cup {key}
    BY <1>1 DEF With, ArtifactsKept, Requested, ExportInv, TypeOK
<1>2. Queued \in ArtifactStates /\ Queued.status = "queued" /\ Queued.path = 0
    BY InRange DEF Queued, ArtifactStates
<1>3. CASE key \notin Requested
    BY <1>1, <1>2, <1>3 DEF RequestExport
<1>4. CASE key \in Requested /\ artifact[key].status = "failed"
    <2> DEFINE a == [artifact[key] EXCEPT !.status = "queued", !.attempts = 0]
    <2>1. artifact[key] \in ArtifactStates /\ artifact[key].path = 0
        BY <1>4 DEF ExportInv, TypeOK, ReadyIsAtRest
    <2>2. a \in ArtifactStates /\ a.status = "queued" /\ a.path = 0
        BY <2>1, InRange DEF ArtifactStates
    <2>3. artifact' = With(key, a)
        BY <1>4 DEF RequestExport
    <2> HIDE DEF a
    <2> QED BY <1>1, <1>4, <2>2, <2>3
<1>5. CASE key \in Requested /\ artifact[key].status # "failed"
    BY <1>5 DEF RequestExport, ArtifactsKept, Requested, ExportInv, TypeOK
<1> QED BY <1>3, <1>4, <1>5

LEMMA JobStepKeeps ==
    ASSUME ExportInv, Result \/ (\E s \in TerminalStates : End(s)) \/ Retry PROVE ExportInv' /\ ReadyKept
<1>1. UNCHANGED <<loaded, artifact, file, hand>>
    BY DEF Result, End, Retry
<1>2. job' \in Jobs
    BY ExportArtifactsAssumption
       DEF Result, End, Retry, ExportInv, TypeOK, Jobs, Statuses, TerminalStates
<1>3. ArtifactsKept /\ OneFinalPerGeneration'
    BY <1>1 DEF ArtifactsKept, ExportInv, TypeOK, OneFinalPerGeneration, Quiet, Requested, Partial
<1> QED BY <1>1, <1>2, <1>3, ArtifactsKeptKeeps DEF ExportInv, TypeOK

LEMMA LoadKeeps == ASSUME ExportInv, NEW u \in DOMAIN loaded, Load(u) PROVE ExportInv' /\ ReadyKept
<1>1. loaded' \in [DOMAIN loaded' -> Loads] /\ loaded' # << >> /\ ~Quiet'
    BY DEF Load, ExportInv, TypeOK, Jobs, Loads, Quiet
<1>2. ArtifactsKept /\ OneFinalPerGeneration'
    BY <1>1 DEF Load, ArtifactsKept, ExportInv, TypeOK, OneFinalPerGeneration, Requested
<1> QED BY <1>1, <1>2, ArtifactsKeptKeeps DEF Load, ExportInv, TypeOK

LEMMA RequestKeeps == ASSUME ExportInv, NEW u \in DOMAIN loaded, Request(u) PROVE ExportInv' /\ ReadyKept
<1> DEFINE key == [version |-> loaded[u].version, rows |-> job.rows, status |-> loaded[u].status]
<1>1. key \in Keys
    BY InRange DEF Request, ExportInv, TypeOK, Loads, Jobs, Keys
<1>2. RequestExport(key)
    BY DEF Request
<1>3. loaded' \in [DOMAIN loaded' -> Loads] /\ ~Quiet'
    BY DEF Request, ExportInv, TypeOK, Loads, Quiet
<1> HIDE DEF key
<1>4. ArtifactsKept
    BY <1>1, <1>2, RequestedArtifacts
<1> QED BY <1>3, <1>4, ArtifactsKeptKeeps DEF Request, ExportInv, TypeOK, OneFinalPerGeneration

\* The maintenance asks for a final export only where there is none.
LEMMA EnqueueKeeps == ASSUME ExportInv, EnqueueFinal \/ EnqueueUnreadable PROVE ExportInv' /\ ReadyKept
<1> DEFINE key(r) == [version |-> job.version, rows |-> r, status |-> job.status]
<1>1. \A r \in 0 .. MaxRows + 1 : key(r) \in Keys /\ key(r) \notin Requested
    BY DEF EnqueueFinal, EnqueueUnreadable, HasFinal, Partial, TerminalStates, Keys,
           ExportInv, TypeOK, Jobs
<1>2. \E r \in 0 .. MaxRows + 1 : ArtifactsKept /\ Requested' = Requested \cup {key(r)}
    <2>1. CASE EnqueueFinal
        <3>1. job.rows \in 0 .. MaxRows + 1 /\ RequestExport(key(job.rows))
            BY <2>1, InRange DEF EnqueueFinal, ExportInv, TypeOK, Jobs
        <3> HIDE DEF key
        <3> QED BY <1>1, <3>1, RequestedArtifacts
    <2>2. CASE EnqueueUnreadable
        <3> DEFINE a == [Queued EXCEPT !.status = "failed", !.attempts = MaxAttempts]
        <3>1. artifact' = With(key(Unreadable), a) /\ Unreadable \in 0 .. MaxRows + 1
            BY <2>2, InRange DEF EnqueueUnreadable, Unreadable
        <3>2. a \in ArtifactStates /\ a.status = "failed" /\ a.path = 0
            BY InRange DEF Queued, ArtifactStates
        <3> HIDE DEF a, key
        <3>3. key(Unreadable) \in Keys /\ key(Unreadable) \notin Requested
            BY <1>1, <3>1
        <3>4. ArtifactsKept /\ Requested' = Requested \cup {key(Unreadable)}
            BY <3>1, <3>2, <3>3 DEF With, ArtifactsKept, Requested, ExportInv, TypeOK
        <3> QED BY <3>1, <3>4
    <2> QED BY <2>1, <2>2
<1>3. PICK r \in 0 .. MaxRows + 1 : ArtifactsKept /\ Requested' = Requested \cup {key(r)}
    BY <1>2
<1>4. key(r).version = job.version /\ ~HasFinal /\ UNCHANGED <<job, loaded, file, hand>>
    BY DEF EnqueueFinal, EnqueueUnreadable
<1> HIDE DEF key
<1>5. OneFinalPerGeneration'
    BY <1>3, <1>4 DEF ExportInv, OneFinalPerGeneration, Quiet, HasFinal, Partial
<1> QED BY <1>3, <1>4, <1>5, ArtifactsKeptKeeps DEF ExportInv, TypeOK

-----------------------------------------------------------------------------
(* Builders. *)

LEMMA GivenUpArtifacts ==
    ASSUME ExportInv
    PROVE  /\ GivenUp \in [Requested -> ArtifactStates]
           /\ \A k \in Requested :
                 \/ GivenUp[k] = artifact[k]
                 \/ /\ GivenUp[k].status # "ready" /\ GivenUp[k].path = 0
                    /\ artifact[k].status # "ready" /\ artifact[k].path = 0
<1>1. ASSUME NEW k \in Requested
      PROVE  /\ GivenUp[k] \in ArtifactStates
             /\ \/ GivenUp[k] = artifact[k]
                \/ /\ GivenUp[k].status # "ready" /\ GivenUp[k].path = 0
                   /\ artifact[k].status # "ready" /\ artifact[k].path = 0
    <2> DEFINE a == [artifact[k] EXCEPT !.status = "failed", !.lock = 0]
    <2>1. artifact[k] \in ArtifactStates
        BY DEF ExportInv, TypeOK
    <2>2. a \in ArtifactStates /\ a.status = "failed" /\ a.path = artifact[k].path
        BY <2>1 DEF ArtifactStates
    <2>3. artifact[k].status = "building" => artifact[k].path = 0
        BY DEF ExportInv, ReadyIsAtRest
    <2>4. GivenUp[k] = artifact[k] \/ (GivenUp[k] = a /\ artifact[k].status = "building")
        BY DEF GivenUp
    <2> HIDE DEF a
    <2> QED BY <2>1, <2>2, <2>3, <2>4
<1>2. GivenUp = [k \in Requested |-> GivenUp[k]]
    BY DEF GivenUp
<1> QED BY <1>1, <1>2

LEMMA ClaimNothingKeeps ==
    ASSUME ExportInv, NEW b \in Builders, ClaimNothing(b) PROVE ExportInv' /\ ReadyKept
<1>1. Requested' = Requested /\ artifact' = GivenUp
    BY GivenUpArtifacts DEF ClaimNothing, Requested
<1>2. ArtifactsKept
    BY <1>1, GivenUpArtifacts DEF ArtifactsKept, ExportInv, TypeOK
<1>3. OneFinalPerGeneration'
    BY <1>1 DEF ClaimNothing, ExportInv, OneFinalPerGeneration, Quiet, Partial
<1> QED BY <1>2, <1>3, ArtifactsKeptKeeps DEF ClaimNothing, ExportInv, TypeOK

LEMMA TickKeeps == ASSUME ExportInv, Tick PROVE ExportInv' /\ ReadyKept
<1>1. ASSUME NEW k \in Requested
      PROVE  /\ artifact'[k] \in ArtifactStates
             /\ artifact'[k].status = artifact[k].status /\ artifact'[k].path = artifact[k].path
             /\ artifact[k].status = "ready" => artifact'[k] = artifact[k]
    <2> DEFINE t == IF artifact[k].ttl = 0 THEN 0 ELSE artifact[k].ttl - 1
    <2>1. artifact[k] \in ArtifactStates /\ artifact'[k] = [artifact[k] EXCEPT !.ttl = t]
        BY DEF Tick, ExportInv, TypeOK
    <2>2. t \in 0 .. LockTicks
        BY <2>1, ExportArtifactsAssumption DEF ArtifactStates
    <2>3. artifact[k].status = "ready" => t = artifact[k].ttl
        BY DEF ExportInv, ReadyIsAtRest
    <2> HIDE DEF t
    <2> QED BY <2>1, <2>2, <2>3 DEF ArtifactStates
<1>2. Requested' = Requested /\ artifact' = [k \in Requested |-> artifact'[k]]
    BY DEF Tick, Requested
<1>3. ArtifactsKept
    BY <1>1, <1>2 DEF ArtifactsKept, ExportInv, TypeOK, ReadyIsAtRest
<1>4. OneFinalPerGeneration'
    BY <1>2 DEF Tick, ExportInv, OneFinalPerGeneration, Quiet, Partial
<1> QED BY <1>3, <1>4, ArtifactsKeptKeeps DEF Tick, ExportInv, TypeOK

\* A claim takes an artifact that is not ready, with a token nobody has.
LEMMA ClaimStep ==
    ASSUME ExportInv, NEW b \in Builders, NEW k \in Requested, Claim(b, k)
    PROVE  /\ Requested' = Requested /\ artifact' \in [Requested -> ArtifactStates]
           /\ \A l \in Requested :
                 \/ artifact'[l] = artifact[l]
                 \/ /\ artifact'[l].status # "ready" /\ artifact'[l].path = 0
                    /\ artifact[l].status # "ready" /\ artifact[l].path = 0
           /\ hand' = [hand EXCEPT ![b] = [key |-> k, token |-> Fresh(k), step |-> "render"]]
           /\ UNCHANGED <<job, loaded, file>>
<1> DEFINE a == [artifact[k] EXCEPT !.status = "building", !.lock = Fresh(k),
                                    !.ttl = LockTicks, !.attempts = @ + 1]
<1>1. artifact' = [GivenUp EXCEPT ![k] = a]
    BY DEF Claim
<1>2. artifact[k] \in ArtifactStates /\ artifact[k].attempts < MaxAttempts
    BY DEF Claim, Claimable, ExportInv, TypeOK
<1>3. artifact[k].attempts + 1 \in 0 .. MaxAttempts
    BY <1>2, ExportArtifactsAssumption DEF ArtifactStates
<1>4. a \in ArtifactStates /\ a.status = "building" /\ a.path = artifact[k].path
    BY <1>2, <1>3, InRange, FreshToken DEF ArtifactStates
<1>5. artifact[k].status # "ready" /\ artifact[k].path = 0
    BY DEF Claim, Claimable, ExportInv, ReadyIsAtRest
<1> HIDE DEF a
<1> QED BY <1>1, <1>4, <1>5, GivenUpArtifacts DEF Claim, Requested

LEMMA ClaimKeeps ==
    ASSUME ExportInv, NEW b \in Builders, NEW k \in Requested, Claim(b, k) PROVE ExportInv' /\ ReadyKept
<1> DEFINE h == [key |-> k, token |-> Fresh(k), step |-> "render"]
<1>1. h \in Hands /\ h.step = "render" /\ h.token = Fresh(k) /\ h.key = k /\ h # Idle
    BY FreshToken DEF Hands, Idle, ExportInv, TypeOK
<1>2. hand' = [hand EXCEPT ![b] = h] /\ hand \in [Builders -> Hands]
    BY ClaimStep DEF ExportInv, TypeOK
<1> HIDE DEF h
<1>3. TypeOK'
    BY <1>1, <1>2, ClaimStep DEF ExportInv, TypeOK
<1>4. \A l \in Requested : artifact'[l].path = artifact[l].path
    BY ClaimStep
<1>5. /\ \A c \in Builders : c # b => hand'[c] = hand[c]
      /\ hand'[b].token = Fresh(k) /\ hand'[b].key = k /\ Requested' = Requested
    BY <1>1, <1>2, ClaimStep
<1>6. \A c \in Builders : Works(c)' => c = b \/ Works(c)
    BY <1>5 DEF Works
<1>7. TokensAreApart'
    <2>1. \A c \in Builders : Works(c)' => hand'[c].key \in Requested'
        BY <1>5, <1>6 DEF ExportInv, TokensAreApart
    <2>2. \A c, d \in Builders : Works(c)' /\ Works(d)' /\ File(c)' = File(d)' => c = d
        <3>1. ASSUME NEW c \in Builders, c # b, Works(c), File(c)' = File(b)' PROVE FALSE
            <4>1. hand[c].key = k /\ hand[c].token = Fresh(k)
                BY <1>5, <3>1 DEF File
            <4> QED BY <4>1, FreshToken
        <3>2. ASSUME NEW c \in Builders, NEW d \in Builders, c # b, d # b, Works(c), Works(d),
                     File(c)' = File(d)'
              PROVE  c = d
            <4>1. File(c) = File(d)
                BY <1>5, <3>2 DEF File
            <4> QED BY <3>2, <4>1 DEF ExportInv, TokensAreApart
        <3> QED BY <1>6, <3>1, <3>2
    <2>3. ASSUME NEW c \in Builders, Works(c)' PROVE artifact'[hand'[c].key].path # hand'[c].token
        <3>1. CASE c = b
            BY <1>4, <1>5, <3>1, FreshToken
        <3>2. CASE c # b
            <4>1. Works(c) /\ hand[c].key \in Requested /\ artifact[hand[c].key].path # hand[c].token
                BY <1>6, <2>3, <3>2 DEF ExportInv, TokensAreApart
            <4> QED BY <1>4, <1>5, <3>2, <4>1
        <3> QED BY <3>1, <3>2
    <2> QED BY <2>1, <2>2, <2>3 DEF TokensAreApart
<1>8. ReadyIsAtRest'
    BY ClaimStep DEF ExportInv, ReadyIsAtRest
<1>9. WrittenBeforePublished'
    BY <1>1, <1>2, ClaimStep DEF ExportInv, WrittenBeforePublished, File
<1>10. FilesAreOwned'
    <2>1. ~Works(b)
        BY DEF Claim, Works
    <2>2. \A c \in Builders : Works(c) => Works(c)' /\ File(c)' = File(c)
        BY <1>5, <2>1 DEF Works, File
    <2> QED BY <1>4, <1>5, <2>2, ClaimStep DEF ExportInv, FilesAreOwned
<1>11. ReadyHasItsFile'
    BY ClaimStep DEF ExportInv, ReadyHasItsFile
<1>12. OneFinalPerGeneration'
    BY ClaimStep DEF ExportInv, OneFinalPerGeneration, Quiet, Partial
<1>13. ReadyKept
    BY ClaimStep DEF ReadyKept, Requested
<1> QED BY <1>3, <1>7, <1>8, <1>9, <1>10, <1>11, <1>12, <1>13 DEF ExportInv

\* Opening and writing touch the file of the builder's own token only.
LEMMA WritingKeeps ==
    ASSUME ExportInv, NEW b \in Builders, Open(b) \/ Write(b) PROVE ExportInv' /\ ReadyKept
<1>1. PICK s \in {"write", "publish"}, whole \in BOOLEAN :
          /\ hand' = [hand EXCEPT ![b].step = s] /\ file' = WithFile(File(b), whole)
          /\ s = "publish" => whole
    BY DEF Open, Write
<1>2. Works(b) /\ UNCHANGED <<job, loaded, artifact>> /\ Requested' = Requested
    BY WorkingHands DEF Open, Write, Requested, ExportInv
<1>3. hand[b].key \in Keys /\ hand[b].token \in Tokens /\ File(b) \in Keys \X Tokens
    BY <1>2, WorkingHands DEF ExportInv, File
<1>4. /\ DOMAIN file' = DOMAIN file \cup {File(b)} /\ file' \in [DOMAIN file' -> BOOLEAN]
      /\ file'[File(b)] = whole
      /\ \A f \in DOMAIN file : f # File(b) => file'[f] = file[f]
    BY <1>1 DEF WithFile, ExportInv, TypeOK
<1>5. /\ hand' \in [Builders -> Hands] /\ hand'[b].step = s
      /\ \A c \in Builders : /\ hand'[c].key = hand[c].key /\ hand'[c].token = hand[c].token
                             /\ c # b => hand'[c] = hand[c]
                             /\ Works(c)' <=> Works(c)
    BY <1>1, <1>2, WorkingHands DEF ExportInv, TypeOK, Hands, Works, Idle
<1>6. TypeOK'
    BY <1>2, <1>3, <1>4, <1>5 DEF ExportInv, TypeOK
<1>7. TokensAreApart' /\ ReadyIsAtRest' /\ OneFinalPerGeneration'
    BY <1>2, <1>5 DEF ExportInv, TokensAreApart, ReadyIsAtRest, OneFinalPerGeneration, Quiet, Partial, File
<1>8. FilesAreOwned'
    BY <1>2, <1>4, <1>5 DEF ExportInv, FilesAreOwned, File
<1>9. WrittenBeforePublished'
    <2> SUFFICES ASSUME NEW c \in Builders, hand'[c].step = "publish"
                 PROVE  File(c)' \in DOMAIN file' /\ file'[File(c)']
        BY DEF WrittenBeforePublished
    <2>1. File(c)' = File(c)
        BY <1>5 DEF File
    <2>2. CASE c = b
        BY <1>1, <1>4, <1>5, <2>1, <2>2
    <2>3. CASE c # b
        <3>1. hand[c].step = "publish" /\ Works(c)
            BY <1>5, <2>3, WorkingHands DEF ExportInv
        <3>2. File(c) # File(b)
            BY <1>2, <2>3, <3>1 DEF ExportInv, TokensAreApart, File
        <3> QED BY <1>4, <2>1, <3>1, <3>2 DEF ExportInv, WrittenBeforePublished
    <2> QED BY <2>2, <2>3
<1>10. ReadyHasItsFile'
    <2> SUFFICES ASSUME NEW k \in Requested, artifact[k].status = "ready"
                 PROVE  <<k, artifact[k].path>> \in DOMAIN file' /\ file'[<<k, artifact[k].path>>]
        BY <1>2 DEF ReadyHasItsFile
    <2>1. <<k, artifact[k].path>> # File(b)
        BY <1>2 DEF ExportInv, TokensAreApart, File
    <2> QED BY <1>4, <2>1 DEF ExportInv, ReadyHasItsFile
<1> QED BY <1>2, <1>6, <1>7, <1>8, <1>9, <1>10 DEF ExportInv, ReadyKept, Requested

\* A builder that stops leaves its file unless it published it, and changes an
\* artifact only when that is not ready.
LeavesOff(b) ==
    /\ Works(b) /\ hand' = [hand EXCEPT ![b] = Idle] /\ UNCHANGED <<job, loaded>>
    /\ Requested' = Requested /\ artifact' \in [Requested -> ArtifactStates]
    /\ \/ /\ file' = WithoutFile(File(b))
          /\ \A k \in Requested :
                \/ artifact'[k] = artifact[k]
                \/ /\ artifact'[k].status # "ready" /\ artifact'[k].path = 0
                   /\ artifact[k].status # "ready" /\ artifact[k].path = 0
       \/ /\ UNCHANGED file /\ hand[b].step = "publish"
          /\ LET k == hand[b].key
             IN  /\ artifact[k].status # "ready" /\ artifact'[k].status = "ready"
                 /\ artifact'[k].lock = 0 /\ artifact'[k].ttl = 0
                 /\ artifact'[k].path = hand[b].token
                 /\ \A l \in Requested : l # k => artifact'[l] = artifact[l]

LEMMA LeavingOff ==
    ASSUME ExportInv, NEW b \in Builders, Publish(b) \/ Fail(b) \/ Crash(b) PROVE LeavesOff(b)
<1> DEFINE k == hand[b].key
<1>1. /\ Works(b) /\ hand' = [hand EXCEPT ![b] = Idle] /\ UNCHANGED <<job, loaded>>
      /\ hand[b].token \in Tokens /\ hand[b].token # 0
    BY WorkingHands DEF Publish, Fail, Crash, Works, ExportInv
<1>2. k \in Requested /\ artifact[k] \in ArtifactStates
    BY <1>1 DEF ExportInv, TypeOK, TokensAreApart
<1>3. CASE UNCHANGED artifact /\ file' = WithoutFile(File(b))
    BY <1>1, <1>3 DEF LeavesOff, Requested, ExportInv, TypeOK
<1>4. CASE Publish(b) /\ Mine(b)
    <2> DEFINE a == [artifact[k] EXCEPT !.status = "ready", !.lock = 0, !.ttl = 0,
                                        !.path = File(b)[2]]
    <2>1. artifact' = [artifact EXCEPT ![k] = a] /\ UNCHANGED file /\ hand[b].step = "publish"
        BY <1>4 DEF Publish
    <2>2. /\ a \in ArtifactStates /\ a.status = "ready" /\ a.lock = 0 /\ a.ttl = 0
          /\ a.path = hand[b].token
        BY <1>1, <1>2, InRange DEF ArtifactStates, File
    <2>3. artifact[k].status # "ready"
        BY <1>4 DEF Mine
    <2> HIDE DEF a
    <2> QED BY <1>1, <1>2, <2>1, <2>2, <2>3 DEF LeavesOff, Requested, ExportInv, TypeOK
<1>5. CASE Fail(b) /\ artifact[k].lock = hand[b].token
    <2> DEFINE s == IF artifact[k].attempts >= MaxAttempts THEN "failed" ELSE "queued"
               a == [artifact[k] EXCEPT !.status = s, !.lock = 0, !.ttl = 0]
    <2>1. artifact' = [artifact EXCEPT ![k] = a] /\ file' = WithoutFile(File(b))
        BY <1>5 DEF Fail
    <2>2. s \in {"failed", "queued"}
        OBVIOUS
    <2>3. artifact[k].status # "ready" /\ artifact[k].path = 0
        BY <1>1, <1>2, <1>5 DEF ExportInv, ReadyIsAtRest
    <2> HIDE DEF s
    <2>4. a \in ArtifactStates /\ a.status # "ready" /\ a.path = 0
        BY <1>2, <2>2, <2>3, InRange DEF ArtifactStates
    <2> HIDE DEF a
    <2> QED BY <1>1, <1>2, <2>1, <2>3, <2>4 DEF LeavesOff, Requested, ExportInv, TypeOK
<1> QED BY <1>3, <1>4, <1>5 DEF Publish, Fail, Crash

LEMMA LeavingOffKeeps ==
    ASSUME ExportInv, NEW b \in Builders, LeavesOff(b) PROVE ExportInv' /\ ReadyKept
<1>1. /\ hand'[b] = Idle /\ ~Works(b)' /\ hand' \in [Builders -> Hands]
      /\ \A c \in Builders : c # b => hand'[c] = hand[c] /\ (Works(c)' <=> Works(c))
    BY DEF LeavesOff, ExportInv, TypeOK, Hands, Works
<1>2. /\ Works(b) /\ hand[b].key \in Requested /\ File(b) = <<hand[b].key, hand[b].token>>
      /\ hand[b].token # 0
    BY WorkingHands DEF LeavesOff, ExportInv, TokensAreApart, File
<1>3. /\ Requested' = Requested /\ artifact' \in [Requested -> ArtifactStates]
      /\ UNCHANGED <<job, loaded>>
    BY DEF LeavesOff
<1>4. /\ DOMAIN file' \subseteq DOMAIN file /\ file' \in [DOMAIN file' -> BOOLEAN]
      /\ \A f \in DOMAIN file : f # File(b) => f \in DOMAIN file' /\ file'[f] = file[f]
    BY DEF LeavesOff, WithoutFile, ExportInv, TypeOK
<1>5. TypeOK'
    BY <1>1, <1>3, <1>4 DEF ExportInv, TypeOK
<1>6. \A k \in Requested : artifact'[k].path \in {artifact[k].path, hand[b].token}
    BY DEF LeavesOff
<1>7. TokensAreApart'
    <2>1. \A c \in Builders : Works(c)' => hand'[c].key \in Requested'
        BY <1>1, <1>3 DEF ExportInv, TokensAreApart
    <2>2. \A c, d \in Builders : Works(c)' /\ Works(d)' /\ File(c)' = File(d)' => c = d
        BY <1>1 DEF ExportInv, TokensAreApart, File
    <2>3. ASSUME NEW c \in Builders, Works(c)' PROVE artifact'[hand'[c].key].path # hand'[c].token
        <3>1. c # b /\ hand'[c] = hand[c] /\ Works(c)
            BY <1>1, <2>3
        <3>2. hand[c].key \in Requested /\ artifact[hand[c].key].path # hand[c].token /\ File(c) # File(b)
            BY <1>2, <3>1 DEF ExportInv, TokensAreApart
        <3> QED BY <1>3, <3>1, <3>2 DEF LeavesOff, File
    <2> QED BY <2>1, <2>2, <2>3 DEF TokensAreApart
<1>8. ReadyIsAtRest'
    BY <1>2, <1>3 DEF LeavesOff, ExportInv, ReadyIsAtRest
<1>9. WrittenBeforePublished'
    <2> SUFFICES ASSUME NEW c \in Builders, hand'[c].step = "publish"
                 PROVE  File(c)' \in DOMAIN file' /\ file'[File(c)']
        BY DEF WrittenBeforePublished
    <2>1. c # b /\ hand[c].step = "publish" /\ Works(c) /\ File(c)' = File(c)
        BY <1>1, WorkingHands DEF File, Idle, ExportInv
    <2>2. File(c) # File(b)
        BY <1>2, <2>1 DEF ExportInv, TokensAreApart, File
    <2> QED BY <1>4, <2>1, <2>2 DEF ExportInv, WrittenBeforePublished
<1>10. FilesAreOwned'
    <2> SUFFICES ASSUME NEW f \in DOMAIN file'
                 PROVE  \/ \E k \in Requested' : f = <<k, artifact'[k].path>>
                        \/ \E c \in Builders : Works(c)' /\ f = File(c)'
        BY DEF FilesAreOwned
    <2>1. f \in DOMAIN file
        BY <1>4
    <2>2. ASSUME NEW k \in Requested, f = <<k, artifact[k].path>>
          PROVE  \E l \in Requested' : f = <<l, artifact'[l].path>>
        <3>1. artifact[k].path # 0
            BY <2>1, <2>2, TokenNumbers DEF ExportInv, TypeOK
        <3>2. artifact[k].status = "ready"
            BY <3>1 DEF ExportInv, ReadyIsAtRest
        <3> QED BY <1>3, <2>2, <3>2 DEF LeavesOff
    <2>3. ASSUME NEW c \in Builders, c # b, Works(c), f = File(c)
          PROVE  Works(c)' /\ f = File(c)'
        BY <1>1, <2>3 DEF File
    <2>4. CASE f = File(b)
        <3>1. ~(file' = WithoutFile(File(b)))
            BY <2>4 DEF WithoutFile
        <3>2. artifact'[hand[b].key].path = hand[b].token
            BY <3>1 DEF LeavesOff
        <3> QED BY <1>2, <1>3, <2>4, <3>2
    <2> QED BY <2>1, <2>2, <2>3, <2>4 DEF ExportInv, FilesAreOwned
<1>11. ReadyHasItsFile'
    <2> SUFFICES ASSUME NEW k \in Requested, artifact'[k].status = "ready"
                 PROVE  <<k, artifact'[k].path>> \in DOMAIN file' /\ file'[<<k, artifact'[k].path>>]
        BY <1>3 DEF ReadyHasItsFile
    <2>1. CASE artifact'[k] = artifact[k]
        <3>1. <<k, artifact[k].path>> # File(b)
            BY <1>2 DEF ExportInv, TokensAreApart
        <3> QED BY <1>4, <2>1, <3>1 DEF ExportInv, ReadyHasItsFile
    <2>2. CASE artifact'[k] # artifact[k]
        <3>1. /\ UNCHANGED file /\ hand[b].step = "publish" /\ hand[b].key = k
              /\ artifact'[k].path = hand[b].token
            BY <2>2 DEF LeavesOff
        <3> QED BY <1>2, <3>1 DEF ExportInv, WrittenBeforePublished
    <2> QED BY <2>1, <2>2
<1>12. OneFinalPerGeneration'
    BY <1>3 DEF ExportInv, OneFinalPerGeneration, Quiet, Partial
<1>13. ReadyKept
    BY <1>2, <1>3 DEF LeavesOff, ReadyKept, Requested
<1> QED BY <1>5, <1>7, <1>8, <1>9, <1>10, <1>11, <1>12, <1>13 DEF ExportInv

-----------------------------------------------------------------------------
(* The theorems. *)

LEMMA StepKeeps == ASSUME ExportInv, [Next]_vars PROVE ExportInv' /\ ReadyKept
<1>1. ASSUME NEW b \in Builders, ProcessOne(b) \/ Fail(b) \/ Crash(b)
      PROVE  ExportInv' /\ ReadyKept
    <2>1. CASE Publish(b) \/ Fail(b) \/ Crash(b)
        BY <2>1, LeavingOff, LeavingOffKeeps
    <2>2. CASE ClaimNothing(b) \/ \E k \in Requested : Claim(b, k)
        BY <2>2, ClaimNothingKeeps, ClaimKeeps
    <2>3. CASE Open(b) \/ Write(b)
        BY <2>3, WritingKeeps
    <2> QED BY <1>1, <2>1, <2>2, <2>3 DEF ProcessOne
<1>2. CASE UNCHANGED vars
    <2>1. ArtifactsKept /\ OneFinalPerGeneration'
        BY <1>2 DEF vars, ArtifactsKept, ExportInv, TypeOK, OneFinalPerGeneration, Quiet, Requested,
                    Partial
    <2> QED BY <1>2, <2>1, ArtifactsKeptKeeps DEF vars, ExportInv, TypeOK
<1>3. CASE Next
    BY <1>1, <1>3, JobStepKeeps, LoadKeeps, RequestKeeps, EnqueueKeeps, TickKeeps DEF Next
<1> QED BY <1>2, <1>3

\* Artifacts, files and builders are what the schema and the loop of a builder
\* allow, however many requests, builders and crashes there are.
THEOREM ExportsAreTyped == Spec => []TypeOK
<1>1. ExportInv => TypeOK
    BY DEF ExportInv
<1> QED BY <1>1, InitExport, StepKeeps, PTL DEF Spec

\* A ready artifact has its file on disk, whole: a builder whose lock ran out
\* writes to a file of its own, which it removes when it finds the artifact
\* taken (process_one_export).
THEOREM ReadyArtifactsHaveFiles == Spec => []ReadyHasItsFile
<1>1. ExportInv => ReadyHasItsFile
    BY DEF ExportInv
<1> QED BY <1>1, InitExport, StepKeeps, PTL DEF Spec

\* No two builders write the same file, and none writes the file of a ready
\* artifact, whatever locks ran out (process_one_export).
THEOREM BuildersWriteApart == Spec => []TokensAreApart
<1>1. ExportInv => TokensAreApart
    BY DEF ExportInv
<1> QED BY <1>1, InitExport, StepKeeps, PTL DEF Spec

\* Maintenance asks for one final export of each generation, whether that is
\* built, fails or cannot be read (enqueue_final_exports).
THEOREM OneFinalEach == Spec => []OneFinalPerGeneration
<1>1. ExportInv => OneFinalPerGeneration
    BY DEF ExportInv
<1> QED BY <1>1, InitExport, StepKeeps, PTL DEF Spec

\* What has been downloaded once stays the same: neither a request, though it
\* read the job before a result or a retry and asks after it, nor a builder
\* that lost its lock touches a ready artifact (request_export,
\* process_one_export).
THEOREM ReadyArtifactsStay == Spec => ReadyIsFinal
<1>1. ExportInv /\ [Next]_vars => [ReadyKept]_vars
    BY StepKeeps
<1>2. [][ReadyKept]_vars => ReadyIsFinal
    BY DEF ReadyIsFinal, ReadyKept
<1> QED BY <1>1, <1>2, InitExport, StepKeeps, PTL DEF Spec

=============================================================================
