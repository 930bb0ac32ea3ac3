-------------------------- MODULE ExportArtifacts --------------------------
(***************************************************************************)
(* The exports of one job (machine_admin/product_exports.py).  A request   *)
(* freezes the rows of the job in an artifact; builders claim artifacts,   *)
(* render them into files of their own without holding any lock, and       *)
(* publish the file if the artifact is still theirs.  Maintenance asks for *)
(* the final export of every generation that ended with results.           *)
(*                                                                         *)
(* The rows of the job are a number that changes with every result and     *)
(* with every retry.  One format: the others differ in the rendering only. *)
(* An artifact is found again by its version, rows and job status, which   *)
(* are what snapshot_hash and the unique index are made of.                *)
(***************************************************************************)
EXTENDS Naturals, FiniteSets

CONSTANTS
    None,
    Requesters,     \* bound: requests of the panel and the API, each of which asks once
    Builders,       \* export consumers, one in each scheduler process
    MaxVersion,     \* bound: generations of the job
    MaxRows,        \* bound: changes of its rows
    MaxAttempts,    \* attempts of an artifact (3)
    LockTicks       \* locked_until (30 min)

ASSUME ExportArtifactsAssumption ==
    /\ {MaxVersion, MaxAttempts, LockTicks} \subseteq Nat \ {0} /\ MaxRows \in Nat
    /\ IsFiniteSet(Builders) /\ None \notin Builders

VARIABLES
    job,        \* status, result_version and rows
    loaded,     \* the job as each request in progress read it before it locks it
    artifact,   \* export_artifacts by key
    file,       \* files on disk, by artifact and token, and whether each is whole
    hand        \* what each builder is doing

vars == <<job, loaded, artifact, file, hand>>

TerminalStates == {"completed_with_errors", "cancelled"}
Statuses == {"running"} \cup TerminalStates
Keys == [version : 1 .. MaxVersion, rows : 0 .. MaxRows + 1, status : Statuses]

\* The rows of an artifact whose job could not be read.
Unreadable == MaxRows + 1

Partial(key) == key.status \notin TerminalStates
Requested == DOMAIN artifact

\* A token tells the builders of one artifact apart, and is compared with
\* those on record only.
Tokens == 1 .. (Cardinality(Builders) + 2)
Fresh(k) == CHOOSE t \in Tokens : /\ <<k, t>> \notin DOMAIN file
                                  /\ artifact[k].lock # t /\ artifact[k].path # t
                                  /\ \A b \in Builders : hand[b].key = k => hand[b].token # t

Idle == [key |-> None, token |-> 0, step |-> "idle"]
Queued == [status |-> "queued", attempts |-> 0, lock |-> 0, ttl |-> 0, path |-> 0]

\* A request that was answered asks no more.
Answered == [version |-> 0, status |-> "none"]

Init ==
    /\ job = [status |-> "running", version |-> 1, rows |-> 0]
    /\ loaded \in {[u \in users |-> None] : users \in SUBSET Requesters}
    /\ artifact = << >>
    /\ file = << >>
    /\ hand = [b \in Builders |-> Idle]
-----------------------------------------------------------------------------
(* The job. *)

Result ==
    /\ job.status = "running" /\ job.rows < MaxRows
    /\ job' = [job EXCEPT !.rows = @ + 1]
    /\ UNCHANGED <<loaded, artifact, file, hand>>

End(s) ==
    /\ job.status = "running"
    /\ job' = [job EXCEPT !.status = s]
    /\ UNCHANGED <<loaded, artifact, file, hand>>

Retry ==
    /\ job.status \in TerminalStates /\ job.version < MaxVersion /\ job.rows < MaxRows
    /\ job' = [status |-> "running", version |-> job.version + 1, rows |-> job.rows + 1]
    /\ UNCHANGED <<loaded, artifact, file, hand>>
-----------------------------------------------------------------------------
(* Requests. *)

With(key, a) == [k \in Requested \cup {key} |-> IF k = key THEN a ELSE artifact[k]]

RequestExport_Rebuild(key) ==
    artifact' = IF key \in Requested /\ artifact[key].status = "building" THEN artifact ELSE With(key, Queued)

\* request_export, once it has the job's lock: an artifact of the same rows is
\* used again, and queued again if it failed.
RequestExport(key) ==
    artifact' = IF key \notin Requested THEN With(key, Queued)
                ELSE IF artifact[key].status = "failed"
                THEN With(key, [artifact[key] EXCEPT !.status = "queued", !.attempts = 0])
                ELSE artifact

\* The caller loads the job without a lock ...
Load(u) ==
    /\ loaded[u] = None
    /\ loaded' = [loaded EXCEPT ![u] = [version |-> job.version, status |-> job.status]]
    /\ UNCHANGED <<job, artifact, file, hand>>

\* ... and request_export locks the row, but the session keeps what it loaded.
Request(u) ==
    /\ loaded[u] \notin {None, Answered}
    /\ RequestExport([version |-> loaded[u].version, rows |-> job.rows, status |-> loaded[u].status])
    /\ loaded' = [loaded EXCEPT ![u] = Answered]
    /\ UNCHANGED <<job, file, hand>>

HasFinal_Ready == \E k \in Requested : k.version = job.version /\ artifact[k].status = "ready"

HasFinal_AnyGeneration == \E k \in Requested : ~Partial(k)

HasFinal == \E k \in Requested : k.version = job.version /\ ~Partial(k)

EnqueueFinal ==
    /\ job.status = "completed_with_errors" /\ ~HasFinal
    /\ RequestExport([version |-> job.version, rows |-> job.rows, status |-> job.status])
    /\ UNCHANGED <<job, loaded, file, hand>>

\* A job with a result that cannot be decrypted gets a failed artifact.
EnqueueUnreadable ==
    /\ job.status = "completed_with_errors" /\ ~HasFinal
    /\ artifact' = With([version |-> job.version, rows |-> Unreadable, status |-> job.status],
                        [Queued EXCEPT !.status = "failed", !.attempts = MaxAttempts])
    /\ UNCHANGED <<job, loaded, file, hand>>
-----------------------------------------------------------------------------
(* process_one_export. *)

GivenUp ==
    [k \in Requested |->
        IF artifact[k].status = "building" /\ artifact[k].ttl = 0 /\ artifact[k].attempts >= MaxAttempts
        THEN [artifact[k] EXCEPT !.status = "failed", !.lock = 0] ELSE artifact[k]]

Claimable_Queued(k) == artifact[k].status = "queued" /\ artifact[k].attempts < MaxAttempts

Claimable(k) ==
    /\ artifact[k].attempts < MaxAttempts
    /\ artifact[k].status = "queued" \/ (artifact[k].status = "building" /\ artifact[k].ttl = 0)

ClaimNothing(b) ==
    /\ hand[b] = Idle /\ ~\E k \in Requested : Claimable(k)
    /\ artifact' = GivenUp
    /\ UNCHANGED <<job, loaded, file, hand>>

Claim(b, k) ==
    /\ hand[b] = Idle /\ Claimable(k)
    /\ artifact' = [GivenUp EXCEPT ![k] = [artifact[k] EXCEPT !.status = "building", !.lock = Fresh(k),
                                                              !.ttl = LockTicks, !.attempts = @ + 1]]
    /\ hand' = [hand EXCEPT ![b] = [key |-> k, token |-> Fresh(k), step |-> "render"]]
    /\ UNCHANGED <<job, loaded, file>>

File_PerArtifact(b) == <<hand[b].key, 1>>

File(b) == <<hand[b].key, hand[b].token>>
WithFile(f, whole) == [g \in DOMAIN file \cup {f} |-> IF g = f THEN whole ELSE file[g]]
WithoutFile(f) == [g \in DOMAIN file \ {f} |-> file[g]]

\* The file is opened, exclusively, and written.
Open(b) ==
    /\ hand[b].step = "render"
    /\ file' = WithFile(File(b), FALSE)
    /\ hand' = [hand EXCEPT ![b].step = "write"]
    /\ UNCHANGED <<job, loaded, artifact>>

Write(b) ==
    /\ hand[b].step = "write"
    /\ file' = WithFile(File(b), TRUE)
    /\ hand' = [hand EXCEPT ![b].step = "publish"]
    /\ UNCHANGED <<job, loaded, artifact>>

Mine(b) == artifact[hand[b].key].lock = hand[b].token /\ artifact[hand[b].key].status = "building"

Publish(b) ==
    LET k == hand[b].key
    IN  /\ hand[b].step = "publish"
        /\ IF Mine(b)
           THEN /\ artifact' = [artifact EXCEPT ![k] = [@ EXCEPT !.status = "ready", !.lock = 0, !.ttl = 0,
                                                                 !.path = File(b)[2]]]
                /\ UNCHANGED file
           ELSE file' = WithoutFile(File(b)) /\ UNCHANGED artifact
        /\ hand' = [hand EXCEPT ![b] = Idle]
        /\ UNCHANGED <<job, loaded>>

\* Rendering, writing or publishing raises.  A file that neither a row nor a
\* builder names any more stays on disk for good; the model forgets it.
Fail(b) ==
    LET k == hand[b].key
    IN  /\ hand[b] # Idle
        /\ artifact' = IF artifact[k].lock = hand[b].token
                       THEN [artifact EXCEPT ![k] =
                                [@ EXCEPT !.status = IF artifact[k].attempts >= MaxAttempts THEN "failed" ELSE "queued",
                                          !.lock = 0, !.ttl = 0]]
                       ELSE artifact
        /\ file' = WithoutFile(File(b))
        /\ hand' = [hand EXCEPT ![b] = Idle]
        /\ UNCHANGED <<job, loaded>>

Crash(b) ==
    /\ hand[b] # Idle
    /\ file' = WithoutFile(File(b))
    /\ hand' = [hand EXCEPT ![b] = Idle]
    /\ UNCHANGED <<job, loaded, artifact>>
-----------------------------------------------------------------------------
Tick ==
    /\ artifact' = [k \in Requested |-> [artifact[k] EXCEPT !.ttl = IF @ = 0 THEN 0 ELSE @ - 1]]
    /\ UNCHANGED <<job, loaded, file, hand>>

ProcessOne(b) ==
    \/ ClaimNothing(b)
    \/ \E k \in Requested : Claim(b, k)
    \/ Open(b) \/ Write(b) \/ Publish(b)

Next ==
    \/ Result \/ (\E s \in TerminalStates : End(s)) \/ Retry
    \/ \E u \in DOMAIN loaded : Load(u) \/ Request(u)
    \/ EnqueueFinal \/ EnqueueUnreadable
    \/ \E b \in Builders : ProcessOne(b) \/ Fail(b) \/ Crash(b)
    \/ Tick

Spec == Init /\ [][Next]_vars

\* Maintenance and builders loop, and rendering ends.
FairSpec ==
    /\ Spec /\ WF_vars(Tick)
    /\ WF_vars(EnqueueFinal \/ EnqueueUnreadable)
    /\ \A b \in Builders : WF_vars(ProcessOne(b))
-----------------------------------------------------------------------------
(* Properties. *)

\* A ready artifact has its file, whole, on disk: a builder that lost its lock
\* neither replaces nor removes the file of the one that published.
ReadyHasItsFile ==
    \A k \in Requested : artifact[k].status = "ready" =>
        /\ <<k, artifact[k].path>> \in DOMAIN file
        /\ file[<<k, artifact[k].path>>]

\* What has been downloaded once stays the same: neither a later request, one
\* that read the job before its end or its retry included, nor a late builder,
\* a result or a retry of the job touches a ready artifact.
ReadyIsFinal ==
    [][\A k \in Requested : artifact[k].status = "ready" => k \in DOMAIN artifact' /\ artifact'[k] = artifact[k]]_vars

\* The maintenance, which looks at every job again and again, asks for one final
\* export of each generation, whether it is built, fails or cannot be read
\* (a person who loaded the job before its end may ask for another one).
Quiet == DOMAIN loaded = {}
OneFinalPerGeneration ==
    Quiet => \A k, l \in Requested : ~Partial(k) /\ ~Partial(l) /\ k.version = l.version => k = l

\* Every export that was asked for is built or given up in the end, however
\* often builders die or lose their lock.
ExportSettles == <>[](\A k \in Requested : artifact[k].status \in {"ready", "failed"})

\* A generation that ended with results gets its final export by itself.
EndedIsExported ==
    (job.status = "completed_with_errors") ~>
        (job.status = "running" \/ \E k \in Requested :
            k.version = job.version /\ ~Partial(k) /\ artifact[k].status \in {"ready", "failed"})
=============================================================================
