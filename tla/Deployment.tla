------------------------------ MODULE Deployment ------------------------------
(***************************************************************************)
(* deploy.py and the host it drives: releases beside each other, the       *)
(* symbolic link `current`, systemd units, the shared data, and one        *)
(* command at a time whose root script runs on the host step by step.      *)
(*                                                                         *)
(* A step may fail, the connection may drop (the script then goes on or    *)
(* dies, and nobody restores), and the host may restart.  The operator     *)
(* gives the next command when no script runs.  The database's schema is   *)
(* a number, a release's Revision the one its migrations lead to; what     *)
(* the installation before releases (Legacy) wrote since its data were     *)
(* copied to the shared directories is one flag.                           *)
(***************************************************************************)
EXTENDS SequencesExt

CONSTANTS
    None, Legacy,
    Self,         \* the link's own path
    Builds,       \* release identifiers
    Revision,     \* Builds -> the schema their migrations lead to
    Service,      \* SERVICE_UNITS, the backend first
    Ships,        \* Builds -> the service units in their deploy directory
    LegacyUnits,  \* units installed before the first release
    Keep,         \* MACHINE_KEEP_RELEASES
    MaxCommands,  \* bound: commands given
    MaxUpsets     \* bound: failures, lost connections, restarts

ServiceUnits == Range(Service)
Units == ServiceUnits \cup LegacyUnits
Retired == LegacyUnits \ ServiceUnits
Backend == Service[1]

ASSUME DeploymentAssumption ==
    /\ None # Legacy /\ Self \notin {None, Legacy}
    /\ {None, Legacy, Self} \cap Builds = {}
    /\ Revision \in [Builds -> Nat] /\ Ships \in [Builds -> SUBSET ServiceUnits]
    /\ Service \in Seq(Range(Service)) /\ Service # <<>> /\ IsInjective(Service)
    /\ Keep \in 2..20 /\ MaxCommands \in Nat /\ MaxUpsets \in Nat

VARIABLES
    legacy,    \* the legacy directory exists
    ready,     \* when each release was made ready (the command); 0: it is not
    current,   \* the target of the link; Self: it names itself; None: no link
    unit,      \* the target whose unit file is installed
    enabled,   \* units started with the host
    running,   \* the target whose code each unit runs
    imported,  \* shared/.legacy-imported
    ahead,     \* Legacy wrote since the last copy
    token,     \* shared/.env: absent, or its worker token
    envs,      \* the worker token of the services' environments
    schema,
    backups,   \* the schemas dumped, oldest first
    cmd,       \* the command under way
    pc,        \* its step
    reply,     \* how the last command ended
    proven,    \* releases an activation has validated
    strayed,   \* a rollback chose a release that is none of these
    given, upsets

host == <<ready, current, unit, enabled, running, imported, ahead, token, envs,
          schema, backups, proven, strayed>>
vars == <<legacy, host, cmd, pc, reply, given, upsets>>

NoCommand == [verb |-> "none", release |-> None, backup |-> FALSE,
              go |-> FALSE, was |-> None, before |-> 0, line |-> TRUE, at |-> 0]
NoReply == [kind |-> "none", cmd |-> NoCommand]

Ready == {b \in Builds : ready[b] > 0}
IsReady(b) == b \in Ready
Exists(t) == IF t = Legacy THEN legacy ELSE IsReady(t)
Shipped(t) == IF t = Legacy THEN LegacyUnits \cap ServiceUnits ELSE Ships[t]

\* A legacy unit names the legacy directory, a release's unit the link, where
\* there is nothing to run as long as the link names itself.
Code(u) ==
    CASE unit[u] = None -> None
      [] unit[u] = Legacy -> Legacy
      [] OTHER -> IF current = Self THEN None ELSE current

\* The first service that is still to be done, in the order of the script.
At == Service[cmd.at]

\* Without WORKER_API_TOKEN the worker gets the legacy token, if any.
WorkerToken == IF token = "none" THEN "legacy" ELSE token

Init ==
    /\ legacy \in BOOLEAN
    /\ ready = [b \in Builds |-> 0] /\ current = None /\ schema = 0 /\ backups = <<>>
    /\ unit = [u \in Units |-> IF legacy /\ u \in LegacyUnits THEN Legacy ELSE None]
    /\ running = unit
    /\ enabled = IF legacy THEN LegacyUnits ELSE {}
    /\ imported = FALSE /\ ahead = legacy
    /\ token = "absent" /\ envs = "absent"
    /\ cmd = NoCommand /\ pc = "idle" /\ reply = NoReply
    /\ proven = {} /\ strayed = FALSE /\ given = 0 /\ upsets = 0

-----------------------------------------------------------------------------
(***************************************************************************)
(* The command line.                                                       *)
(***************************************************************************)
Step(next) == pc' = next /\ cmd' = [cmd EXCEPT !.at = 1] /\ UNCHANGED reply

\* The operator hears of an end only while the connection holds.
End(kind) ==
    /\ pc' = "idle" /\ cmd' = NoCommand
    /\ reply' = [kind |-> IF cmd.line THEN kind ELSE "unknown", cmd |-> cmd]

Restoring == {"relink", "reunit", "restart", "recheck"}

Activating == cmd.verb # "rollback"

\* The script of this step exits with an error: main restores what was there
\* before an activation or a rollback, unless it is the connection that ended.
\* It does not guard the step that reads the link.
Abort ==
    IF ~cmd.line THEN End("unknown")
    ELSE IF pc \in {"prepare", "stage", "look"} THEN End("refused")
    ELSE IF pc \in Restoring THEN End("broken")
    ELSE Step("relink")

\* main: deploy, activate or rollback, with the parser's options.
Command ==
    /\ pc = "idle" /\ given < MaxCommands /\ given' = given + 1
    /\ \E b \in Builds, backup, go \in BOOLEAN :
        \/ cmd' = [NoCommand EXCEPT !.verb = "deploy", !.release = b,
                       !.backup = backup, !.go = go] /\ pc' = "prepare"
        \/ go /\ cmd' = [NoCommand EXCEPT !.verb = "activate", !.release = b,
                             !.backup = backup, !.go = go] /\ pc' = "prepare"
        \/ /\ go /\ backup
           /\ \E r \in {b, None} :
                cmd' = [NoCommand EXCEPT !.verb = "rollback", !.release = r] /\ pc' = "look"
    /\ reply' = NoReply
    /\ UNCHANGED <<legacy, host, upsets>>

\* _prepare_host: the first time, the legacy configuration is copied and the
\* link adopts the legacy directory, which a link that names itself prevents.
Prepare ==
    /\ pc = "prepare"
    /\ IF legacy /\ current = Self
       THEN Abort /\ UNCHANGED <<token, current>>
       ELSE /\ token' = IF token = "absent" /\ legacy THEN "none" ELSE token
            /\ current' = IF current = None /\ legacy THEN Legacy ELSE current
            /\ Step(IF cmd.verb = "deploy" THEN "stage" ELSE "look")
    /\ UNCHANGED <<legacy, ready, unit, enabled, running, imported, ahead, envs,
                   schema, backups, proven, strayed, given, upsets>>

\* _build_archive, _stage_release: unpacked and built under a hidden name; the
\* last step names it, so a release is whole or absent.
Stage ==
    /\ pc = "stage"
    /\ IF IsReady(cmd.release)
       THEN Abort /\ UNCHANGED ready
       ELSE /\ ready' = [ready EXCEPT ![cmd.release] = given]
            /\ IF cmd.go THEN Step("look") ELSE End("prepared")
    /\ UNCHANGED <<legacy, current, unit, enabled, running, imported, ahead, token,
                   envs, schema, backups, proven, strayed, given, upsets>>

\* _current_target: readlink -f names the link itself when there is none, and
\* nothing when the link names itself.
Found == CASE current = None -> Self [] current = Self -> None [] OTHER -> current

Look ==
    /\ pc = "look"
    /\ cmd' = [cmd EXCEPT !.was = Found]
    /\ pc' = IF cmd.verb = "rollback" THEN "pick" ELSE "check"
    /\ UNCHANGED <<legacy, host, reply, given, upsets>>

-----------------------------------------------------------------------------
(***************************************************************************)
(* _activate_release, up to the units.                                     *)
(***************************************************************************)
Check ==
    /\ pc = "check"
    /\ IF IsReady(cmd.release) /\ token # "absent"
       THEN envs' = WorkerToken /\ Step("stop")
       ELSE Abort /\ UNCHANGED envs
    /\ UNCHANGED <<legacy, ready, current, unit, enabled, running, imported, ahead,
                   token, schema, backups, proven, strayed, given, upsets>>

\* STOP_UNITS: the retired and the service units, the backend last.
Stop ==
    /\ pc = "stop"
    /\ \E u \in Units :
        /\ running[u] # None
        /\ u = Backend => \A v \in Units \ {u} : running[v] = None
        /\ running' = [running EXCEPT ![u] = None]
    /\ UNCHANGED <<legacy, ready, current, unit, enabled, imported, ahead, token, envs,
                   schema, backups, cmd, pc, reply, proven, strayed, given, upsets>>

ImportDue_Once == legacy /\ ~imported

\* Legacy data are copied as long as the link still names the old directory.
ImportDue == legacy /\ (current = Legacy \/ ~imported)

Import ==
    /\ pc = "stop" /\ \A u \in Units : running[u] = None
    /\ IF ImportDue THEN imported' = TRUE /\ ahead' = FALSE
       ELSE UNCHANGED <<imported, ahead>>
    /\ Step("backup")
    /\ UNCHANGED <<legacy, ready, current, unit, enabled, running, token, envs, schema,
                   backups, proven, strayed, given, upsets>>

LastOf(s) == SubSeq(s, IF Len(s) > Keep THEN Len(s) - Keep + 1 ELSE 1, Len(s))

\* create_backup renames a complete directory, then _prune_backups.
Backup ==
    /\ pc = "backup"
    /\ backups' = IF cmd.backup THEN LastOf(Append(backups, schema)) ELSE backups
    /\ Step("retire")
    /\ UNCHANGED <<legacy, ready, current, unit, enabled, running, imported, ahead,
                   token, envs, schema, proven, strayed, given, upsets>>

\* The retired services are disabled, then their secrets and keys removed.
Retire ==
    /\ pc = "retire"
    /\ enabled' = enabled \ Retired
    /\ Step("migrate")
    /\ UNCHANGED <<legacy, ready, current, unit, running, imported, ahead, token, envs,
                   schema, backups, proven, strayed, given, upsets>>

\* alembic upgrade head, in one transaction; the migrations of a release do
\* not know a schema that a later one has reached.
Migrate ==
    /\ pc = "migrate"
    /\ IF schema <= Revision[cmd.release]
       THEN /\ schema' = Revision[cmd.release]
            /\ cmd' = [cmd EXCEPT !.before = schema] /\ pc' = "token" /\ UNCHANGED reply
       ELSE Abort /\ UNCHANGED schema
    /\ UNCHANGED <<legacy, ready, current, unit, enabled, running, imported, ahead,
                   token, envs, backups, proven, strayed, given, upsets>>

\* ensure_service_tokens writes the file before it commits the row, so its
\* failure may leave a token that the database never knew.
EnsureTokens ==
    /\ pc = "token"
    /\ \/ token' = "known" /\ envs' = "known" /\ Step("unit") /\ UNCHANGED upsets
       \/ /\ token # "known" /\ upsets < MaxUpsets /\ upsets' = upsets + 1
          /\ token' = "lost" /\ Abort /\ UNCHANGED envs
    /\ UNCHANGED <<legacy, ready, current, unit, enabled, running, imported, ahead,
                   schema, backups, proven, strayed, given>>

-----------------------------------------------------------------------------
(***************************************************************************)
(* Units and link, for an activation and for a rollback.                   *)
(***************************************************************************)
\* _rollback: the release asked for, or the newest that is not the link's.
Picks ==
    IF cmd.release # None THEN {cmd.release} \cap Ready
    ELSE {b \in Ready \ {current} : \A o \in Ready \ {current} : ready[o] <= ready[b]}

Pick ==
    /\ pc = "pick"
    /\ IF Picks = {} THEN Abort /\ UNCHANGED <<envs, strayed>>
       ELSE /\ \E b \in Picks :
                /\ cmd' = [cmd EXCEPT !.release = b, !.at = 1]
                /\ strayed' = (strayed \/ b \notin proven)
            /\ pc' = "unit" /\ envs' = WorkerToken /\ UNCHANGED reply
    /\ UNCHANGED <<legacy, ready, current, unit, enabled, running, imported, ahead,
                   token, schema, backups, proven, given, upsets>>

Advance(next) ==
    IF cmd.at < Len(Service)
    THEN cmd' = [cmd EXCEPT !.at = @ + 1] /\ UNCHANGED <<pc, reply>>
    ELSE Step(next)

\* _service_install_script for one unit of target t: a unit t does not ship
\* ends an activation; otherwise it is stopped and removed.
Put(t) ==
    IF At \in Shipped(t)
    THEN unit' = [unit EXCEPT ![At] = t] /\ UNCHANGED running
    ELSE unit' = [unit EXCEPT ![At] = None] /\ running' = [running EXCEPT ![At] = None]

Install ==
    /\ pc = "unit"
    /\ IF Activating /\ At \notin Shipped(cmd.release)
       THEN Abort /\ UNCHANGED <<unit, running>>
       ELSE Put(cmd.release) /\ Advance("switch")
    /\ UNCHANGED <<legacy, ready, current, enabled, imported, ahead, token, envs,
                   schema, backups, proven, strayed, given, upsets>>

\* A new link is renamed over the old one; an activation enables the units.
Switch ==
    /\ pc = "switch"
    /\ current' = cmd.release
    /\ enabled' = IF Activating THEN enabled \cup ServiceUnits ELSE enabled
    /\ Step("start")
    /\ UNCHANGED <<legacy, ready, unit, running, imported, ahead, token, envs, schema,
                   backups, proven, strayed, given, upsets>>

\* The service units that are installed, or an error if there are none.
RestartAll(next) ==
    IF \E u \in ServiceUnits : unit[u] # None
    THEN /\ running' = [u \in Units |-> IF u \in ServiceUnits THEN Code(u) ELSE running[u]]
         /\ Step(next)
    ELSE Abort /\ UNCHANGED running

\* An activation starts the backend, waits for it and starts the others one
\* after the other; a rollback restarts every unit at once.
Start ==
    /\ pc = "start"
    /\ IF Activating
       THEN running' = [running EXCEPT ![At] = Code(At)] /\ Advance("verify")
       ELSE RestartAll("verify")
    /\ UNCHANGED <<legacy, ready, current, unit, enabled, imported, ahead, token, envs,
                   schema, backups, proven, strayed, given, upsets>>

Newer(b, releases) == Cardinality({o \in releases : ready[o] > ready[b]})
Retained_Newest == {b \in Ready : Newer(b, Ready) < Keep}

\* prune: the link's target and the newest others.
Retained == {b \in Ready : b = current \/ Newer(b, Ready \ {current}) < Keep - 1}

\* wait_for_backend, verify_units_stable: thirty seconds without a restart.
Up ==
    /\ running[Backend] # None
    /\ \A u \in ServiceUnits : unit[u] # None => running[u] # None

Verify ==
    /\ pc = "verify"
    /\ CASE ~Up -> Abort /\ UNCHANGED <<ready, proven>>
         [] Up /\ Activating ->
              /\ ready' = [b \in Builds |-> IF b \in Retained THEN ready[b] ELSE 0]
              /\ proven' = proven \cup {cmd.release} /\ End("active")
         [] OTHER -> End("rolled") /\ UNCHANGED <<ready, proven>>
    /\ UNCHANGED <<legacy, current, unit, enabled, running, imported, ahead, token,
                   envs, schema, backups, strayed, given, upsets>>

-----------------------------------------------------------------------------
(***************************************************************************)
(* _restore_previous: a script of its own on the same connection.          *)
(***************************************************************************)
\* The path found is a directory; the link's own is one once it was switched,
\* and to relink it then is to make it name itself, with no units of its own.
Restorable == IF cmd.was = Self THEN Exists(current) ELSE Exists(cmd.was)

Relink ==
    /\ pc = "relink"
    /\ current' = IF Restorable THEN cmd.was ELSE current
    /\ envs' = IF Restorable /\ cmd.was \in Builds THEN WorkerToken ELSE envs
    /\ Step(IF Restorable /\ cmd.was # Self THEN "reunit" ELSE "restart")
    /\ UNCHANGED <<legacy, ready, unit, enabled, running, imported, ahead, token,
                   schema, backups, proven, strayed, given, upsets>>

Reunit ==
    /\ pc = "reunit"
    /\ Put(cmd.was) /\ Advance("restart")
    /\ UNCHANGED <<legacy, ready, current, enabled, imported, ahead, token, envs,
                   schema, backups, proven, strayed, given, upsets>>

Restart ==
    /\ pc = "restart"
    /\ RestartAll("recheck")
    /\ UNCHANGED <<legacy, ready, current, unit, enabled, imported, ahead, token, envs,
                   schema, backups, proven, strayed, given, upsets>>

Recheck ==
    /\ pc = "recheck"
    /\ IF Up THEN End("restored") ELSE Abort
    /\ UNCHANGED <<legacy, host, given, upsets>>

-----------------------------------------------------------------------------
(***************************************************************************)
(* What goes on around a command.                                          *)
(***************************************************************************)
\* A command of the script fails, or the connection ends it.
Fail ==
    /\ pc # "idle" /\ upsets < MaxUpsets /\ upsets' = upsets + 1
    /\ Abort
    /\ UNCHANGED <<legacy, host, given>>

Drop ==
    /\ pc # "idle" /\ cmd.line /\ upsets < MaxUpsets /\ upsets' = upsets + 1
    /\ cmd' = [cmd EXCEPT !.line = FALSE]
    /\ UNCHANGED <<legacy, host, pc, reply, given>>

\* The host restarts: the enabled units start with the link as it is.
Reboot ==
    /\ upsets < MaxUpsets /\ upsets' = upsets + 1
    /\ running' = [u \in Units |-> IF u \in enabled THEN Code(u) ELSE None]
    /\ pc' = "idle" /\ cmd' = NoCommand
    /\ reply' = IF reply.kind = "active" THEN reply ELSE NoReply
    /\ UNCHANGED <<legacy, ready, current, unit, enabled, imported, ahead, token, envs,
                   schema, backups, proven, strayed, given>>

LegacyWrites ==
    /\ \E u \in Units : running[u] = Legacy
    /\ ahead' = TRUE
    /\ UNCHANGED <<legacy, ready, current, unit, enabled, running, imported, token,
                   envs, schema, backups, cmd, pc, reply, proven, strayed, given, upsets>>

\* The operator writes the shared configuration of a new host.
Configure ==
    /\ pc = "idle" /\ token = "absent" /\ given > 0
    /\ token' = "none"
    /\ UNCHANGED <<legacy, ready, current, unit, enabled, running, imported, ahead,
                   envs, schema, backups, cmd, pc, reply, proven, strayed, given, upsets>>

Next ==
    \/ Command \/ Prepare \/ Stage \/ Look
    \/ Check \/ Stop \/ Import \/ Backup \/ Retire \/ Migrate \/ EnsureTokens
    \/ Pick \/ Install \/ Switch \/ Start \/ Verify
    \/ Relink \/ Reunit \/ Restart \/ Recheck
    \/ Fail \/ Drop \/ Reboot \/ LegacyWrites \/ Configure

Spec == Init /\ [][Next]_vars

-----------------------------------------------------------------------------
\* Every installed service runs what the link names; no other service runs.
Serves(t) ==
    /\ current = t /\ Exists(t)
    /\ \A u \in ServiceUnits :
        /\ unit[u] = IF u \in Shipped(t) THEN t ELSE None
        /\ running[u] = unit[u]

\* What deploy.py tells the operator is what the host does: an activation that
\* reports success left every service on the release, at its schema, with a
\* token the database knows and, unless it was told not to, a dump of the
\* schema before, even if the host restarts; one that reports a restoration
\* left every service on the target it found, if there was one, whatever step had
\* failed.
CommandsKeepTheirWord ==
    LET c == reply.cmd IN
    /\ reply.kind = "active" =>
        /\ Serves(c.release) /\ ServiceUnits \subseteq enabled
        /\ schema = Revision[c.release] /\ envs = "known"
        /\ c.backup => Last(backups) = c.before
    /\ reply.kind = "rolled" => Serves(c.release)
    /\ reply.kind = "restored" /\ c.was \notin {None, Self} => Serves(c.was)

\* A release runs only on the data and the schema it needs: everything the
\* legacy installation wrote is in the shared directories, however often an
\* adoption failed, was interrupted or gave way to the old installation, which
\* went on writing.  A rollback that picks a release no activation has
\* validated imports and migrates nothing, and forfeits this.
NothingLeftBehind ==
    ~strayed => \A u \in ServiceUnits :
        running[u] \in Builds => ~ahead /\ schema >= Revision[running[u]]
=============================================================================
