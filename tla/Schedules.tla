----------------------------- MODULE Schedules ------------------------------
(***************************************************************************)
(* Recurring schedules and idempotent requests over the catalog            *)
(* (machine_admin/scheduling.py, operations.py create_execution, the       *)
(* schedule handlers of product_api.py and product_admin.py, and the tick  *)
(* of run_operational_scheduler.py).                                       *)
(*                                                                         *)
(* Schedulers are the replicas of the operational scheduler.  Time is a    *)
(* count of cron instants, each a due time of every schedule; a process    *)
(* may read a clock up to Lag behind.  Portals, accounts, cron fields and  *)
(* the window of an agreement are left out.                                *)
(***************************************************************************)
EXTENDS DatasetCatalog, SequencesExt

CONSTANTS Schedulers, NumSchedules, Keys, MaxTime, Grace, Lag, MaxAsks

ASSUME SchedulesAssumption ==
    /\ Schedulers \cap (Handlers \cup {None}) = {}
    /\ MaxBases \in Nat \ {0} /\ NumSchedules \in Nat /\ MaxTime \in Nat
    /\ Keys \cap ((1..NumSchedules) \X (0..MaxTime + 1)) = {}
    /\ None \notin {"created", "blocked", "skipped_late", "skipped_overlap"}

VARIABLES clock,     \* the true time
          scheds,    \* the schedules: on, base, next due time
          occs,      \* the recorded occurrences: their status
          jobs,      \* the jobs, each with the trigger that made it
          requests,  \* JobRequest rows: the job of each used key
          req,       \* the schedule or job request a handler serves
          run,       \* the tick each scheduler is in
          asks       \* requests and failures so far

ownVars == <<clock, scheds, occs, jobs, requests, req, run>>
vars == <<catVars, ownVars, asks>>

Times == 0..MaxTime
Dues == 0..MaxTime + 1
Occurrences == (1..NumSchedules) \X Dues
Triggers == Occurrences \cup Keys
Now == {n \in Times : n <= clock /\ clock <= n + Lag}
NextDue_Again(now) == now
NextDue(now) == now + 1

BaseReady_AnyStatus(b) == bases[b].members # {}
BaseReady(b) == bases[b].status = "ready" /\ bases[b].members # {}
NewJob(b, t) == [base |-> b, trigger |-> t, active |-> TRUE]
Running_Never(s) == FALSE
Running(s) == \E j \in DOMAIN jobs : jobs[j].active /\ jobs[j].trigger \in {s} \X Dues

(* create_execution for a base that was ready when its lock was taken: the *)
(* job a key made is returned again, and refused to another base.          *)
Reused(b, t) == requests[t] # 0 /\ jobs[requests[t]].base = b
Refused(b, t) == IF requests[t] # 0 THEN jobs[requests[t]].base # b ELSE ~BaseReady(b)

-----------------------------------------------------------------------------
(* Row locks: a tick and an edit hold the schedules they selected. *)

Quiet == [op |-> "idle", base |-> 0, sched |-> 0, key |-> None]
NoTick == [now |-> 0, rows |-> {}, todo |-> {}, done |-> {}]

Free(p) == tx[p] = Idle /\ req[p] = Quiet
RowTaken(s) == \/ \E p \in Handlers : req[p].op = "patch" /\ req[p].sched = s
               \/ \E p \in Schedulers : s \in run[p].rows
Replies(p) == /\ req' = [req EXCEPT ![p] = Quiet]
              /\ owner' = IF owner = p THEN None ELSE owner
CatalogStill == UNCHANGED <<rule, bases, files, tx>>
Asks(p, request) == /\ Free(p)
                    /\ req' = [req EXCEPT ![p] = request]

(* create_schedule takes the catalog, and only then looks at the base. *)
CreateSchedule(p) ==
    /\ Free(p)
    /\ owner = None
    /\ Len(scheds) < NumSchedules
    /\ \E b \in DOMAIN bases, now \in Now :
          /\ BaseReady(b)
          /\ scheds' = Append(scheds, [on |-> TRUE, base |-> b, next |-> NextDue(now)])
    /\ CatalogStill
    /\ UNCHANGED <<clock, occs, jobs, requests, req, run, owner>>

(* An edit locks the row first.  {"enabled": False} needs nothing else ... *)
Disable(p) ==
    \E s \in DOMAIN scheds :
        /\ Free(p)
        /\ ~RowTaken(s)
        /\ scheds' = [scheds EXCEPT ![s] = [@ EXCEPT !.on = FALSE]]
        /\ CatalogStill
        /\ UNCHANGED <<clock, occs, jobs, requests, req, run, owner>>

(* ... any other change then waits for the catalog, with the row held. *)
PatchAsk(p) ==
    \E s \in DOMAIN scheds, b \in DOMAIN bases :
        /\ ~RowTaken(s)
        /\ Asks(p, [Quiet EXCEPT !.op = "patch", !.sched = s, !.base = b])
        /\ CatalogStill
        /\ UNCHANGED <<clock, scheds, occs, jobs, requests, run, owner>>

UpdateSchedule(p) ==
    /\ req[p].op = "patch"
    /\ owner = None
    /\ LET s == req[p].sched
           b == req[p].base
       IN  IF BaseReady(b)
           THEN \E now \in Now, on \in BOOLEAN :
                    scheds' = [scheds EXCEPT ![s] = [on |-> on, base |-> b, next |-> NextDue(now)]]
           ELSE UNCHANGED scheds
    /\ Replies(p)
    /\ CatalogStill
    /\ UNCHANGED <<clock, occs, jobs, requests, run>>

(* A job request: the key is locked, an earlier job is looked for and the  *)
(* base is tested before the catalog is waited for, and tested again.      *)
KeyTaken(k) == \E p \in Handlers : req[p].op = "execute" /\ req[p].key = k

ExecuteAsk(p) ==
    \E k \in Keys, b \in DOMAIN bases :
        /\ ~KeyTaken(k)
        /\ ~Reused(b, k) /\ ~Refused(b, k)
        /\ Asks(p, [Quiet EXCEPT !.op = "execute", !.key = k, !.base = b])
        /\ CatalogStill
        /\ UNCHANGED <<clock, scheds, occs, jobs, requests, run, owner>>

Execute(p) ==
    /\ req[p].op = "execute"
    /\ owner = None
    /\ IF BaseReady(req[p].base)
       THEN /\ jobs' = Append(jobs, NewJob(req[p].base, req[p].key))
            /\ requests' = [requests EXCEPT ![req[p].key] = Len(jobs')]
       ELSE UNCHANGED <<jobs, requests>>
    /\ Replies(p)
    /\ CatalogStill
    /\ UNCHANGED <<clock, scheds, occs, run>>

(* Removing a base switches its schedules off, so it waits for their rows. *)
ArchiveSteps(p) ==
    /\ Archive(p)
    /\ LET b == tx[p].base
           mine == {s \in DOMAIN scheds : scheds[s].base = b}
       IN  IF MayArchive(b)
           THEN /\ \A s \in mine : ~RowTaken(s)
                /\ scheds' = [s \in DOMAIN scheds |->
                                IF s \in mine THEN [scheds[s] EXCEPT !.on = FALSE] ELSE scheds[s]]
           ELSE UNCHANGED scheds
    /\ UNCHANGED <<clock, occs, jobs, requests, req, run>>

(* An edit that holds a row and a removal that holds the catalog wait for  *)
(* each other: PostgreSQL aborts one of the two.                           *)
Deadlocked(p, q) == /\ Holds(p, "archive") /\ MayArchive(tx[p].base)
                    /\ req[q].op = "patch" /\ scheds[req[q].sched].base = tx[p].base

DeadlockAborts ==
    \E p, q \in Handlers :
        /\ Deadlocked(p, q)
        /\ \/ /\ Answered(p)
              /\ UNCHANGED req
           \/ /\ Replies(q)
              /\ UNCHANGED tx
        /\ UNCHANGED <<rule, bases, files, clock, scheds, occs, jobs, requests, run>>

(* The process of a handler dies, or its client gives up. *)
RequestDies(p) ==
    /\ req[p] # Quiet
    /\ Replies(p)
    /\ CatalogStill
    /\ UNCHANGED <<clock, scheds, occs, jobs, requests, run>>

-----------------------------------------------------------------------------
(* The tick of a scheduler is one transaction. *)

Due(now) == {s \in DOMAIN scheds : scheds[s].on /\ scheds[s].next <= now /\ ~RowTaken(s)}

TickBegin(p) ==
    \E now \in Now :
        /\ run[p] = NoTick
        /\ Due(now) # {}
        /\ run' = [run EXCEPT ![p] = [NoTick EXCEPT !.now = now, !.rows = Due(now), !.todo = Due(now)]]
        /\ CatalogStill
        /\ UNCHANGED <<clock, scheds, occs, jobs, requests, req, owner>>

(* It never waits for the catalog: a schedule it cannot have keeps its due *)
(* time for a later tick.                                                  *)
TickTake(p) ==
    \E s \in run[p].todo :
        LET free == owner \in {None, p}
        IN  /\ run' = [run EXCEPT ![p] = [run[p] EXCEPT !.todo = @ \ {s},
                                                       !.done = IF free THEN @ \cup {s} ELSE @]]
            /\ owner' = IF free THEN p ELSE owner
            /\ CatalogStill
            /\ UNCHANGED <<clock, scheds, occs, jobs, requests, req>>

(* What becomes of a due schedule, tested in this order. *)
DueOf(s) == <<s, scheds[s].next>>
Late(p, s) == run[p].now - scheds[s].next > Grace
Verdict(p, s) ==
    CASE occs[DueOf(s)] # None -> occs[DueOf(s)]
      [] occs[DueOf(s)] = None /\ Late(p, s) -> "skipped_late"
      [] occs[DueOf(s)] = None /\ ~Late(p, s) /\ Running(s) -> "skipped_overlap"
      [] OTHER -> IF Refused(scheds[s].base, DueOf(s)) THEN "blocked" ELSE "created"

TickCommit(p) ==
    /\ run[p].rows # {} /\ run[p].todo = {}
    /\ LET done == run[p].done
           starting == {s \in done : /\ occs[DueOf(s)] = None
                                     /\ Verdict(p, s) = "created"
                                     /\ requests[DueOf(s)] = 0}
           made == SetToSeq({NewJob(scheds[s].base, DueOf(s)) : s \in starting})
       IN  /\ scheds' = [s \in DOMAIN scheds |->
                           IF s \in done THEN [scheds[s] EXCEPT !.next = NextDue(run[p].now)]
                                         ELSE scheds[s]]
           /\ occs' = [o \in Occurrences |->
                         IF \E s \in done : o = DueOf(s) THEN Verdict(p, o[1]) ELSE occs[o]]
           /\ jobs' = jobs \o made
           /\ requests' = [t \in Triggers |->
                             IF \E s \in starting : t = DueOf(s)
                             THEN Len(jobs) + CHOOSE i \in DOMAIN made : made[i].trigger = t
                             ELSE requests[t]]
    /\ run' = [run EXCEPT ![p] = NoTick]
    /\ owner' = IF owner = p THEN None ELSE owner
    /\ CatalogStill
    /\ UNCHANGED <<clock, req>>

(* A replica dies, or its transaction fails: nothing of the tick remains. *)
TickFails(p) ==
    /\ run[p] # NoTick
    /\ run' = [run EXCEPT ![p] = NoTick]
    /\ owner' = IF owner = p THEN None ELSE owner
    /\ CatalogStill
    /\ UNCHANGED <<clock, scheds, occs, jobs, requests, req>>

JobEnds(j) ==
    /\ jobs[j].active
    /\ jobs' = [jobs EXCEPT ![j] = [@ EXCEPT !.active = FALSE]]
    /\ CatalogStill
    /\ UNCHANGED <<clock, scheds, occs, requests, req, run, owner>>

(* An operator retries a job that ended with items failed or cancelled: it  *)
(* is queued again, whatever other jobs its schedule has.                  *)
JobRetried(j) ==
    /\ ~jobs[j].active
    /\ jobs' = [jobs EXCEPT ![j] = [@ EXCEPT !.active = TRUE]]
    /\ CatalogStill
    /\ UNCHANGED <<clock, scheds, occs, requests, req, run, owner>>

Tick ==
    /\ clock < MaxTime
    /\ clock' = clock + 1
    /\ CatalogStill
    /\ UNCHANGED <<scheds, occs, jobs, requests, req, run, owner>>
-----------------------------------------------------------------------------
InitSchedules ==
    /\ Init
    /\ clock = 0
    /\ scheds = <<>>
    /\ occs = [o \in Occurrences |-> None]
    /\ jobs = <<>>
    /\ requests = [t \in Triggers |-> 0]
    /\ req = [p \in Handlers |-> Quiet]
    /\ run = [p \in Schedulers |-> NoTick]
    /\ asks = 0

(* MaxAsks bounds the requests of people and integrations, and failures.   *)
Ask(p) == /\ asks < MaxAsks
          /\ asks' = asks + 1
          /\ \/ req[p] = Quiet /\ CatalogAsk(p) /\ UNCHANGED ownVars
             \/ CreateSchedule(p) \/ Disable(p) \/ PatchAsk(p) \/ ExecuteAsk(p)

Work(p) == /\ \/ CatalogWork(p) /\ UNCHANGED ownVars
              \/ ArchiveSteps(p) \/ UpdateSchedule(p) \/ Execute(p)
           /\ UNCHANGED asks

Fail(p) == /\ \/ p \in Handlers /\ (ImportFails(p) \/ Crash(p)) /\ UNCHANGED ownVars
              \/ p \in Handlers /\ RequestDies(p)
              \/ p \in Schedulers /\ TickFails(p)
           /\ asks < MaxAsks
           /\ asks' = asks + 1

TickStep(p) == /\ TickBegin(p) \/ TickTake(p) \/ TickCommit(p)
               /\ UNCHANGED asks

Aborts == DeadlockAborts /\ UNCHANGED asks

NextSchedules ==
    \/ \E p \in Handlers : Ask(p) \/ Work(p)
    \/ \E p \in Schedulers : TickStep(p)
    \/ \E p \in Handlers \cup Schedulers : Fail(p)
    \/ Aborts
    \/ (Tick \/ \E j \in DOMAIN jobs : JobEnds(j)) /\ UNCHANGED asks
    \/ \E j \in DOMAIN jobs : JobRetried(j) /\ asks < MaxAsks /\ asks' = asks + 1

(* The database wakes who waits for a lock when it is released, and breaks *)
(* a deadlock; a scheduler ticks every five seconds, so it does not take a *)
(* row again before the handler that waited for it (strong fairness).      *)
SchedulesSpec ==
    /\ InitSchedules /\ [][NextSchedules]_vars
    /\ \A p \in Handlers : SF_vars(Work(p))
    /\ \A p \in Schedulers : WF_vars(TickStep(p))
    /\ WF_vars(Aborts)

-----------------------------------------------------------------------------
(* What the schedules promise *)

(* The jobs as the triggers see them: what each started and from which     *)
(* base, the occurrences decided without one, the triggers whose job is    *)
(* unfinished, and the bases that are out of the catalog.                  *)
SchedulesOf(t) == IF t \in Occurrences THEN {t[1]} ELSE {}
JobsOf(t) == {j \in DOMAIN jobs : jobs[j].trigger = t}
Runs == [t \in Triggers |->
           [i \in 1..Cardinality(JobsOf(t)) |-> jobs[CHOOSE j \in JobsOf(t) : TRUE].base]]
Skipped == {o \in Occurrences : occs[o] \notin {None, "created"}}
Live == {jobs[j].trigger : j \in {i \in DOMAIN jobs : jobs[i].active}}
Removed == {b \in DOMAIN bases : bases[b].status = "archived"}

(* Keys and occurrences start at most one job each, none starts beside an  *)
(* unfinished job of its schedule or from a removed base, whatever         *)
(* replicas, clocks, operators' retries and removals do (JobTriggers).     *)
Promise == INSTANCE JobTriggers WITH
    Bases <- 1..MaxBases, ScheduleOf <- SchedulesOf,
    runs <- Runs, skipped <- Skipped, live <- Live, removed <- Removed
KeepsPromise == Promise!Spec

(* An enabled schedule has a base that was not removed: a removal switches *)
(* off its schedules, and every way to switch one on looks at the base     *)
(* under the lock of the catalog (archive_dataset, update_schedule).       *)
EnabledHasBase ==
    \A s \in DOMAIN scheds : scheds[s].on => bases[scheds[s].base].status # "archived"

(* A due schedule is decided by some tick, or stops being due: a busy      *)
(* catalog, a dead replica or a deadlock only delay it.                    *)
DueAt(s, d) == /\ s \in DOMAIN scheds
               /\ scheds[s].on
               /\ scheds[s].next = d
               /\ d <= clock
DueIsDecided == \A s \in 1..NumSchedules, d \in Dues : DueAt(s, d) ~> ~DueAt(s, d)
=============================================================================
