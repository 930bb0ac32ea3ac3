---------------------------- MODULE JobTriggers ----------------------------
(***************************************************************************)
(* What a caller may rely on when work is started by a request key or by a *)
(* schedule: a trigger is decided at most once, it starts at most one job, *)
(* no job starts while another of its schedule is unfinished, and none     *)
(* starts from a base after its removal.  Only a retry, which gives an     *)
(* ended job back its work, may leave a schedule two unfinished jobs.      *)
(***************************************************************************)
EXTENDS Naturals, Sequences

CONSTANTS Triggers, Bases, ScheduleOf(_)

VARIABLES runs,     \* for each trigger, the bases of the jobs it started
          skipped,  \* occurrences decided without a job
          live,     \* triggers whose job is unfinished
          removed   \* bases that are out of the catalog for good

vars == <<runs, skipped, live, removed>>

Undecided == {t \in Triggers : runs[t] = <<>> /\ t \notin skipped}
Related(t, u) == ScheduleOf(t) # {} /\ ScheduleOf(t) = ScheduleOf(u)

Init == /\ runs = [t \in Triggers |-> <<>>]
        /\ skipped = {}
        /\ live = {}
        /\ removed = {}

(* Triggers are decided, a few at once: some start a job, some are skipped. *)
Decide(started, refused) ==
    /\ \A t \in Triggers :
          IF t \in started THEN \E b \in Bases \ removed : runs'[t] = <<b>>
                           ELSE runs'[t] = runs[t]
    /\ \A t \in started, u \in started \cup live : t # u => ~Related(t, u)
    /\ DOMAIN runs' = Triggers
    /\ skipped' = skipped \cup refused
    /\ live' = live \cup started
    /\ UNCHANGED removed

Finish(t) == /\ live' = live \ {t}
             /\ UNCHANGED <<runs, skipped, removed>>

Retry(t) == /\ runs[t] # <<>>
            /\ live' = live \cup {t}
            /\ UNCHANGED <<runs, skipped, removed>>

Remove(b) == /\ removed' = removed \cup {b}
             /\ UNCHANGED <<runs, skipped, live>>

Next == \/ \E started \in SUBSET Undecided :
              \E refused \in SUBSET (Undecided \ started) : Decide(started, refused)
        \/ \E t \in live : Finish(t)
        \/ \E t \in Triggers \ live : Retry(t)
        \/ \E b \in Bases : Remove(b)

Spec == Init /\ [][Next]_vars

-----------------------------------------------------------------------------
OneRunPerTrigger == \A t \in Triggers : Len(runs[t]) <= 1
StartsAlone ==
    [][\A t \in Triggers, u \in live' :
          runs[t] = <<>> /\ runs'[t] # <<>> /\ t # u => ~Related(t, u)]_vars
=============================================================================
