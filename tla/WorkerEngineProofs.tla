------------------------- MODULE WorkerEngineProofs -------------------------
(***************************************************************************)
(* Proofs about the workers that drive the queue, for every number of      *)
(* workers, accesses, items and faults.                                    *)
(*                                                                         *)
(* Every step of the engine is a step of the queue or leaves it alone, so  *)
(* what is proved of the queue holds of the queue as the workers drive it; *)
(* the invariants below add what a worker knows to what the queue has.     *)
(***************************************************************************)
EXTENDS WorkerEngine, JobQueueProofs, WellFoundedInduction

-----------------------------------------------------------------------------
(***************************************************************************)
(* The inductive invariant of the engine.                                  *)
(***************************************************************************)
EngineTypes ==
    /\ phase \in [Workers -> Phases]
    /\ access \in [Workers -> Creds \cup {None}]
    /\ open \in [Workers -> Creds \cup {None}]
    /\ todo \in [Workers -> SUBSET (Items \X Numbers)]
    /\ answer \in [Workers -> Outcomes \cup {None}]
    /\ age \in [Workers -> 0 .. LeaseTicks]

\* What the phase of worker w tells of its other variables.
Shape(w) ==
    /\ IF phase[w] = "idle" THEN access[w] = None
       ELSE access[w] \in Creds /\ open[w] \in {None, access[w]}
    /\ phase[w] = "releasing" => open[w] = None
    /\ phase[w] \in {"batch", "consulting", "answering"} => todo[w] # {}
    /\ phase[w] = "answering" => answer[w] \in Outcomes

\* The accesses of w are reserved for what is left of a lease since its last
\* answered renewal.
Fresh(w) ==
    age[w] < LeaseTicks =>
        \A c \in {open[w], access[w]} \ {None} :
            lease[c].worker = w /\ lease[c].ttl + age[w] >= LeaseTicks

\* The deliveries w has in its batch were made to w.
Delivered(w) ==
    \A p \in todo[w] : p[2] <= item[p[1]].attempts /\ attempt[p[1]][p[2]].worker = w

\* Delivery p is out with w: claimed under the access lease w has now.
Mine(w, p) ==
    /\ item[p[1]].hold.via = access[w] /\ item[p[1]].attempts = p[2]
    /\ JobOf[p[1]] = lease[access[w]].job

\* Delivery p is closed by the answer w has for it.
Done(w, p) ==
    /\ item[p[1]].status \in {"completed", "failed"} /\ item[p[1]].outcome = answer[w]
    /\ item[p[1]].attempts = p[2]
    /\ JobOf[p[1]] = lease[access[w]].job

\* As long as the access lease of w is live, what w has in its batch is its own.
Batched(w) ==
    Valid(w) =>
        /\ phase[w] \in {"batch", "consulting"} => \A p \in todo[w] : Mine(w, p)
        /\ phase[w] = "answering" =>
              /\ \A p \in Rest(w) : Mine(w, p)
              /\ answer[w] \notin Retryable => Mine(w, First(w)) \/ Done(w, First(w))

WorkerInv(w) == Shape(w) /\ Fresh(w) /\ Delivered(w) /\ Batched(w)

\* No access is reserved for a job that does not exist yet.
CreatedOnly == \A c \in Creds : lease[c].ttl > 0 => status[lease[c].job] # "absent"

EngineInv == EngineTypes /\ CreatedOnly /\ \A w \in Workers : WorkerInv(w)

-----------------------------------------------------------------------------
(***************************************************************************)
(* What a live access lease protects in the queue.                         *)
(***************************************************************************)
\* A step of the queue that reserves and releases nothing, answers no delivery and
\* takes no time.
Other ==
    \/ \E w \in Workers : \/ ClaimRead(w) \/ ClaimFails(w)
                          \/ \E c \in Creds : ClaimCommit(w, c)
    \/ \E c \in Creds : Heartbeat(c)
    \/ OperatorStep \/ (\E j \in Jobs : Maintain(j))
    \/ UNCHANGED vars

Reserves(w) == phase[w] = "idle" /\ \E c \in Creds, j \in Jobs : Acquire(w, c, j)

Answers(i, n) == \E o \in Outcomes : Answer(i, n, o) \/ \E b \in BOOLEAN : Requeue(i, n, o, b)

\* A step that neither releases access c nor answers a delivery of an item in S.
Elsewhere(c, S) ==
    \/ Other
    \/ \E w \in Workers : Reserves(w)
    \/ \E d \in Creds \ {c} : Release(d)
    \/ \E k \in Items \ S, n \in Numbers : Answers(k, n)

\* A live lease of access c goes on and does not get shorter, unless c is released.
LEMMA LeaseElsewhere ==
    ASSUME TypeInv, NEW c \in Creds, lease[c].ttl > 0, NEW S, Elsewhere(c, S)
    PROVE  /\ lease'[c].worker = lease[c].worker /\ lease'[c].job = lease[c].job
           /\ lease[c].ttl \in Nat /\ lease'[c].ttl \in Nat
           /\ lease'[c].ttl >= lease[c].ttl
<1>0. /\ lease \in [Creds -> LeaseRows] /\ LeaseTicks \in Nat
      /\ lease[c] \in [worker : Workers, job : Jobs, ttl : 0 .. LeaseTicks]
      /\ lease[c].ttl \in Nat /\ lease[c].ttl <= LeaseTicks /\ c \in LiveLeases
    BY JobQueueAssumption DEF TypeInv, TypeOK, LeaseRows, NoLease, LiveLeases
<1>1. CASE lease'[c] = lease[c]
    BY <1>0, <1>1
<1>2. ASSUME NEW w \in Workers, NEW d \in Creds, NEW j \in Jobs, Acquire(w, d, j)
      PROVE  lease'[c] = lease[c]
    BY <1>0, <1>2 DEF Acquire
<1>3. ASSUME NEW d \in Creds, Heartbeat(d)
      PROVE  lease'[c] = lease[c] \/ lease'[c] = [lease[c] EXCEPT !.ttl = LeaseTicks]
    BY <1>0, <1>3 DEF Heartbeat
<1>4. CASE lease'[c] = [lease[c] EXCEPT !.ttl = LeaseTicks]
    BY <1>0, <1>4
<1>5. ASSUME NEW d \in Creds \ {c}, Release(d) PROVE lease'[c] = lease[c]
    <2> DEFINE leases == [lease EXCEPT ![d] = NoLease]
    <2>1. PICK j, s, rows, log : FinalizeDraining(j, s, rows, log, leases)
        BY <1>5 DEF Release
    <2>2. leases[c] = lease[c]
        BY <1>0
    <2> HIDE DEF leases
    <2> QED BY <1>0, <2>1, <2>2, FinalizeDrainingLeases
<1>6. ASSUME NEW j \in Jobs, Pause(j) \/ Cancel(j) \/ MaintainDraining(j)
      PROVE  lease'[c] = lease[c]
    <2>1. PICK s : FinalizeDraining(j, s, item, attempt, lease)
        BY <1>6 DEF Pause, Cancel, MaintainDraining
    <2> QED BY <1>0, <2>1, FinalizeDrainingLeases
<1>7. lease'[c] = lease[c] \/ lease'[c] = [lease[c] EXCEPT !.ttl = LeaseTicks]
    <2>1. CASE Other
        BY <2>1, <1>3, <1>6
        DEF Other, OperatorStep, Maintain, Create, Resume, Retry,
            MaintainActive, ClaimRead, ClaimFails, ClaimCommit, vars
    <2>2. ASSUME NEW k \in Items, NEW n \in Numbers, Answers(k, n) PROVE lease' = lease
        BY <2>2 DEF Answers, Answer, Requeue, Close
    <2> QED BY <1>2, <1>5, <2>1, <2>2 DEF Elsewhere, Reserves
<1> QED BY <1>1, <1>4, <1>7

\* The end of a drain leaves alone the item of a job with a live access lease.
LEMMA FinalizeDrainingSpares ==
    ASSUME NEW j, NEW s, NEW rows, NEW log, NEW leases, NEW c \in Creds, NEW i \in Items,
           FinalizeDraining(j, s, rows, log, leases),
           leases[c].ttl > 0, leases[c].job = JobOf[i], rows[i] = item[i], DOMAIN rows = Items
    PROVE  item'[i] = item[i]
<1>1. CASE item' = rows
    BY <1>1
<1>2. CASE s \in DrainingStates /\ ~Reserved(j, leases)
    <2>1. JobOf[i] # j
        BY <1>2 DEF Reserved
    <2>2. i \notin ItemsOf(j)
        BY <2>1 DEF ItemsOf
    <2> QED BY <1>2, <2>2 DEF FinalizeDraining, Reserved
<1> QED BY <1>1, <1>2 DEF FinalizeDraining

\* The row of an item that is out under a live lease of access c, or that is
\* closed in a job that has one, is kept while c is held.
LEMMA ItemElsewhere ==
    ASSUME TypeInv, SessionInv, NEW c \in Creds, lease[c].ttl > 0, NEW i \in Items,
           JobOf[i] = lease[c].job, Elsewhere(c, {i}) \/ Tick,
           item[i].hold.via = c \/ item[i].status \in {"completed", "failed"}
    PROVE  /\ item'[i].status = item[i].status /\ item'[i].outcome = item[i].outcome
           /\ item'[i].attempts = item[i].attempts
           /\ item[i].hold.via = c => item'[i].hold.via = c
<1>0. /\ item \in [Items -> ItemRows] /\ item[i] \in ItemRows /\ lease[c] \in LeaseRows
      /\ lease \in [Creds -> LeaseRows] /\ c \in LiveLeases
      /\ LeaseTicks \in Nat /\ lease[c].ttl \in Nat
    BY JobQueueAssumption DEF TypeInv, TypeOK, LiveLeases, LeaseRows, NoLease
<1>1. item[i].hold.via = c =>
          /\ item[i].status = "leased" /\ item[i].hold.cred = c /\ item[i].hold.ttl > 0
    BY <1>0 DEF SessionInv, Covered, ItemRows, Holds
<1>2. CASE item'[i] = item[i]
    BY <1>2
<1>3. ASSUME NEW w \in Workers, NEW d \in Creds, NEW j \in Jobs, Acquire(w, d, j)
      PROVE  item'[i] = item[i] \/ (item[i].hold.via # c /\ item'[i] = [item[i] EXCEPT !.hold.via = None])
    BY <1>0, <1>3 DEF Acquire
<1>4. CASE item[i].hold.via # c /\ item'[i] = [item[i] EXCEPT !.hold.via = None]
    BY <1>0, <1>4 DEF ItemRows, Holds
<1>5. ASSUME NEW d \in Creds, Heartbeat(d)
      PROVE  item'[i] = item[i] \/ item'[i] = [item[i] EXCEPT !.hold.ttl = LeaseTicks]
    BY <1>5 DEF Heartbeat
<1>6. CASE item'[i] = [item[i] EXCEPT !.hold.ttl = LeaseTicks]
    BY <1>0, <1>6 DEF ItemRows, Holds
<1>7. ASSUME NEW w \in Workers, NEW d \in Creds, ClaimCommit(w, d) PROVE item'[i] = item[i]
    <2>1. item[i].hold.ttl \in Nat
        BY <1>0 DEF ItemRows, Holds
    <2>2. ~Ready(i)
        BY <1>1, <2>1 DEF Ready
    <2> QED BY <1>7, <2>2 DEF ClaimCommit, Batch
<1>8. ASSUME NEW k \in Items \ {i}, NEW n \in Numbers, Answers(k, n) PROVE item'[i] = item[i]
    BY <1>0, <1>8 DEF Answers, Answer, Requeue, Close
<1>9. ASSUME NEW d \in Creds \ {c}, Release(d) PROVE item'[i] = item[i]
    <2> DEFINE j == lease[d].job
               back == {k \in ItemsOf(j) :
                            /\ item[k].status = "leased" /\ item[k].hold.cred = d
                            /\ item[k].hold.owner = lease[d].worker}
               rows == [k \in Items |->
                            IF k \in back
                            THEN Unheld(item[k], "pending", item[k].outcome, item[k].retries, 0)
                            ELSE item[k]]
               log == Closed(attempt, back, "abandoned")
               leases == [lease EXCEPT ![d] = NoLease]
    <2>1. FinalizeDraining(j, status[j], rows, log, leases)
        BY <1>9 DEF Release
    <2>2. i \notin back
        BY <1>1
    <2>3. leases[c] = lease[c] /\ rows[i] = item[i] /\ DOMAIN rows = Items
        BY <1>0, <2>2
    <2>4. leases[c].ttl > 0 /\ leases[c].job = JobOf[i]
        BY <2>3
    <2> HIDE DEF leases, rows, log, j
    <2> QED BY <2>1, <2>3, <2>4, FinalizeDrainingSpares
<1>10. ASSUME NEW j \in Jobs, Pause(j) \/ Cancel(j) \/ MaintainDraining(j)
       PROVE  item'[i] = item[i]
    <2>1. PICK s : FinalizeDraining(j, s, item, attempt, lease)
        BY <1>10 DEF Pause, Cancel, MaintainDraining
    <2>2. DOMAIN item = Items
        BY <1>0
    <2> QED BY <2>1, <2>2, FinalizeDrainingSpares
<1>11. ASSUME NEW j \in Jobs, Retry(j) PROVE item'[i] = item[i]
    <2>1. j # lease[c].job
        BY <1>0, <1>11 DEF Retry, LiveLeasesOf
    <2> QED BY <1>11, <2>1 DEF Retry, Reopened, ItemsOf
<1>12. ASSUME NEW j \in Jobs, MaintainActive(j) PROVE item'[i] = item[i]
    BY <1>12, NothingToExpire DEF MaintainActive
<1>13. CASE Tick
    <2>1. item'[i] = [item[i] EXCEPT !.hold.ttl = IF @ > 0 THEN @ - 1 ELSE 0,
                                     !.wait = IF @ > 0 THEN @ - 1 ELSE 0]
        BY <1>13 DEF Tick
    <2> QED BY <1>0, <2>1 DEF ItemRows, Holds
<1>14. CASE UNCHANGED item
    BY <1>2, <1>14
<1> QED
    BY <1>2, <1>3, <1>4, <1>5, <1>6, <1>7, <1>8, <1>9, <1>10, <1>11, <1>12, <1>13, <1>14
    DEF Elsewhere, Reserves, Other, OperatorStep, Maintain, Create, Resume, ClaimRead, ClaimFails, vars

\* A delivery made stays the one it was made to, and is never numbered again.
LEMMA DeliveryStays ==
    ASSUME TypeInv, [Next]_vars, NEW i \in Items, NEW n \in Numbers, n <= item[i].attempts
    PROVE  n <= item'[i].attempts /\ attempt'[i][n].worker = attempt[i][n].worker
<1>1. Moves(i) /\ attempt[i][n] \in AttemptRows /\ item[i].attempts \in Nat /\ n \in Nat
    BY HistoryMoves, RowsTyped, HistoryRange
<1>3. /\ item'[i].attempts \in {item[i].attempts, item[i].attempts + 1}
      /\ \/ attempt'[i][n] = attempt[i][n]
         \/ \E s : attempt'[i][n] = [attempt[i][n] EXCEPT !.status = s]
    <2>1. CASE Kept(i)
        BY <2>1 DEF Kept, SameRow
    <2>2. CASE Taken(i)
        <3>1. n # item[i].attempts + 1
            BY <1>1
        <3> QED BY <2>2, <3>1 DEF Taken
    <2>3. CASE Finished(i)
        <3>1. PICK o \in Outcomes :
                 /\ item'[i] = Answered(item[i], o)
                 /\ \A m \in Numbers : attempt'[i][m] =
                       IF m = item[i].attempts THEN [attempt[i][m] EXCEPT !.status = o]
                       ELSE attempt[i][m]
            BY <2>3 DEF Finished
        <3>2. item'[i].attempts = item[i].attempts
            BY <3>1 DEF Answered, Unheld
        <3> QED BY <3>1, <3>2
    <2>4. CASE GivenBack(i)
        <3>1. PICK o, b : item'[i] = Retried(item[i], o, b)
            BY <2>4 DEF GivenBack
        <3>2. item'[i].attempts = item[i].attempts
            BY <3>1 DEF Retried, Unheld
        <3> QED BY <2>4, <3>2 DEF GivenBack
    <2>5. CASE Left(i) \/ Renewed(i)
        <3>1. item'[i].attempts = item[i].attempts /\ Closes(i, "abandoned")
            BY <2>5 DEF Left, Renewed, Unheld
        <3> QED BY <3>1 DEF Closes
    <2> QED BY <1>1, <2>1, <2>2, <2>3, <2>4, <2>5 DEF Moves
<1>5. attempt'[i][n].worker = attempt[i][n].worker
    <2>1. CASE attempt'[i][n] = attempt[i][n]
        BY <2>1
    <2>2. ASSUME NEW s, attempt'[i][n] = [attempt[i][n] EXCEPT !.status = s]
          PROVE  attempt'[i][n].worker = attempt[i][n].worker
        BY <1>1, <2>2 DEF AttemptRows
    <2> QED BY <1>3, <2>1, <2>2
<1> QED BY <1>1, <1>3, <1>5

-----------------------------------------------------------------------------
(***************************************************************************)
(* What a step of the engine does to the worker that takes it.             *)
(***************************************************************************)
Acts(w) == Poll(w) \/ Renew(w) \/ StopSlot(w) \/ Crash(w)

Locals(w, ph, ac, op, td, an, ag) ==
    /\ phase'[w] = ph /\ access'[w] = ac /\ open'[w] = op
    /\ todo'[w] = td /\ answer'[w] = an /\ age'[w] = ag

Still(w) == Locals(w, phase[w], access[w], open[w], todo[w], answer[w], age[w])

\* The other workers' variables are as they were.
Framed(w) ==
    /\ phase' = [phase EXCEPT ![w] = phase'[w]]
    /\ access' = [access EXCEPT ![w] = access'[w]]
    /\ open' = [open EXCEPT ![w] = open'[w]]
    /\ todo' = [todo EXCEPT ![w] = todo'[w]]
    /\ answer' = [answer EXCEPT ![w] = answer'[w]]
    /\ age' = [age EXCEPT ![w] = age'[w]]

\* The release of w's access, and the answer to the first delivery of its batch.
Freed(w) == phase[w] = "releasing" /\ lease[access[w]].worker = w /\ Release(access[w])
Reported(w) ==
    /\ phase[w] \in {"answering", "returning"} /\ First(w) \in todo[w]
    /\ Answers(First(w)[1], First(w)[2])

Assigned(w) ==
    /\ phase[w] = "idle"
    /\ \E c \in Creds : /\ \E j \in Jobs : Acquire(w, c, j)
                        /\ Locals(w, "login", c, None, todo[w], answer[w], 0)

Opened(w) ==
    /\ phase[w] = "login" /\ UNCHANGED vars
    /\ Locals(w, "opened", access[w], access[w], todo[w], answer[w], age[w])

Advanced(w) ==
    /\ phase[w] \notin {"idle", "releasing"} /\ Other
    /\ \E ph \in {"closing", "ready", "returning"}, an \in Outcomes \cup {None} :
          Locals(w, ph, access[w], open[w], todo[w], an, age[w])

Beaten(w) ==
    /\ Valid(w) /\ Heartbeat(access[w]) /\ phase[w] \notin {"idle", "releasing"}
    /\ \E ph \in {phase[w], "claiming", "closing", "consulting", "returning"} :
          /\ ph = "consulting" => phase[w] \in {"batch", "consulting"}
          /\ Locals(w, ph, access[w], open[w], todo[w], answer[w], 0)

Aborted(w) ==
    /\ phase[w] \notin {"idle", "releasing"} /\ (Other \/ Reported(w))
    /\ \E ph \in {"closing", "reporting"}, an \in Outcomes \cup {None} :
          Locals(w, ph, access[w], open[w], {}, an, age[w])

Got(w) == {<<i, item'[i].attempts>> : i \in {k \in Items : item'[k].attempts > item[k].attempts}}

Loaded(w) ==
    /\ phase[w] = "claiming" /\ ClaimCommit(w, access[w]) /\ Got(w) # {}
    /\ Locals(w, "batch", access[w], open[w], Got(w), None, age[w])

Answering(w) ==
    /\ phase[w] = "consulting" /\ UNCHANGED vars
    /\ \E o \in Outcomes : Locals(w, "answering", access[w], open[w], todo[w], o, age[w])

Passed(w) ==
    /\ phase[w] \in {"answering", "returning"} /\ (UNCHANGED vars \/ Reported(w))
    /\ \E ph \in {"ready", "batch", "reporting", "returning"}, an \in Outcomes \cup {None} :
          /\ ph = "batch" => phase[w] = "answering" /\ Rest(w) # {}
          /\ Locals(w, ph, access[w], open[w], Rest(w), an, age[w])

Retrying(w) ==
    /\ phase[w] = "returning" => UNCHANGED vars \/ Reported(w)
    /\ phase[w] = "answering" =>
          UNCHANGED vars \/ (First(w) \in todo[w] /\ Apply(First(w), answer[w], TRUE))
    /\ phase[w] \in {"answering", "returning"} /\ Still(w)

Ended(w) ==
    /\ UNCHANGED vars /\ phase[w] = "closing"
    /\ \/ Locals(w, "releasing", access[w], None, todo[w], answer[w], age[w])
       \/ Locals(w, "idle", None, open[w], todo[w], answer[w], age[w])

Gone(w) ==
    /\ phase[w] = "releasing" /\ (Freed(w) \/ UNCHANGED vars)
    /\ Locals(w, "idle", None, open[w], todo[w], answer[w], age[w])

Crashed(w) ==
    UNCHANGED vars /\ Locals(w, "idle", None, None, {}, None, age[w])

WorkerMoves(w) ==
    \/ (Other \/ Reserves(w)) /\ Still(w)
    \/ Assigned(w) \/ Opened(w) \/ Advanced(w) \/ Beaten(w) \/ Aborted(w) \/ Loaded(w)
    \/ Answering(w) \/ Passed(w) \/ Retrying(w) \/ Ended(w) \/ Gone(w) \/ Crashed(w)

\* The first delivery of a batch that is not empty is in it, in item order.
LEMMA FirstIsThere ==
    ASSUME EngineTypes, NEW w \in Workers, todo[w] # {}
    PROVE  /\ First(w) \in todo[w] /\ First(w) \in Items \X Numbers
           /\ \A q \in todo[w] : First(w)[1] <= q[1]
<1> DEFINE firsts == {p[1] : p \in todo[w]}
           less == OpToRel(<, Nat)
<1>0. todo[w] \subseteq Items \X Numbers /\ Items \subseteq Nat
    BY JobQueueAssumption DEF EngineTypes
<1>1. firsts \subseteq Nat /\ firsts # {}
    BY <1>0
<1>2. IsWellFoundedOn(less, Nat)
    BY NatLessThanWellFounded
<1>3. PICK x \in firsts : \A y \in firsts : ~(<<y, x>> \in less)
    <2> HIDE DEF firsts, less
    <2> QED BY <1>1, <1>2, WFMin
<1>4. \A a, b \in Nat : <<a, b>> \in less <=> a < b
    BY DEF OpToRel
<1>5. ASSUME NEW y \in firsts PROVE x <= y
    <2> HIDE DEF firsts, less
    <2>1. x \in Nat /\ y \in Nat
        BY <1>1
    <2>2. ~(y < x)
        BY <1>3, <1>4, <2>1
    <2> QED BY <2>1, <2>2
<1>6. \E p \in todo[w] : \A q \in todo[w] : p[1] <= q[1]
    BY <1>5
<1>7. First(w) \in todo[w] /\ \A q \in todo[w] : First(w)[1] <= q[1]
    BY <1>6 DEF First
<1> QED BY <1>0, <1>7

\* The two fragments most replies are made of.
LEMMA GoToLocals ==
    ASSUME EngineTypes, NEW w \in Workers, NEW p, GoTo(w, p)
    PROVE  /\ Framed(w)
           /\ Locals(w, p, access[w], open[w], todo[w], answer[w], age[w])
<1> USE DEF GoTo, EngineTypes
<1>1. Locals(w, p, access[w], open[w], todo[w], answer[w], age[w])
    BY DEF Locals
<1>2. Framed(w)
    BY DEF Framed
<1> QED BY <1>1, <1>2

LEMMA WorkLocals ==
    ASSUME EngineTypes, NEW w \in Workers, NEW p, NEW batch, Work(w, p, batch)
    PROVE  /\ Framed(w)
           /\ Locals(w, p, access[w], open[w], batch, None, age[w])
<1> USE DEF Work, EngineTypes
<1>1. Locals(w, p, access[w], open[w], batch, None, age[w])
    BY DEF Locals
<1>2. Framed(w)
    BY DEF Framed
<1> QED BY <1>1, <1>2

LEMMA FailLocals ==
    ASSUME EngineTypes, NEW w \in Workers, NEW f, NEW batch, Fail(w, f, batch)
    PROVE  /\ Framed(w)
           /\ Locals(w, "reporting", access[w], open[w], batch, f, age[w])
<1> USE DEF Fail, EngineTypes
<1>1. Locals(w, "reporting", access[w], open[w], batch, f, age[w])
    BY DEF Locals
<1>2. Framed(w)
    BY DEF Framed
<1> QED BY <1>1, <1>2

LEMMA StillLocals ==
    ASSUME EngineTypes, NEW w \in Workers, UNCHANGED <<phase, access, open, todo, answer, age>>
    PROVE  Framed(w) /\ Still(w)
<1> USE DEF EngineTypes
<1>1. Framed(w)
    BY DEF Framed
<1> QED BY <1>1 DEF Still, Locals

\* The heartbeat of the polling thread.
LEMMA BeatMoves ==
    ASSUME EngineTypes, NEW w \in Workers, NEW onward, NEW drained,
           phase[w] \notin {"idle", "releasing"}, Beat(w, onward, drained),
           {onward, drained} \subseteq {"claiming", "closing", "consulting", "returning"},
           "consulting" \in {onward, drained} => phase[w] = "batch"
    PROVE  Framed(w) /\ (Beaten(w) \/ Aborted(w))
<1>1. CASE /\ Valid(w) /\ Heartbeat(access[w])
           /\ phase' = [phase EXCEPT ![w] = IF signals'[w] = {} THEN onward ELSE drained]
           /\ age' = [age EXCEPT ![w] = 0]
           /\ UNCHANGED <<access, open, todo, answer>>
    <2>1. Framed(w)
        BY <1>1 DEF Framed, EngineTypes
    <2>2. \E ph \in {onward, drained} : Locals(w, ph, access[w], open[w], todo[w], answer[w], 0)
        BY <1>1 DEF Locals, EngineTypes
    <2> QED BY <1>1, <2>1, <2>2 DEF Beaten
<1>2. CASE Abort(w) /\ ((Valid(w) /\ Heartbeat(access[w])) \/ UNCHANGED vars)
    <2>1. Other
        BY <1>2 DEF Other, Valid, LiveLeases
    <2>2. Framed(w) /\ Locals(w, "closing", access[w], open[w], {}, None, age[w])
        BY <1>2, WorkLocals DEF Abort
    <2> QED BY <2>1, <2>2 DEF Aborted
<1> QED BY <1>1, <1>2 DEF Beat

\* Every step of a worker is one of these moves, and moves nobody else.
LEMMA ActsMoves ==
    ASSUME EngineTypes, NEW w \in Workers, Shape(w), Acts(w)
    PROVE  Framed(w) /\ WorkerMoves(w)
<1>0. /\ phase \in [Workers -> Phases] /\ access \in [Workers -> Creds \cup {None}]
      /\ open \in [Workers -> Creds \cup {None}]
      /\ todo \in [Workers -> SUBSET (Items \X Numbers)]
      /\ answer \in [Workers -> Outcomes \cup {None}] /\ age \in [Workers -> 0 .. LeaseTicks]
      /\ "retryable_error" \in Outcomes
    BY WorkerEngineAssumption DEF EngineTypes
<1>1. ASSUME NEW c \in Creds, NEW j \in Jobs, Reserve(w, c, j) PROVE Framed(w) /\ Assigned(w)
    <2>1. Framed(w)
        BY <1>0, <1>1 DEF Reserve, Framed
    <2>2. Locals(w, "login", c, None, todo[w], answer[w], 0)
        BY <1>0, <1>1 DEF Reserve, Locals
    <2> QED BY <1>1, <2>1, <2>2 DEF Reserve, Assigned
<1>2. ASSUME UNCHANGED <<phase, access, open, todo, answer, age>>, Other \/ Reserves(w)
      PROVE  Framed(w) /\ WorkerMoves(w)
    BY <1>2, StillLocals DEF WorkerMoves
<1>3. ASSUME NEW c \in Creds, NEW j \in Jobs, ReserveUnheard(w, c, j)
      PROVE  Framed(w) /\ WorkerMoves(w)
    BY <1>2, <1>3 DEF ReserveUnheard, Reserves, local
<1>4. ASSUME OpenSession(w) PROVE Framed(w) /\ Opened(w)
    <2>1. Framed(w)
        BY <1>0, <1>4 DEF OpenSession, Framed
    <2>2. Locals(w, "opened", access[w], access[w], todo[w], answer[w], age[w])
        BY <1>0, <1>4 DEF OpenSession, Locals
    <2> QED BY <1>4, <2>1, <2>2 DEF OpenSession, Opened
<1>5. ASSUME NEW p \in {"closing", "ready", "returning"}, GoTo(w, p), UNCHANGED vars,
             phase[w] \notin {"idle", "releasing"}
      PROVE  Framed(w) /\ Advanced(w)
    <2>1. answer[w] \in Outcomes \cup {None}
        BY <1>0
    <2> QED BY <1>5, <2>1, GoToLocals DEF Advanced, Other
<1>6. ASSUME ReportLogin(w) \/ ClaimRefused(w) PROVE Framed(w) /\ Advanced(w)
    BY <1>5, <1>6 DEF ReportLogin, ClaimRefused
<1>7. ASSUME Continue(w) PROVE Framed(w) /\ WorkerMoves(w)
    <2>1. CASE GoTo(w, "closing") /\ UNCHANGED vars
        BY <1>5, <1>7, <2>1 DEF Continue, WorkerMoves
    <2>2. CASE Beat(w, "claiming", "closing")
        BY <1>7, <2>2, BeatMoves DEF Continue, WorkerMoves
    <2> QED BY <1>7, <2>1, <2>2 DEF Continue
<1>8. ASSUME NextItem(w) PROVE Framed(w) /\ WorkerMoves(w)
    <2>1. CASE GoTo(w, "returning") /\ UNCHANGED vars
        BY <1>5, <1>8, <2>1 DEF NextItem, WorkerMoves
    <2>2. CASE Beat(w, "consulting", "returning")
        BY <1>8, <2>2, BeatMoves DEF NextItem, WorkerMoves
    <2> QED BY <1>8, <2>1, <2>2 DEF NextItem
<1>9. ASSUME SendClaim(w) \/ ClaimOrphaned(w) \/ StartSlot(w) \/ StopSlot(w)
      PROVE  Framed(w) /\ WorkerMoves(w)
    <2>1. UNCHANGED <<phase, access, open, todo, answer, age>>
        BY <1>9 DEF SendClaim, ClaimOrphaned, StartSlot, StopSlot, local
    <2>2. Other
        BY <1>9 DEF SendClaim, ClaimOrphaned, StartSlot, StopSlot, Other
    <2> QED BY <1>2, <2>1, <2>2
<1>10. ASSUME Abort(w), phase[w] \notin {"idle", "releasing"}, Other \/ Reported(w)
       PROVE  Framed(w) /\ Aborted(w)
    BY <1>10, WorkLocals DEF Abort, Aborted
<1>11. ASSUME ClaimServed(w) PROVE Framed(w) /\ WorkerMoves(w)
    <2>1. /\ phase[w] = "claiming" /\ ClaimCommit(w, access[w])
          /\ \/ Work(w, IF Got(w) = {} THEN "closing" ELSE "batch", Got(w))
             \/ Abort(w)
        BY <1>11 DEF ClaimServed, Got
    <2>2. Other
        BY <2>1 DEF Other, ClaimCommit, LiveLeases
    <2>3. CASE Abort(w) \/ (Work(w, "closing", Got(w)) /\ Got(w) = {})
        BY <1>10, <2>1, <2>2, <2>3 DEF Abort, WorkerMoves
    <2>4. CASE Work(w, "batch", Got(w)) /\ Got(w) # {}
        BY <2>1, <2>4, WorkLocals DEF Loaded, WorkerMoves
    <2> QED BY <2>1, <2>3, <2>4
<1>12. ASSUME ClaimLost(w) PROVE Framed(w) /\ WorkerMoves(w)
    BY <1>10, <1>12 DEF ClaimLost, Other, WorkerMoves
<1>13. ASSUME NEW o \in Outcomes, Consulted(w, o) PROVE Framed(w) /\ WorkerMoves(w)
    <2>1. CASE Abort(w)
        BY <1>10, <1>13, <2>1 DEF Consulted, Other, WorkerMoves
    <2>2. CASE /\ phase' = [phase EXCEPT ![w] = "answering"]
               /\ answer' = [answer EXCEPT ![w] = o]
               /\ UNCHANGED <<access, open, todo, age>>
        <3>1. Framed(w)
            BY <1>0, <2>2 DEF Framed
        <3>2. Locals(w, "answering", access[w], open[w], todo[w], o, age[w])
            BY <1>0, <2>2 DEF Locals
        <3> QED BY <1>13, <3>1, <3>2 DEF Consulted, Answering, WorkerMoves
    <2> QED BY <1>13, <2>1, <2>2 DEF Consulted
<1>14. ASSUME NEW o \in Outcomes, NEW b \in BOOLEAN, phase[w] \in {"answering", "returning"},
              First(w) \in todo[w], Served(First(w), o, b)
       PROVE  UNCHANGED vars \/ Reported(w)
    BY <1>14 DEF Served, Apply, Reported, Answers
<1>15. ASSUME NEW ph \in {"ready", "batch", "returning"}, Work(w, ph, Rest(w)),
              ph = "batch" => phase[w] = "answering" /\ Rest(w) # {},
              phase[w] \in {"answering", "returning"}, UNCHANGED vars \/ Reported(w)
       PROVE  Framed(w) /\ Passed(w)
    BY <1>15, WorkLocals DEF Passed
<1>16. ASSUME NEW o \in Outcomes, NEW b \in BOOLEAN, phase[w] \in {"answering", "returning"},
              First(w) \in todo[w], Unacknowledged(w, First(w), o, b),
              phase[w] = "answering" => o = answer[w] /\ b = TRUE
       PROVE  Framed(w) /\ WorkerMoves(w)
    <2>1. UNCHANGED vars \/ Reported(w)
        BY <1>14, <1>16 DEF Unacknowledged
    <2>2. CASE Abort(w)
        BY <1>10, <1>16, <2>1, <2>2 DEF Other, WorkerMoves
    <2>3. CASE UNCHANGED <<phase, access, open, todo, answer, age>>
        <3>1. Framed(w) /\ Still(w)
            BY <2>3, StillLocals
        <3>2. phase[w] = "answering" => UNCHANGED vars \/ Apply(First(w), answer[w], TRUE)
            BY <1>16 DEF Unacknowledged, Served
        <3> QED BY <1>16, <2>1, <3>1, <3>2 DEF Retrying, WorkerMoves
    <2> QED BY <1>16, <2>2, <2>3 DEF Unacknowledged
<1>23. ASSUME LoginRefused(w) PROVE Framed(w) /\ WorkerMoves(w)
    <2>1. phase[w] = "login" /\ UNCHANGED vars
        BY <1>23 DEF LoginRefused
    <2>2. CASE GoTo(w, "closing")
        BY <1>5, <2>1, <2>2 DEF WorkerMoves
    <2>3. ASSUME NEW f \in Failures, Fail(w, f, {}) PROVE Framed(w) /\ Aborted(w)
        BY <2>1, <2>3, FailLocals DEF Aborted, Other, Failures
    <2> QED BY <1>23, <2>2, <2>3 DEF LoginRefused, WorkerMoves
<1>24. ASSUME ReportFailure(w) PROVE Framed(w) /\ WorkerMoves(w)
    <2>1. phase[w] = "reporting" /\ UNCHANGED vars
        BY <1>24 DEF ReportFailure
    <2>2. CASE Abort(w)
        BY <1>10, <2>1, <2>2 DEF Other, WorkerMoves
    <2>3. ASSUME NEW p \in {"closing", "returning"}, Work(w, p, todo[w])
          PROVE  Framed(w) /\ Advanced(w)
        BY <2>1, <2>3, WorkLocals DEF Advanced, Other
    <2> QED BY <1>24, <2>2, <2>3 DEF ReportFailure, WorkerMoves
<1>17. ASSUME Acknowledge(w) PROVE Framed(w) /\ WorkerMoves(w)
    <2>1. phase[w] = "answering" /\ answer[w] \in Outcomes /\ First(w) \in todo[w]
        BY <1>17, FirstIsThere DEF Acknowledge, Shape
    <2>2. CASE Served(First(w), answer[w], TRUE) /\ AfterAnswer(w, answer[w])
        <3>1. UNCHANGED vars \/ Reported(w)
            BY <1>14, <2>1, <2>2
        <3>2. \/ \E ph \in {"ready", "batch"} :
                    Work(w, ph, Rest(w)) /\ (ph = "batch" => Rest(w) # {})
              \/ \E f \in Outcomes : Fail(w, f, Rest(w))
            BY <2>1, <2>2 DEF AfterAnswer, Failures
        <3>3. ASSUME NEW f \in Outcomes, Fail(w, f, Rest(w)) PROVE Framed(w) /\ Passed(w)
            BY <2>1, <3>1, <3>3, FailLocals DEF Passed
        <3> QED BY <1>15, <2>1, <3>1, <3>2, <3>3 DEF WorkerMoves
    <2>3. CASE Work(w, "returning", Rest(w)) /\ UNCHANGED vars
        BY <1>15, <2>1, <2>3 DEF WorkerMoves
    <2>4. CASE Unacknowledged(w, First(w), answer[w], TRUE)
        BY <1>16, <2>1, <2>4
    <2> QED BY <1>17, <2>2, <2>3, <2>4 DEF Acknowledge
<1>18. ASSUME ReturnItem(w) PROVE Framed(w) /\ WorkerMoves(w)
    <2>1. phase[w] = "returning"
        BY <1>18 DEF ReturnItem
    <2>2. CASE Abort(w) /\ UNCHANGED vars
        BY <1>10, <2>1, <2>2 DEF Other, WorkerMoves
    <2>3. CASE /\ todo[w] # {} /\ Served(First(w), "retryable_error", FALSE)
               /\ Work(w, "returning", Rest(w))
        <3>1. First(w) \in todo[w]
            BY <2>3, FirstIsThere
        <3>2. UNCHANGED vars \/ Reported(w)
            BY <1>0, <1>14, <2>1, <2>3, <3>1
        <3> QED BY <1>15, <2>1, <2>3, <3>2 DEF WorkerMoves
    <2>4. CASE todo[w] # {} /\ Unacknowledged(w, First(w), "retryable_error", FALSE)
        <3>1. First(w) \in todo[w]
            BY <2>4, FirstIsThere
        <3> QED BY <1>0, <1>16, <2>1, <2>4, <3>1
    <2> QED BY <1>18, <2>2, <2>3, <2>4 DEF ReturnItem
<1>19. ASSUME CloseSession(w) PROVE Framed(w) /\ Ended(w)
    <2>1. Framed(w)
        BY <1>0, <1>19 DEF CloseSession, Framed
    <2>2. \/ Locals(w, "releasing", access[w], None, todo[w], answer[w], age[w])
          \/ Locals(w, "idle", None, open[w], todo[w], answer[w], age[w])
        BY <1>0, <1>19 DEF CloseSession, Locals
    <2> QED BY <1>19, <2>1, <2>2 DEF CloseSession, Ended
<1>20. ASSUME SendRelease(w) PROVE Framed(w) /\ Gone(w)
    <2>1. Framed(w)
        BY <1>0, <1>20 DEF SendRelease, Framed
    <2>2. Locals(w, "idle", None, open[w], todo[w], answer[w], age[w])
        BY <1>0, <1>20 DEF SendRelease, Locals
    <2> QED BY <1>20, <2>1, <2>2 DEF SendRelease, Gone, Freed
<1>21. ASSUME Renew(w) PROVE Framed(w) /\ WorkerMoves(w)
    <2>1. CASE /\ Valid(w) /\ Heartbeat(access[w])
               /\ age' = [age EXCEPT ![w] = 0]
        <3>1. UNCHANGED <<phase, access, open, todo, answer>>
            BY <1>21 DEF Renew
        <3>2. Framed(w)
            BY <1>0, <2>1, <3>1 DEF Framed
        <3>3. Locals(w, phase[w], access[w], open[w], todo[w], answer[w], 0)
            BY <1>0, <2>1, <3>1 DEF Locals
        <3> QED BY <1>21, <2>1, <3>2, <3>3 DEF Renew, Renewing, Beaten, WorkerMoves
    <2>2. CASE age' = age /\ ((Valid(w) /\ Heartbeat(access[w])) \/ UNCHANGED vars)
        <3>1. UNCHANGED <<phase, access, open, todo, answer, age>>
            BY <1>21, <2>2 DEF Renew
        <3>2. Other
            BY <2>2 DEF Other, Valid, LiveLeases
        <3> QED BY <1>2, <3>1, <3>2
    <2> QED BY <1>21, <2>1, <2>2 DEF Renew
<1>22. ASSUME Crash(w) PROVE Framed(w) /\ Crashed(w)
    <2>1. Framed(w)
        BY <1>0, <1>22 DEF Crash, Framed
    <2>2. Locals(w, "idle", None, None, {}, None, age[w])
        BY <1>0, <1>22 DEF Crash, Locals
    <2> QED BY <1>22, <2>1, <2>2 DEF Crash, Crashed
<1> QED
    BY <1>1, <1>3, <1>4, <1>6, <1>7, <1>8, <1>9, <1>11, <1>12, <1>13, <1>17, <1>18, <1>19,
       <1>20, <1>21, <1>22, <1>23, <1>24
    DEF Acts, Poll, Turn, WorkerMoves

\* A move of a worker is a step of the queue.
LEMMA MovesSteps ==
    ASSUME EngineTypes, NEW w \in Workers, Shape(w), WorkerMoves(w)
    PROVE  /\ Other \/ Reserves(w) \/ Freed(w) \/ Reported(w)
           /\ [Next]_vars
<1>0. access[w] \in Creds \cup {None} /\ (phase[w] # "idle" => access[w] \in Creds)
    BY DEF EngineTypes, Shape
<1>1. Other \/ Reserves(w) \/ Freed(w) \/ Reported(w)
    <2>1. CASE UNCHANGED vars
        BY <2>1 DEF Other
    <2>2. CASE Assigned(w)
        BY <2>2 DEF Assigned, Reserves
    <2>3. CASE Beaten(w)
        BY <1>0, <2>3 DEF Beaten, Other
    <2>4. CASE Loaded(w)
        BY <1>0, <2>4 DEF Loaded, Other
    <2>5. CASE Retrying(w)
        <3>1. CASE phase[w] = "answering" /\ First(w) \in todo[w] /\ Apply(First(w), answer[w], TRUE)
            BY <3>1 DEF Shape, Apply, Reported, Answers
        <3> QED BY <2>1, <2>5, <3>1 DEF Retrying
    <2> QED BY <2>1, <2>2, <2>3, <2>4, <2>5
            DEF WorkerMoves, Opened, Advanced, Aborted, Answering, Passed, Ended, Gone, Crashed
<1>2. CASE Other
    BY <1>2 DEF Other, Next, WorkerStep
<1>3. CASE Reserves(w)
    BY <1>3 DEF Reserves, Next, WorkerStep
<1>4. CASE Freed(w)
    BY <1>0, <1>4 DEF Freed, Next, WorkerStep
<1>5. CASE Reported(w)
    <2>1. First(w)[1] \in Items /\ First(w)[2] \in Numbers
        BY <1>5 DEF Reported, EngineTypes
    <2> QED BY <1>5, <2>1 DEF Reported, Answers, Next, WorkerStep
<1> QED BY <1>1, <1>2, <1>3, <1>4, <1>5

\* The workers that do not move.
LEMMA OthersStill ==
    ASSUME EngineTypes, NEW w \in Workers, Framed(w), NEW v \in Workers \ {w}
    PROVE  Still(v)
BY DEF Framed, EngineTypes, Still, Locals

\* The worker that moves keeps its variables of the expected types and shape.
LEMMA MoverKeepsShape ==
    ASSUME EngineTypes, TypeInv, TypeInv', NEW w \in Workers, Shape(w), WorkerMoves(w)
    PROVE  /\ phase'[w] \in Phases /\ access'[w] \in Creds \cup {None}
           /\ open'[w] \in Creds \cup {None} /\ todo'[w] \subseteq Items \X Numbers
           /\ answer'[w] \in Outcomes \cup {None} /\ age'[w] \in 0 .. LeaseTicks
           /\ Shape(w)'
<1>0. /\ phase[w] \in Phases /\ access[w] \in Creds \cup {None}
      /\ open[w] \in Creds \cup {None} /\ todo[w] \subseteq Items \X Numbers
      /\ answer[w] \in Outcomes \cup {None} /\ age[w] \in 0 .. LeaseTicks
      /\ 0 \in 0 .. LeaseTicks /\ Rest(w) \subseteq todo[w]
    BY JobQueueAssumption DEF EngineTypes, Rest
<1> USE DEF Locals, Shape, Phases
<1>1. CASE Still(w)
    BY <1>0, <1>1 DEF Still
<1>2. CASE Assigned(w)
    BY <1>0, <1>2, JobQueueAssumption DEF Assigned
<1>3. CASE Opened(w)
    BY <1>0, <1>3 DEF Opened
<1>4. CASE Advanced(w)
    BY <1>0, <1>4 DEF Advanced
<1>5. CASE Beaten(w)
    BY <1>0, <1>5 DEF Beaten
<1>6. CASE Aborted(w)
    BY <1>0, <1>6 DEF Aborted
<1>7. CASE Loaded(w)
    <2>1. Got(w) \subseteq Items \X Numbers
        <3>1. ASSUME NEW k \in Items, item'[k].attempts > item[k].attempts
              PROVE  item'[k].attempts \in Numbers
            <4>1. item[k].attempts \in 0 .. MaxClaims /\ item'[k].attempts \in 0 .. MaxClaims
                BY DEF TypeInv, TypeOK, ItemRows
            <4> QED BY <3>1, <4>1, HistoryRange
        <3> QED BY <3>1 DEF Got
    <2> QED BY <1>0, <1>7, <2>1 DEF Loaded
<1>8. CASE Answering(w)
    BY <1>0, <1>8 DEF Answering
<1>9. CASE Passed(w)
    BY <1>0, <1>9 DEF Passed
<1>10. CASE Retrying(w)
    BY <1>1, <1>10 DEF Retrying
<1>11. CASE Ended(w)
    BY <1>0, <1>11 DEF Ended
<1>12. CASE Gone(w) \/ Crashed(w)
    BY <1>0, <1>12 DEF Gone, Crashed
<1> QED BY <1>1, <1>2, <1>3, <1>4, <1>5, <1>6, <1>7, <1>8, <1>9, <1>10, <1>11, <1>12
        DEF WorkerMoves

-----------------------------------------------------------------------------
(***************************************************************************)
(* The parts of the invariant, one by one.                                 *)
(***************************************************************************)
\* A lease that is live after a step was live before it, for the same worker and
\* job, unless that worker has just reserved it.
LEMMA LiveBefore ==
    ASSUME TypeInv, NEW c \in Creds, lease'[c].ttl > 0,
           \/ Other \/ Tick
           \/ \E d \in Creds : Release(d)
           \/ \E k \in Items, n \in Numbers : Answers(k, n)
           \/ \E w \in Workers : Reserves(w) /\ lease'[c].worker # w
    PROVE  /\ lease[c].ttl > 0 /\ lease'[c].worker = lease[c].worker
           /\ lease'[c].job = lease[c].job
<1>0. lease \in [Creds -> LeaseRows] /\ NoLease.ttl = 0
    BY DEF TypeInv, TypeOK, NoLease
<1>1. CASE lease'[c] = lease[c] \/ lease'[c] = NoLease
    BY <1>0, <1>1
<1>2. ASSUME NEW d \in Creds, Heartbeat(d)
      PROVE  /\ lease[c].ttl > 0 /\ lease'[c].worker = lease[c].worker
             /\ lease'[c].job = lease[c].job
    BY <1>2, HeartbeatLease
<1>3. CASE Tick
    BY <1>3, TickLease
<1>4. ASSUME NEW d \in Creds, Release(d) PROVE lease'[c] = lease[c] \/ lease'[c] = NoLease
    <2> DEFINE leases == [lease EXCEPT ![d] = NoLease]
    <2>1. PICK j, s, rows, log : FinalizeDraining(j, s, rows, log, leases)
        BY <1>4 DEF Release
    <2>2. leases[c] = lease[c] \/ leases[c] = NoLease
        BY <1>0
    <2> HIDE DEF leases
    <2> QED BY <2>1, <2>2, FinalizeDrainingLeases
<1>5. ASSUME NEW j \in Jobs, Pause(j) \/ Cancel(j) \/ MaintainDraining(j)
      PROVE  lease'[c] = lease[c] \/ lease'[c] = NoLease
    <2>1. PICK s : FinalizeDraining(j, s, item, attempt, lease)
        BY <1>5 DEF Pause, Cancel, MaintainDraining
    <2> QED BY <2>1, FinalizeDrainingLeases
<1>6. ASSUME NEW k \in Items, NEW n \in Numbers, Answers(k, n) PROVE lease' = lease
    BY <1>6 DEF Answers, Answer, Requeue, Close
<1>7. ASSUME NEW w \in Workers, Reserves(w), lease'[c].worker # w
      PROVE  lease'[c] = lease[c] \/ lease'[c] = NoLease
    BY <1>7 DEF Reserves, Acquire
<1>8. CASE Other
    BY <1>1, <1>2, <1>5, <1>8
    DEF Other, OperatorStep, Maintain, Create, Resume, Retry,
        MaintainActive, ClaimRead, ClaimFails, ClaimCommit, vars
<1> QED BY <1>1, <1>3, <1>4, <1>6, <1>7, <1>8

\* A job that exists goes on existing.
LEMMA CreatedStays ==
    ASSUME TypeInv, [Next]_vars, NEW j \in Jobs, status[j] # "absent"
    PROVE  status'[j] # "absent"
<1>0. status \in [Jobs -> JobStates]
    BY DEF TypeInv, TypeOK
<1>1. ASSUME NEW s, NEW counts, NEW k, s # "absent" PROVE Finalized(s, counts, k) # "absent"
    BY <1>1 DEF Finalized
<1>2. ASSUME NEW k, NEW s, NEW rows, NEW log, NEW leases, s # "absent" \/ k # j,
             FinalizeDraining(k, s, rows, log, leases)
      PROVE  status'[j] # "absent"
    BY <1>0, <1>1, <1>2 DEF FinalizeDraining
<1>3. ASSUME NEW k \in Jobs, Pause(k) \/ Cancel(k) \/ MaintainDraining(k)
      PROVE  status'[j] # "absent"
    <2>1. PICK s : FinalizeDraining(k, s, item, attempt, lease) /\ s # "absent"
        BY <1>3 DEF Pause, Cancel, MaintainDraining, DrainingStates
    <2> QED BY <1>2, <2>1
<1>4. ASSUME NEW c \in Creds, Release(c) PROVE status'[j] # "absent"
    <2>1. PICK rows, log, leases :
              FinalizeDraining(lease[c].job, status[lease[c].job], rows, log, leases)
        BY <1>4 DEF Release
    <2>2. status[lease[c].job] # "absent" \/ lease[c].job # j
        OBVIOUS
    <2> QED BY <1>2, <2>1, <2>2
<1>5. ASSUME NEW i \in Items, NEW s, NEW row, Close(i, s, row) PROVE status'[j] # "absent"
    BY <1>0, <1>1, <1>5 DEF Close
<1>6. ASSUME NEW i \in Items, NEW n \in Numbers, NEW o \in Outcomes,
             Answer(i, n, o) \/ \E b \in BOOLEAN : Requeue(i, n, o, b)
      PROVE  status'[j] # "absent"
    BY <1>5, <1>6 DEF Answer, Requeue
<1>7. ASSUME NEW k \in Jobs, MaintainActive(k) PROVE status'[j] # "absent"
    BY <1>0, <1>1, <1>7 DEF MaintainActive
<1>8. ASSUME NEW k \in Jobs, Create(k) \/ Resume(k) \/ Retry(k) PROVE status'[j] # "absent"
    BY <1>0, <1>8 DEF Create, Resume, Retry
<1>9. ASSUME NEW w \in Workers, NEW c \in Creds, ClaimCommit(w, c) PROVE status'[j] # "absent"
    BY <1>0, <1>9 DEF ClaimCommit
<1>10. CASE status' = status
    BY <1>10
<1> QED
    BY <1>3, <1>4, <1>6, <1>7, <1>8, <1>9, <1>10
    DEF Next, WorkerStep, OperatorStep, Maintain, Acquire, Heartbeat, ClaimRead, ClaimFails,
        Tick, vars

\* Reservations of existing jobs only.
LEMMA CreatedOnlyStep ==
    ASSUME TypeInv, CreatedOnly, [Next]_vars,
           \/ Other \/ Tick
           \/ \E d \in Creds : Release(d)
           \/ \E k \in Items, n \in Numbers : Answers(k, n)
           \/ \E w \in Workers : Reserves(w)
    PROVE  CreatedOnly'
<1> SUFFICES ASSUME NEW c \in Creds, lease'[c].ttl > 0
             PROVE  status'[lease'[c].job] # "absent"
    BY DEF CreatedOnly
<1>1. CASE lease[c].ttl > 0 /\ lease'[c].job = lease[c].job
    <2>1. lease[c].job \in Jobs
        BY <1>1 DEF TypeInv, TypeOK, LeaseRows, NoLease
    <2> QED BY <1>1, <2>1, CreatedStays DEF CreatedOnly
<1>2. ASSUME NEW w \in Workers, Reserves(w), lease'[c].worker = w
      PROVE  status'[lease'[c].job] # "absent"
    <2>1. PICK d \in Creds, j \in Jobs : Acquire(w, d, j)
        BY <1>2 DEF Reserves
    <2>2. CASE c = d
        BY <2>1, <2>2 DEF Acquire, Executable, ActiveStates
    <2>3. CASE c # d
        <3>1. lease'[c] = lease[c]
            BY <2>1, <2>3 DEF Acquire, NoLease
        <3> QED BY <1>1, <3>1
    <2> QED BY <2>2, <2>3
<1> QED BY <1>1, <1>2, LiveBefore

\* The deliveries of a batch that does not grow.
LEMMA DeliveredStays ==
    ASSUME TypeInv, EngineTypes, [Next]_vars, NEW v \in Workers, Delivered(v),
           todo'[v] \subseteq todo[v]
    PROVE  Delivered(v)'
<1> SUFFICES ASSUME NEW p \in todo'[v]
             PROVE  p[2] <= item'[p[1]].attempts /\ attempt'[p[1]][p[2]].worker = v
    BY DEF Delivered
<1>1. p[1] \in Items /\ p[2] \in Numbers
    BY DEF EngineTypes
<1> QED BY <1>1, DeliveryStays DEF Delivered

\* What a claim delivers to worker w under access c: the next delivery of each item.
LEMMA ClaimDelivers ==
    ASSUME TypeInv, NEW w \in Workers, NEW c \in Creds, ClaimCommit(w, c), NEW i \in Items,
           item'[i].attempts > item[i].attempts
    PROVE  /\ item'[i] = Claimed(item[i], w, c) /\ JobOf[i] = lease[c].job
           /\ item'[i].attempts \in Nat
           /\ attempt'[i][item'[i].attempts].worker = w
<1>0. /\ item[i].attempts \in Nat /\ item[i] \in ItemRows /\ DOMAIN attempt[i] = Numbers
      /\ item \in [Items -> GoodRows]
    BY RowsTyped DEF TypeInv, TypeOK
<1>1. i \in Batch(lease[c].job)
    BY <1>0 DEF ClaimCommit
<1>2. item[i].attempts < MaxClaims /\ item'[i] = Claimed(item[i], w, c)
    BY <1>1 DEF ClaimCommit
<1>3. item'[i].attempts = item[i].attempts + 1
    BY <1>2 DEF Claimed
<1>4. item[i].attempts + 1 \in Numbers
    BY <1>0, <1>2, HistoryRange
<1>5. \E rows : /\ DOMAIN rows = Numbers
                /\ attempt'[i] = [rows EXCEPT ![item[i].attempts + 1] =
                                     [worker |-> w, status |-> "started"]]
    BY <1>1 DEF ClaimCommit, Closed
<1>6. attempt'[i][item[i].attempts + 1].worker = w
    BY <1>4, <1>5
<1> QED BY <1>0, <1>1, <1>2, <1>3, <1>6 DEF Batch, ItemsOf

\* The accesses of a worker whose renewals were not answered in this step stay its
\* own, if the step is not their release.
LEMMA FreshStays ==
    ASSUME TypeInv, EngineTypes, NEW v \in Workers, Fresh(v), age'[v] = age[v],
           {open'[v], access'[v]} \subseteq {open[v], access[v], None},
           \A c \in {open[v], access[v]} \cap Creds :
               lease[c].worker = v => Elsewhere(c, {})
    PROVE  Fresh(v)'
<1>0. /\ open[v] \in Creds \cup {None} /\ access[v] \in Creds \cup {None}
      /\ age[v] \in Nat /\ LeaseTicks \in Nat /\ \A c \in Creds : lease[c].ttl \in Nat
    BY JobQueueAssumption DEF EngineTypes, TypeInv, TypeOK, LeaseRows, NoLease
<1> SUFFICES ASSUME age[v] < LeaseTicks, NEW c \in {open[v], access[v]} \ {None}
             PROVE  lease'[c].worker = v /\ lease'[c].ttl + age[v] >= LeaseTicks
    BY DEF Fresh
<1>1. c \in Creds /\ lease[c].worker = v /\ lease[c].ttl + age[v] >= LeaseTicks
    BY <1>0 DEF Fresh
<1>2. lease[c].ttl > 0 /\ Elsewhere(c, {})
    BY <1>0, <1>1
<1>3. /\ lease'[c].worker = lease[c].worker /\ lease'[c].ttl \in Nat
      /\ lease'[c].ttl >= lease[c].ttl
    BY <1>1, <1>2, LeaseElsewhere
<1> QED BY <1>0, <1>1, <1>3

\* What is out with worker v under its live access lease, and what the answer of v
\* has closed, is not touched elsewhere.
LEMMA PairStays ==
    ASSUME TypeInv, SessionInv, EngineTypes, NEW v \in Workers, Valid(v),
           NEW p \in Items \X Numbers,
           Elsewhere(access[v], {p[1]}) \/ Tick, access'[v] = access[v]
    PROVE  /\ Mine(v, p) => Mine(v, p)'
           /\ Done(v, p) /\ answer'[v] = answer[v] => Done(v, p)'
<1> DEFINE c == access[v]
           i == p[1]
<1>1. c \in Creds /\ lease[c].ttl > 0 /\ i \in Items
    BY DEF Valid, LiveLeases
<1>2. lease'[c].job = lease[c].job
    <2>1. CASE Tick
        BY <1>1, <2>1, TickLease
    <2> QED BY <1>1, <2>1, LeaseElsewhere
<1>3. ASSUME Mine(v, p) \/ Done(v, p)
      PROVE  /\ JobOf[i] = lease[c].job
             /\ item'[i].status = item[i].status /\ item'[i].outcome = item[i].outcome
             /\ item'[i].attempts = item[i].attempts
             /\ item[i].hold.via = c => item'[i].hold.via = c
    <2>1. /\ JobOf[i] = lease[c].job
          /\ item[i].hold.via = c \/ item[i].status \in {"completed", "failed"}
        BY <1>3 DEF Mine, Done
    <2> HIDE DEF c, i
    <2>2. Elsewhere(c, {i}) \/ Tick
        BY DEF c, i
    <2> QED BY <1>1, <2>1, <2>2, ItemElsewhere
<1>4. Mine(v, p) => Mine(v, p)'
    BY <1>2, <1>3 DEF Mine
<1>5. Done(v, p) /\ answer'[v] = answer[v] => Done(v, p)'
    BY <1>2, <1>3 DEF Done
<1> QED BY <1>4, <1>5

\* An answer that is accepted answers the delivery in progress, and comes from the
\* worker the item is leased to.
LEMMA AnswersAccepted ==
    ASSUME TypeInv, HistoryInv, NEW i \in Items, NEW n \in Numbers, Answers(i, n)
    PROVE  /\ item[i].status = "leased" /\ n = item[i].attempts
           /\ item[i].hold.owner = attempt[i][n].worker
<1>1. Accepts(i, n)
    BY DEF Answers, Answer, Requeue
<1>2. item[i].hold.token = item[i].attempts
    BY <1>1 DEF Accepts, Owns, HistoryInv, RowHistory
<1> QED BY <1>1, <1>2 DEF Accepts, Owns

-----------------------------------------------------------------------------
(***************************************************************************)
(* The invariant is kept by the step of another worker, of the worker      *)
(* itself, of an operator or of the maintenance, and by the clock.         *)
(***************************************************************************)
QueueInv == TypeInv /\ SessionInv /\ HistoryInv /\ LimitsInv /\ QuietInv /\ AgreeInv

\* A batch that holds still, in a step that answers none of what the worker has
\* out and releases nothing of its, is still the worker's own.
LEMMA BatchedStays ==
    ASSUME TypeInv, SessionInv, EngineTypes, NEW v \in Workers, Shape(v), Batched(v),
           Valid(v)' => Valid(v),
           phase'[v] \in {"batch", "consulting"} => phase[v] \in {"batch", "consulting"},
           phase'[v] = "answering" => phase[v] = "answering" /\ answer'[v] = answer[v],
           access'[v] = access[v], todo'[v] = todo[v],
           Valid(v) => \A p \in todo[v] :
               Mine(v, p) \/ Done(v, p) => Elsewhere(access[v], {p[1]}) \/ Tick
    PROVE  Batched(v)'
<1>1. todo[v] \subseteq Items \X Numbers /\ First(v)' = First(v) /\ Rest(v)' = Rest(v)
    BY DEF EngineTypes, First, Rest
<1>2. ASSUME Valid(v), NEW p \in todo[v], Mine(v, p) PROVE Mine(v, p)'
    BY <1>1, <1>2, PairStays
<1>3. ASSUME Valid(v), NEW p \in todo[v], Done(v, p), answer'[v] = answer[v] PROVE Done(v, p)'
    BY <1>1, <1>3, PairStays
<1>4. ASSUME Valid(v), phase'[v] \in {"batch", "consulting"}, NEW p \in todo[v]
      PROVE  Mine(v, p)'
    BY <1>2, <1>4 DEF Batched
<1>5. ASSUME Valid(v), phase'[v] = "answering", NEW p \in Rest(v) PROVE Mine(v, p)'
    <2>1. p \in todo[v]
        BY DEF Rest
    <2> QED BY <1>2, <1>5, <2>1 DEF Batched
<1>6. ASSUME Valid(v), phase'[v] = "answering", answer'[v] \notin Retryable
      PROVE  Mine(v, First(v))' \/ Done(v, First(v))'
    <2>1. First(v) \in todo[v]
        BY <1>6, FirstIsThere DEF Shape
    <2>2. Mine(v, First(v)) \/ Done(v, First(v))
        BY <1>6 DEF Batched
    <2>3. ASSUME NEW p \in todo[v], p = First(v), Mine(v, p) \/ Done(v, p)
          PROVE  Mine(v, p)' \/ Done(v, p)'
        BY <1>2, <1>3, <1>6, <2>3
    <2> QED BY <2>1, <2>2, <2>3, <1>1 DEF Mine, Done
<1> QED BY <1>1, <1>4, <1>5, <1>6 DEF Batched

\* The step of worker w does nothing to what worker v has.
LEMMA OtherWorkerKeeps ==
    ASSUME QueueInv, EngineTypes, [Next]_vars, NEW w \in Workers, NEW v \in Workers \ {w},
           Shape(w), Delivered(w), WorkerInv(v), Still(v),
           Other \/ Reserves(w) \/ Freed(w) \/ Reported(w)
    PROVE  WorkerInv(v)'
<1> USE DEF QueueInv, WorkerInv, Still, Locals
<1>1. Shape(v)'
    BY DEF Shape
<1>2. First(w) \in todo[w] => First(w)[1] \in Items /\ First(w)[2] \in Numbers
    BY DEF EngineTypes
<1>3. ASSUME NEW c \in Creds, lease[c].worker = v PROVE Elsewhere(c, {})
    <2>1. CASE Freed(w)
        <3>1. access[w] # c /\ access[w] \in Creds
            BY <1>3, <2>1 DEF Freed, Shape
        <3> QED BY <2>1, <3>1 DEF Freed, Elsewhere
    <2> QED BY <1>2, <2>1 DEF Elsewhere, Reported
<1>4. Fresh(v)'
    BY <1>3, FreshStays
<1>5. Delivered(v)'
    BY DeliveredStays
<1>6. ASSUME Valid(v)' PROVE Valid(v)
    <2>1. access[v] \in Creds /\ lease'[access[v]].ttl > 0 /\ lease'[access[v]].worker = v
        BY <1>6 DEF Valid, LiveLeases
    <2>2. Freed(w) => access[w] \in Creds
        BY DEF Freed, Shape
    <2>3. /\ lease[access[v]].ttl > 0 /\ lease'[access[v]].worker = lease[access[v]].worker
        BY <1>2, <2>1, <2>2, LiveBefore DEF Freed, Reported
    <2> QED BY <2>1, <2>3 DEF Valid, LiveLeases
<1>7. ASSUME Valid(v), NEW p \in todo[v], Mine(v, p) \/ Done(v, p)
      PROVE  Elsewhere(access[v], {p[1]})
    <2>1. access[v] \in Creds /\ lease[access[v]].ttl > 0 /\ lease[access[v]].worker = v
        BY <1>7 DEF Valid, LiveLeases
    <2>2. CASE Freed(w)
        <3>1. access[w] # access[v] /\ access[w] \in Creds
            BY <2>1, <2>2 DEF Freed, Shape
        <3> QED BY <2>2, <3>1 DEF Freed, Elsewhere
    <2>3. CASE Reported(w)
        <3> DEFINE i == First(w)[1]
        <3>1. /\ i \in Items /\ item[i].status = "leased" /\ item[i].hold.owner = w
            BY <1>2, <2>3, AnswersAccepted DEF Reported, Delivered
        <3>2. ASSUME p[1] = i PROVE FALSE
            <4>1. Mine(v, p)
                BY <1>7, <3>1, <3>2 DEF Done
            <4>2. item[i].hold.owner = v
                BY <2>1, <3>1, <3>2, <4>1 DEF Mine, SessionInv, Covered
            <4> QED BY <3>1, <4>2
        <3> QED BY <1>2, <2>3, <3>2 DEF Reported, Elsewhere
    <2> QED BY <2>2, <2>3 DEF Elsewhere
<1>8. Batched(v)'
    BY <1>6, <1>7, BatchedStays
<1> QED BY <1>1, <1>4, <1>5, <1>8

\* The step of worker w, to its own renewals.
LEMMA MoverIsFresh ==
    ASSUME QueueInv, EngineTypes, NEW w \in Workers, WorkerInv(w), WorkerMoves(w)
    PROVE  Fresh(w)'
<1> USE DEF QueueInv, WorkerInv, Locals
<1>0. LeaseTicks \in Nat /\ LeaseTicks > 0 /\ lease \in [Creds -> LeaseRows]
    BY JobQueueAssumption DEF TypeInv, TypeOK
<1>1. First(w) \in todo[w] => First(w)[1] \in Items /\ First(w)[2] \in Numbers
    BY DEF EngineTypes
<1>2. ASSUME Other \/ Reserves(w) \/ Reported(w), age'[w] = age[w],
             {open'[w], access'[w]} \subseteq {open[w], access[w], None}
      PROVE  Fresh(w)'
    <2>1. ASSUME NEW c \in Creds PROVE Elsewhere(c, {})
        BY <1>1, <1>2 DEF Elsewhere, Reported
    <2> QED BY <1>2, <2>1, FreshStays
<1>3. CASE Assigned(w)
    <2>1. PICK c \in Creds, j \in Jobs :
              /\ Acquire(w, c, j) /\ Locals(w, "login", c, None, todo[w], answer[w], 0)
        BY <1>3 DEF Assigned
    <2>2. lease'[c] = [worker |-> w, job |-> j, ttl |-> LeaseTicks]
        BY <2>1 DEF Acquire
    <2> QED BY <1>0, <2>1, <2>2 DEF Fresh
<1>4. CASE Beaten(w)
    <2>1. /\ access[w] \in Creds /\ lease[access[w]].worker = w /\ Heartbeat(access[w])
          /\ open[w] \in {None, access[w]}
          /\ access'[w] = access[w] /\ open'[w] = open[w] /\ age'[w] = 0
        BY <1>4 DEF Beaten, Valid, LiveLeases, Shape
    <2>2. lease'[access[w]] = [lease[access[w]] EXCEPT !.ttl = LeaseTicks]
        BY <1>0, <2>1 DEF Heartbeat
    <2>3. lease[access[w]] \in LeaseRows
        BY <1>0, <2>1
    <2>4. lease'[access[w]].worker = w /\ lease'[access[w]].ttl = LeaseTicks
        BY <2>1, <2>2, <2>3 DEF LeaseRows, NoLease
    <2> QED BY <1>0, <2>1, <2>4 DEF Fresh
<1>5. CASE UNCHANGED vars /\ age'[w] = age[w]
           /\ {open'[w], access'[w]} \subseteq {open[w], access[w], None}
    BY <1>2, <1>5 DEF Other
<1>6. CASE Opened(w) \/ Answering(w) \/ Ended(w) \/ Crashed(w)
    BY <1>5, <1>6 DEF Opened, Answering, Ended, Crashed
<1>7. CASE Gone(w)
    BY <1>7 DEF Gone, Shape, Fresh
<1>8. CASE Loaded(w)
    <2>1. Other
        BY <1>8 DEF Loaded, Other, Shape
    <2> QED BY <1>2, <1>8, <2>1 DEF Loaded
<1>9. CASE Retrying(w)
    <2>1. Other \/ Reserves(w) \/ Reported(w)
        BY <1>9 DEF Retrying, Apply, Other, Reported, Answers, Shape
    <2> QED BY <1>2, <1>9, <2>1 DEF Retrying, Still
<1>10. CASE Advanced(w) \/ Aborted(w) \/ Passed(w)
    BY <1>2, <1>5, <1>10 DEF Advanced, Aborted, Passed
<1>11. CASE (Other \/ Reserves(w)) /\ Still(w)
    BY <1>2, <1>11 DEF Still
<1> QED BY <1>3, <1>4, <1>6, <1>7, <1>8, <1>9, <1>10, <1>11 DEF WorkerMoves

\* The step of worker w, to the deliveries it has.
LEMMA MoverIsDelivered ==
    ASSUME QueueInv, EngineTypes, [Next]_vars, NEW w \in Workers, WorkerInv(w), WorkerMoves(w)
    PROVE  Delivered(w)'
<1> USE DEF QueueInv, WorkerInv, Locals
<1>1. CASE Loaded(w)
    <2>1. access[w] \in Creds /\ ClaimCommit(w, access[w]) /\ todo'[w] = Got(w)
        BY <1>1 DEF Loaded, Shape
    <2>2. ASSUME NEW i \in Items, item'[i].attempts > item[i].attempts
          PROVE  /\ item'[i].attempts <= item'[i].attempts
                 /\ attempt'[i][item'[i].attempts].worker = w
        BY <2>1, <2>2, ClaimDelivers
    <2> QED BY <2>1, <2>2 DEF Delivered, Got
<1>2. CASE todo'[w] \subseteq todo[w]
    BY <1>2, DeliveredStays
<1>3. todo'[w] \subseteq todo[w] \/ Loaded(w)
    BY DEF WorkerMoves, Still, Assigned, Opened, Advanced, Beaten, Aborted, Answering, Passed,
           Retrying, Ended, Gone, Crashed, Rest
<1> QED BY <1>1, <1>2, <1>3

\* The step of worker w, to its batch.
LEMMA MoverIsBatched ==
    ASSUME QueueInv, EngineTypes, NEW w \in Workers, WorkerInv(w), WorkerMoves(w)
    PROVE  Batched(w)'
<1> USE DEF QueueInv, WorkerInv, Locals
<1>1. First(w) \in todo[w] => First(w)[1] \in Items /\ First(w)[2] \in Numbers
    BY DEF EngineTypes
<1>2. todo[w] \subseteq Items \X Numbers /\ Rest(w) \subseteq todo[w]
    BY DEF EngineTypes, Rest
<1>3. CASE phase'[w] \notin {"batch", "consulting", "answering"}
    BY <1>3 DEF Batched
\* No lease becomes live in these steps.
<1>4. ASSUME Other \/ Reported(w), access'[w] = access[w], Valid(w)' PROVE Valid(w)
    <2>1. access[w] \in Creds /\ lease'[access[w]].ttl > 0 /\ lease'[access[w]].worker = w
        BY <1>4 DEF Valid, LiveLeases
    <2>2. lease[access[w]].ttl > 0 /\ lease'[access[w]].worker = lease[access[w]].worker
        BY <1>1, <1>4, <2>1, LiveBefore DEF Reported
    <2> QED BY <2>1, <2>2 DEF Valid, LiveLeases
\* The rest of a batch is not what the answer to its first delivery answers.
<1>5. ASSUME Valid(w), NEW p \in Rest(w), Mine(w, p), Other \/ Reported(w),
             access'[w] = access[w]
      PROVE  Mine(w, p)'
    <2>1. CASE Other
        BY <1>2, <1>5, <2>1, PairStays DEF Elsewhere
    <2>2. CASE Reported(w)
        <3>1. First(w) \in Items \X Numbers /\ p \in Items \X Numbers /\ p # First(w)
            BY <1>2, <2>2 DEF Reported, Rest
        <3>2. First(w)[2] = item[First(w)[1]].attempts
            BY <1>1, <2>2, AnswersAccepted DEF Reported
        <3>3. p[1] # First(w)[1]
            BY <1>5, <3>1, <3>2 DEF Mine
        <3>4. Elsewhere(access[w], {p[1]})
            BY <1>1, <2>2, <3>3 DEF Reported, Elsewhere
        <3> QED BY <1>5, <3>1, <3>4, PairStays
    <2> QED BY <1>5, <2>1, <2>2
<1>6. ASSUME Other, access'[w] = access[w], todo'[w] = todo[w],
             phase'[w] \in {"batch", "consulting"} => phase[w] \in {"batch", "consulting"},
             phase'[w] = "answering" => phase[w] = "answering" /\ answer'[w] = answer[w]
      PROVE  Batched(w)'
    <2>1. Valid(w)' => Valid(w)
        BY <1>4, <1>6
    <2>2. \A p \in todo[w] : Elsewhere(access[w], {p[1]})
        BY <1>6 DEF Elsewhere
    <2> QED BY <1>6, <2>1, <2>2, BatchedStays
<1>7. CASE Loaded(w)
    <2>1. /\ access[w] \in Creds /\ ClaimCommit(w, access[w]) /\ access'[w] = access[w]
          /\ todo'[w] = Got(w) /\ phase'[w] = "batch" /\ lease' = lease
        BY <1>7 DEF Loaded, Shape, ClaimCommit
    <2>2. ASSUME NEW i \in Items, item'[i].attempts > item[i].attempts
          PROVE  item'[i].hold.via = access[w] /\ JobOf[i] = lease[access[w]].job
        <3>1. /\ item'[i] = Claimed(item[i], w, access[w])
              /\ JobOf[i] = lease[access[w]].job
            BY <2>1, <2>2, ClaimDelivers
        <3> QED BY <3>1 DEF Claimed
    <2>3. \A p \in todo'[w] : Mine(w, p)'
        BY <2>1, <2>2 DEF Got, Mine
    <2> QED BY <2>1, <2>3 DEF Batched
<1>8. CASE Answering(w)
    <2>1. /\ UNCHANGED vars /\ phase[w] = "consulting" /\ phase'[w] = "answering"
          /\ access'[w] = access[w] /\ todo'[w] = todo[w]
        BY <1>8 DEF Answering
    <2>2. First(w) \in todo[w] /\ First(w)' = First(w) /\ Rest(w)' = Rest(w)
        BY <2>1, FirstIsThere DEF Shape, First, Rest
    <2>3. ASSUME Valid(w)' PROVE \A p \in todo[w] : Mine(w, p)
        <3>1. Valid(w)
            BY <1>4, <2>1, <2>3 DEF Other
        <3> QED BY <2>1, <3>1 DEF Batched
    <2>4. \A p : Mine(w, p) => Mine(w, p)'
        BY <2>1 DEF Mine, vars
    <2> QED BY <1>2, <2>1, <2>2, <2>3, <2>4 DEF Batched
<1>9. CASE Passed(w)
    <2>1. /\ (Other \/ Reported(w)) /\ access'[w] = access[w] /\ todo'[w] = Rest(w)
          /\ phase'[w] \in {"ready", "batch", "reporting", "returning"}
          /\ phase'[w] = "batch" => phase[w] = "answering"
        BY <1>9 DEF Passed, Other
    <2>2. ASSUME Valid(w)', phase'[w] = "batch", NEW p \in Rest(w) PROVE Mine(w, p)'
        <3>1. Valid(w)
            BY <1>4, <2>1, <2>2
        <3> QED BY <1>5, <2>1, <2>2, <3>1 DEF Batched
    <2> QED BY <2>1, <2>2 DEF Batched
<1>10. CASE Retrying(w) /\ phase[w] = "answering"
    <2> DEFINE p == First(w)
    <2>1. /\ access'[w] = access[w] /\ todo'[w] = todo[w] /\ answer'[w] = answer[w]
          /\ phase'[w] = "answering" /\ answer[w] \in Outcomes
          /\ p \in todo[w] /\ First(w)' = First(w) /\ Rest(w)' = Rest(w)
        BY <1>10, FirstIsThere DEF Retrying, Still, Shape, First, Rest
    <2>2. CASE UNCHANGED vars
        BY <1>6, <1>10, <2>1, <2>2 DEF Other
    <2>3. CASE Apply(p, answer[w], TRUE)
        <3>1. Reported(w)
            BY <1>10, <2>1, <2>3 DEF Apply, Reported, Answers
        <3>2. ASSUME Valid(w)' PROVE \A q \in Rest(w) : Mine(w, q)'
            BY <1>4, <1>5, <1>10, <2>1, <3>1, <3>2 DEF Batched
        <3>3. ASSUME Valid(w)', answer[w] \notin Retryable PROVE Done(w, p)'
            <4>1. Answer(p[1], p[2], answer[w]) /\ Valid(w)
                BY <1>4, <2>1, <2>3, <3>1, <3>3 DEF Apply
            <4>2. JobOf[p[1]] = lease[access[w]].job /\ lease' = lease
                BY <1>10, <3>3, <4>1 DEF Batched, Mine, Done, Answer, Close
            <4>3. p[1] \in Items /\ p[2] = item[p[1]].attempts
                BY <1>1, <2>1, <3>1, AnswersAccepted DEF Reported
            <4>4. item'[p[1]] = Answered(item[p[1]], answer[w])
                BY <4>1, <4>3 DEF Answer, Close, TypeInv, TypeOK
            <4> QED BY <2>1, <4>2, <4>3, <4>4 DEF Done, Answered, Unheld
        <3> QED BY <2>1, <3>2, <3>3 DEF Batched, Done
    <2> QED BY <1>10, <2>2, <2>3 DEF Retrying
<1>11. CASE (Other \/ Reserves(w)) /\ Still(w)
    <2>1. CASE Reserves(w)
        BY <1>3, <1>11, <2>1 DEF Reserves, Still
    <2> QED BY <1>6, <1>11, <2>1 DEF Still
<1>12. CASE Beaten(w)
    <2>1. Other
        BY <1>12 DEF Beaten, Other, Shape
    <2>2. /\ phase'[w] \in {"batch", "consulting"} => phase[w] \in {"batch", "consulting"}
          /\ phase'[w] = "answering" => phase[w] = "answering" /\ answer'[w] = answer[w]
          /\ access'[w] = access[w] /\ todo'[w] = todo[w]
        BY <1>12 DEF Beaten
    <2> QED BY <1>6, <2>1, <2>2
<1>13. \/ Loaded(w) \/ Answering(w) \/ Passed(w) \/ Beaten(w)
       \/ Retrying(w) /\ phase[w] = "answering"
       \/ (Other \/ Reserves(w)) /\ Still(w)
       \/ phase'[w] \notin {"batch", "consulting", "answering"}
    BY DEF WorkerMoves, Assigned, Opened, Advanced, Aborted, Retrying, Still, Ended, Gone, Crashed
<1> QED BY <1>3, <1>7, <1>8, <1>9, <1>10, <1>11, <1>12, <1>13

\* A step of the server alone: an operator's, or a maintenance.
LEMMA ServerKeeps ==
    ASSUME QueueInv, EngineTypes, [Next]_vars, Other, NEW v \in Workers, WorkerInv(v), Still(v)
    PROVE  WorkerInv(v)'
<1> USE DEF QueueInv, WorkerInv, Still, Locals
<1>1. Shape(v)'
    BY DEF Shape
<1>2. \A c, S : Elsewhere(c, S)
    BY DEF Elsewhere
<1>3. Fresh(v)'
    BY <1>2, FreshStays
<1>4. Delivered(v)'
    BY DeliveredStays
<1>5. ASSUME Valid(v)' PROVE Valid(v)
    <2>1. access[v] \in Creds /\ lease'[access[v]].ttl > 0 /\ lease'[access[v]].worker = v
        BY <1>5 DEF Valid, LiveLeases
    <2>2. lease[access[v]].ttl > 0 /\ lease'[access[v]].worker = lease[access[v]].worker
        BY <2>1, LiveBefore
    <2> QED BY <2>1, <2>2 DEF Valid, LiveLeases
<1>6. Batched(v)'
    BY <1>2, <1>5, BatchedStays
<1> QED BY <1>1, <1>3, <1>4, <1>6

\* The clock.
LEMMA ClockKeeps ==
    ASSUME QueueInv, EngineTypes, [Next]_vars, Clock, NEW v \in Workers, WorkerInv(v)
    PROVE  /\ age'[v] \in 0 .. LeaseTicks
           /\ WorkerInv(v)'
<1> USE DEF QueueInv, WorkerInv
<1>0. /\ age[v] \in Nat /\ age[v] <= LeaseTicks /\ LeaseTicks \in Nat /\ Tick
      /\ lease \in [Creds -> LeaseRows]
      /\ open[v] \in Creds \cup {None} /\ access[v] \in Creds \cup {None}
      /\ UNCHANGED <<phase, access, open, todo, answer>>
      /\ age'[v] = IF age[v] < LeaseTicks THEN age[v] + 1 ELSE age[v]
    BY JobQueueAssumption DEF EngineTypes, Clock, TypeInv, TypeOK
<1>1. age'[v] \in 0 .. LeaseTicks
    BY <1>0
<1>2. Shape(v)'
    BY <1>0 DEF Shape
<1>3. ASSUME age'[v] < LeaseTicks, NEW c \in {open[v], access[v]} \ {None}
      PROVE  lease'[c].worker = v /\ lease'[c].ttl + age'[v] >= LeaseTicks
    <2>1. /\ c \in Creds /\ lease[c].worker = v /\ lease[c].ttl + age[v] >= LeaseTicks
          /\ age'[v] = age[v] + 1
        BY <1>0, <1>3 DEF Fresh
    <2>2. lease[c] \in LeaseRows /\ lease[c].ttl \in Nat
        BY <1>0, <2>1 DEF LeaseRows, NoLease
    <2>3. lease'[c] = [lease[c] EXCEPT !.ttl = IF lease[c].ttl > 0 THEN lease[c].ttl - 1 ELSE 0]
        BY <1>0, <2>1 DEF Tick
    <2>4. lease'[c].ttl = IF lease[c].ttl > 0 THEN lease[c].ttl - 1 ELSE 0
        BY <2>2, <2>3 DEF LeaseRows, NoLease
    <2> QED BY <1>0, <2>1, <2>2, <2>4, TickLease
<1>4. Fresh(v)'
    BY <1>0, <1>3 DEF Fresh
<1>5. Delivered(v)'
    BY <1>0, DeliveredStays
<1>6. ASSUME Valid(v)' PROVE Valid(v)
    <2>1. access[v] \in Creds /\ lease'[access[v]].ttl > 0 /\ lease'[access[v]].worker = v
        BY <1>0, <1>6 DEF Valid, LiveLeases
    <2> QED BY <1>0, <2>1, TickLease DEF Valid, LiveLeases
<1>7. Batched(v)'
    BY <1>0, <1>6, BatchedStays
<1> QED BY <1>1, <1>2, <1>4, <1>5, <1>7

\* An engine that has just started.
LEMMA EngineInvInit == EngineInit => EngineInv
<1> SUFFICES ASSUME EngineInit PROVE EngineInv
    OBVIOUS
<1>1. EngineTypes
    BY JobQueueAssumption DEF EngineInit, EngineTypes, Phases
<1>2. CreatedOnly
    BY DEF EngineInit, Init, CreatedOnly, NoLease
<1>3. ASSUME NEW w \in Workers PROVE WorkerInv(w)
    BY JobQueueAssumption
    DEF EngineInit, WorkerInv, Shape, Fresh, Delivered, Batched, Valid, LiveLeases
<1> QED BY <1>1, <1>2, <1>3 DEF EngineInv

\* Every step of the engine is a step of the queue, and keeps the invariant.
LEMMA EngineStep ==
    ASSUME QueueInv, TypeInv', EngineInv, [EngineNext]_evars
    PROVE  EngineInv'
<1> USE DEF EngineInv
<1>1. ASSUME NEW w \in Workers, Acts(w) PROVE EngineInv'
    <2>1. Framed(w) /\ WorkerMoves(w) /\ Shape(w) /\ Delivered(w)
        BY <1>1, ActsMoves DEF WorkerInv
    <2>2. /\ Other \/ Reserves(w) \/ Freed(w) \/ Reported(w)
          /\ [Next]_vars
        BY <2>1, MovesSteps
    <2>3. /\ phase'[w] \in Phases /\ access'[w] \in Creds \cup {None}
          /\ open'[w] \in Creds \cup {None} /\ todo'[w] \subseteq Items \X Numbers
          /\ answer'[w] \in Outcomes \cup {None} /\ age'[w] \in 0 .. LeaseTicks
          /\ Shape(w)'
        BY <2>1, MoverKeepsShape DEF QueueInv
    <2>4. EngineTypes'
        BY <2>1, <2>3 DEF EngineTypes, Framed
    <2>5. WorkerInv(w)'
        BY <2>1, <2>2, <2>3, MoverIsFresh, MoverIsDelivered, MoverIsBatched DEF WorkerInv
    <2>6. ASSUME NEW v \in Workers \ {w} PROVE WorkerInv(v)'
        <3>1. Still(v)
            BY <2>1, OthersStill
        <3> QED BY <2>1, <2>2, <3>1, OtherWorkerKeeps
    <2>7. Freed(w) => access[w] \in Creds
        BY <2>1 DEF Shape, Freed
    <2>8. Reported(w) => First(w)[1] \in Items /\ First(w)[2] \in Numbers
        BY DEF Reported, EngineTypes
    <2>9. CreatedOnly'
        BY <2>2, <2>7, <2>8, CreatedOnlyStep DEF QueueInv, Freed, Reported
    <2> QED BY <2>4, <2>5, <2>6, <2>9
<1>2. ASSUME Other, [Next]_vars, UNCHANGED local PROVE EngineInv'
    <2>1. EngineTypes'
        BY <1>2 DEF EngineTypes, local
    <2>2. ASSUME NEW v \in Workers PROVE WorkerInv(v)'
        <3>1. Still(v)
            BY <1>2 DEF Still, Locals, local
        <3> QED BY <1>2, <3>1, ServerKeeps
    <2>3. CreatedOnly'
        BY <1>2, CreatedOnlyStep DEF QueueInv
    <2> QED BY <2>1, <2>2, <2>3
<1>3. CASE Clock
    <2>1. Tick /\ [Next]_vars
        BY <1>3 DEF Clock, Next
    <2>2. \A v \in Workers : age'[v] \in 0 .. LeaseTicks /\ WorkerInv(v)'
        BY <1>3, <2>1, ClockKeeps
    <2>3. EngineTypes'
        BY <1>3, <2>2 DEF EngineTypes, Clock
    <2>4. CreatedOnly'
        BY <2>1, CreatedOnlyStep DEF QueueInv
    <2> QED BY <2>2, <2>3, <2>4
<1>4. CASE Operator \/ Maintenance \/ Reopens
    <2>1. OperatorStep \/ (\E j \in Jobs : Maintain(j)) \/ UNCHANGED vars
        BY <1>4 DEF Operator, Correct, Maintenance, OperatorStep, Reopens
    <2>2. Other /\ [Next]_vars /\ UNCHANGED local
        BY <1>4, <2>1 DEF Operator, Maintenance, Reopens, Other, Next
    <2> QED BY <1>2, <2>2
<1>5. CASE UNCHANGED evars
    BY <1>2, <1>5 DEF evars, Other
<1> QED BY <1>1, <1>3, <1>4, <1>5 DEF EngineNext, Acts

\* And the queue cannot tell: for it the step is one of its own.
LEMMA EngineStepsQueue ==
    ASSUME EngineInv, [EngineNext]_evars
    PROVE  [Next]_vars
<1>1. ASSUME NEW w \in Workers, Acts(w) PROVE [Next]_vars
    BY <1>1, ActsMoves, MovesSteps DEF EngineInv, WorkerInv
<1>2. CASE Operator \/ Maintenance \/ Clock \/ Reopens
    BY <1>2 DEF Operator, Correct, Maintenance, Clock, Reopens, Next, OperatorStep
<1> QED BY <1>1, <1>2 DEF EngineNext, Acts, evars

-----------------------------------------------------------------------------
(***************************************************************************)
(* The theorems.                                                           *)
(***************************************************************************)
\* The workers of engine.py use the queue as the queue expects it to be used: every
\* behaviour of the engine, with its lost replies, crashes and late requests, is a
\* behaviour of the queue.  So every safety theorem about the queue (its limits, its
\* history, its results, its counters) holds of the engine as well.
THEOREM EngineDrivesTheQueue == EngineSpec => Spec
<1>1. EngineInit => Init
    BY DEF EngineInit
<1>2. QueueInv /\ EngineInv /\ [EngineNext]_evars => QueueInv' /\ EngineInv' /\ [Next]_vars
    <2> SUFFICES ASSUME QueueInv, EngineInv, [EngineNext]_evars
                 PROVE  QueueInv' /\ EngineInv' /\ [Next]_vars
        OBVIOUS
    <2>1. [Next]_vars
        BY EngineStepsQueue
    <2>2. QueueInv'
        BY <2>1, TypeStep, SessionStep, HistoryStep, LimitsStep, QuietStep, AgreeStep DEF QueueInv
    <2>3. EngineInv'
        BY <2>2, EngineStep DEF QueueInv
    <2> QED BY <2>1, <2>2, <2>3
<1>3. EngineInit => QueueInv /\ EngineInv
    BY <1>1, EngineInvInit, TypeInit, SessionInit, InitHistory, LimitsInit, QuietInit, AgreeInit
    DEF QueueInv
<1> QED BY <1>1, <1>2, <1>3, PTL DEF EngineSpec, Spec

\* Both invariants hold of the engine.
LEMMA EngineInvariant == EngineSpec => [](QueueInv /\ EngineInv)
<1>1. EngineInit => QueueInv /\ EngineInv
    BY EngineInvInit, TypeInit, SessionInit, InitHistory, LimitsInit, QuietInit, AgreeInit
    DEF QueueInv, EngineInit
<1>2. QueueInv /\ EngineInv /\ [EngineNext]_evars => QueueInv' /\ EngineInv'
    <2> SUFFICES ASSUME QueueInv, EngineInv, [EngineNext]_evars
                 PROVE  QueueInv' /\ EngineInv'
        OBVIOUS
    <2>1. QueueInv'
        BY EngineStepsQueue, TypeStep, SessionStep, HistoryStep, LimitsStep, QuietStep, AgreeStep
        DEF QueueInv
    <2> QED BY <2>1, EngineStep DEF QueueInv
<1> QED BY <1>1, <1>2, PTL DEF EngineSpec

\* What is out with worker w under its live access lease is leased to it still.
LEMMA MineIsOwned ==
    ASSUME QueueInv, NEW w \in Workers, Valid(w), NEW p \in Items \X Numbers, Mine(w, p)
    PROVE  p[2] = item[p[1]].attempts /\ Owns(p[1], w, p[2])
<1>1. access[w] \in Creds /\ lease[access[w]].ttl > 0 /\ lease[access[w]].worker = w
    BY DEF Valid, LiveLeases
<1>2. Covered(item[p[1]], access[w]) /\ p[2] = item[p[1]].attempts
    BY <1>1 DEF QueueInv, SessionInv, Mine
<1>3. item[p[1]].hold.token = item[p[1]].attempts
    BY <1>2 DEF QueueInv, HistoryInv, RowHistory, Covered
<1>4. item[p[1]].hold.ttl \in Nat /\ lease[access[w]].ttl \in Nat
    <2>1. LeaseTicks \in Nat /\ item[p[1]] \in ItemRows /\ lease[access[w]] \in LeaseRows
        BY <1>1, JobQueueAssumption DEF QueueInv, TypeInv, TypeOK
    <2>2. item[p[1]].hold \in Holds
        BY <2>1 DEF ItemRows
    <2> QED BY <2>1, <2>2 DEF Holds, LeaseRows, NoLease
<1> QED BY <1>1, <1>2, <1>3, <1>4 DEF Covered, Owns

\* A worker with a fresh renewal has its access reserved.
LEMMA FreshIsReserved ==
    ASSUME QueueInv, EngineInv, NEW w \in Workers, age[w] < LeaseTicks,
           NEW c \in {open[w], access[w]}, c # None
    PROVE  c \in LiveLeases /\ lease[c].worker = w
<1>1. /\ c \in Creds /\ age[w] \in Nat /\ LeaseTicks \in Nat /\ lease[c].ttl \in Nat
    BY JobQueueAssumption
    DEF EngineInv, EngineTypes, QueueInv, TypeInv, TypeOK, LeaseRows, NoLease
<1>2. lease[c].worker = w /\ lease[c].ttl + age[w] >= LeaseTicks
    BY DEF EngineInv, WorkerInv, Fresh
<1> QED BY <1>1, <1>2 DEF LiveLeases

\* An open portal session, and what is consulted in it, is its worker's own while its
\* last answered renewal is younger than a lease: for every number of workers,
\* accesses and items, and however many replies are lost and processes die.
THEOREM SessionsBelongToTheirWorkers == EngineSpec => []SessionIsItsWorkers
<1>1. QueueInv /\ EngineInv => SessionIsItsWorkers
    <2> SUFFICES ASSUME QueueInv, EngineInv, NEW w \in Workers, age[w] < LeaseTicks
                 PROVE  /\ open[w] # None => open[w] \in LiveLeases /\ lease[open[w]].worker = w
                        /\ phase[w] = "consulting" =>
                              \A p \in todo[w] :
                                  p[2] = item[p[1]].attempts /\ Owns(p[1], w, p[2])
        BY DEF SessionIsItsWorkers
    <2>1. open[w] # None => open[w] \in LiveLeases /\ lease[open[w]].worker = w
        BY FreshIsReserved
    <2>2. ASSUME phase[w] = "consulting", NEW p \in todo[w]
          PROVE  p[2] = item[p[1]].attempts /\ Owns(p[1], w, p[2])
        <3>1. access[w] # None
            BY <2>2, JobQueueAssumption DEF EngineInv, WorkerInv, Shape
        <3>2. Valid(w)
            BY <3>1, FreshIsReserved DEF Valid
        <3>3. Mine(w, p) /\ p \in Items \X Numbers
            BY <2>2, <3>2 DEF EngineInv, WorkerInv, Batched, EngineTypes
        <3> QED BY <3>2, <3>3, MineIsOwned
    <2> QED BY <2>1, <2>2
<1> QED BY <1>1, EngineInvariant, PTL

\* The final answer of a worker with a fresh renewal is recorded, or recognised as
\* recorded: the item it answers is out with it or closed by that very answer, and a
\* job with an item out is neither stopped nor ended.
THEOREM FinalAnswersAreAccepted == EngineSpec => []FinalAnswerIsAccepted
<1>1. QueueInv /\ EngineInv => FinalAnswerIsAccepted
    <2> SUFFICES ASSUME QueueInv, EngineInv, NEW w \in Workers, phase[w] = "answering",
                        answer[w] \notin Retryable, age[w] < LeaseTicks
                 PROVE  \/ Accepts(First(w)[1], First(w)[2])
                        \/ Replayed(First(w), answer[w], TRUE)
        BY DEF FinalAnswerIsAccepted
    <2> DEFINE p == First(w)
               i == p[1]
               j == JobOf[i]
    <2>1. /\ access[w] # None /\ p \in todo[w] /\ p \in Items \X Numbers
        BY JobQueueAssumption, FirstIsThere DEF EngineInv, WorkerInv, Shape, EngineTypes
    <2>2. Valid(w)
        BY <2>1, FreshIsReserved DEF Valid
    <2>3. Mine(w, p) \/ Done(w, p)
        BY <2>2 DEF EngineInv, WorkerInv, Batched
    <2>4. CASE Done(w, p)
        BY <2>4 DEF Done, Replayed
    <2>5. CASE Mine(w, p)
        <3>1. /\ p[2] = item[i].attempts /\ Owns(i, w, p[2]) /\ attempt[i][p[2]].worker = w
              /\ item[i].attempts \in Nat
            BY <2>1, <2>2, <2>5, MineIsOwned, RowsTyped
            DEF EngineInv, WorkerInv, Delivered, QueueInv
        <3>2. /\ j \in Jobs /\ i \in ItemsOf(j) /\ status[j] \in JobStates
              /\ access[w] \in Creds /\ lease[access[w]].ttl > 0 /\ lease[access[w]].job = j
            BY <2>1, <2>2, <2>5, JobQueueAssumption
            DEF QueueInv, TypeInv, TypeOK, ItemsOf, Valid, LiveLeases, Mine
        <3>3. status[j] \notin {"absent"} \cup Stopped
            BY <3>2 DEF EngineInv, CreatedOnly, QueueInv, QuietInv, Quiet
        <3>4. item[i].status = "leased" /\ item[i].status \in StatesOf(j, item)
            BY <3>1, <3>2 DEF Owns, StatesOf
        <3>5. status[j] \notin EndedStates
            BY <3>2, <3>4 DEF QueueInv, AgreeInv, Agrees, Told, EndedStates
        <3>6. status[j] \in ActiveStates \cup DrainingStates
            BY <3>2, <3>3, <3>5 DEF JobStates, Stopped
        <3>7. Accepts(i, p[2])
            BY <3>1, <3>6 DEF Accepts, Owns
        <3> QED BY <3>7
    <2> QED BY <2>3, <2>4, <2>5
<1> QED BY <1>1, EngineInvariant, PTL
=============================================================================
