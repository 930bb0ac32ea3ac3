--------------------------- MODULE DeploymentProofs ---------------------------
(***************************************************************************)
(* Proofs about deploy.py, for every set of releases and units, every      *)
(* order of the service units and any number of commands, failures, lost   *)
(* connections and restarts.                                               *)
(***************************************************************************)
EXTENDS Deployment, SequenceTheorems, TLAPS

Targets == Builds \cup {None, Legacy}
Links == Targets \cup {Self}
Commands ==
    [verb : {"none", "deploy", "activate", "rollback"}, release : Builds \cup {None},
     backup : BOOLEAN, go : BOOLEAN, was : Links, before : Nat, line : BOOLEAN,
     at : 0 .. Len(Service)]

Types ==
    /\ ready \in [Builds -> Nat] /\ current \in Links
    /\ unit \in [Units -> Targets] /\ running \in [Units -> Targets]
    /\ schema \in Nat /\ backups \in Seq(Nat) /\ given \in Nat
    /\ cmd \in Commands
    /\ pc \in {"unit", "start", "reunit"} => cmd.at # 0

-----------------------------------------------------------------------------
(***************************************************************************)
(* Where a command is, and what it has done so far.                        *)
(***************************************************************************)
\* The unit file of u is the one target t ships, or there is none.
Fits(u, t) == unit[u] = IF u \in Shipped(t) THEN t ELSE None
Placed(t, k) == \A i \in 1 .. Len(Service) : i < k => Fits(Service[i], t)
AllPlaced(t) == \A u \in ServiceUnits : Fits(u, t)

\* The link and the target a restoration goes back to exist.
Linked ==
    /\ current \in {None, Self} \/ Exists(current)
    /\ cmd.was \in {None, Self} \/ Exists(cmd.was)

\* An activation or a rollback, on its way to its release.
Onward ==
    /\ pc = "pick" => ~Activating
    /\ pc \in {"stop", "backup", "retire", "migrate", "token", "unit", "switch", "start", "verify"}
          => cmd.release \in Ready
    /\ pc = "unit" => Placed(cmd.release, cmd.at)
    /\ pc \in {"switch", "start", "verify"} => AllPlaced(cmd.release)
    /\ pc \in {"start", "verify"} => current = cmd.release
    /\ pc = "verify" => \A u \in ServiceUnits : running[u] = unit[u]

\* What an activation has done besides.
Activated ==
    /\ pc = "start" =>
          \A i \in 1 .. Len(Service) : i < cmd.at => running[Service[i]] = unit[Service[i]]
    /\ pc \in {"start", "verify"} => ServiceUnits \subseteq enabled
    /\ pc \in {"retire", "migrate"} /\ cmd.backup => Last(backups) = schema
    /\ pc \in {"token", "unit", "switch", "start", "verify"} =>
          /\ schema = Revision[cmd.release]
          /\ cmd.backup => Last(backups) = cmd.before
    /\ pc \in {"unit", "switch", "start", "verify"} => envs = "known"

\* A restoration, on its way back to what the command found.
Backward ==
    /\ pc = "reunit" =>
          cmd.was \notin {None, Self} /\ current = cmd.was /\ Placed(cmd.was, cmd.at)
    /\ pc = "restart" /\ cmd.was \notin {None, Self} => current = cmd.was /\ AllPlaced(cmd.was)
    /\ pc = "recheck" /\ cmd.was \notin {None, Self} => Serves(cmd.was)

Answered == (pc # "idle" => reply = NoReply) /\ CommandsKeepTheirWord

WordInv ==
    Types /\ Linked /\ Onward /\ (Activating => Activated) /\ Backward /\ Answered

-----------------------------------------------------------------------------
(***************************************************************************)
(* What the steps of a command are made of.                                *)
(***************************************************************************)
\* The units are those of the service and those of before, and the services are
\* numbered in the order of the script.
LEMMA UnitFacts ==
    /\ Len(Service) \in Nat /\ Len(Service) >= 1
    /\ \A i \in 1 .. Len(Service) : Service[i] \in ServiceUnits
    /\ \A u \in ServiceUnits : \E i \in 1 .. Len(Service) : u = Service[i]
    /\ \A i, k \in 1 .. Len(Service) : Service[i] = Service[k] => i = k
    /\ ServiceUnits \subseteq Units /\ Retired \cap ServiceUnits = {}
    /\ None # Legacy /\ None \notin Builds /\ Legacy \notin Builds
    /\ Self # None /\ Self # Legacy /\ Self \notin Builds
<1>1. /\ Service \in Seq(Range(Service)) /\ Service # <<>> /\ IsInjective(Service)
      /\ None # Legacy /\ None \notin Builds /\ Legacy \notin Builds
      /\ Self # None /\ Self # Legacy /\ Self \notin Builds
    BY DeploymentAssumption
<1>2. Len(Service) \in Nat /\ DOMAIN Service = 1 .. Len(Service) /\ Len(Service) # 0
    BY <1>1, LenProperties, EmptySeq
<1>3. ServiceUnits = {Service[i] : i \in 1 .. Len(Service)}
    BY <1>2 DEF ServiceUnits, Range
<1>4. \A i, k \in 1 .. Len(Service) : Service[i] = Service[k] => i = k
    BY <1>1, <1>2 DEF IsInjective
<1> QED BY <1>1, <1>2, <1>3, <1>4 DEF Units, Retired

\* The command a step leaves: the same in all but its place.
CmdKept ==
    /\ cmd'.verb = cmd.verb /\ cmd'.release = cmd.release /\ cmd'.backup = cmd.backup
    /\ cmd'.was = cmd.was /\ cmd'.before = cmd.before

Steps(next) ==
    /\ pc' = next /\ CmdKept /\ cmd' \in Commands /\ cmd'.at = 1 /\ reply' = reply
Stays == pc' = pc /\ CmdKept /\ cmd' \in Commands /\ reply' = reply
Ends ==
    /\ pc' = "idle" /\ cmd' = NoCommand /\ cmd' \in Commands
    /\ reply'.kind \notin {"active", "rolled", "restored"}
Aborts == Ends \/ Steps("relink")

LEMMA StepMoves ==
    ASSUME Types, NEW next, Step(next)
    PROVE  Steps(next)
<1>1. cmd' = [cmd EXCEPT !.at = 1] /\ 1 \in 0 .. Len(Service) /\ cmd \in Commands
    BY UnitFacts DEF Step, Types
<1>2. CmdKept /\ cmd' \in Commands /\ cmd'.at = 1
    BY <1>1 DEF Commands, CmdKept
<1> QED BY <1>2 DEF Step, Steps

LEMMA AdvanceMoves ==
    ASSUME Types, NEW next, Advance(next), cmd.at # 0
    PROVE  \/ cmd.at < Len(Service) /\ Stays /\ cmd'.at = cmd.at + 1
           \/ cmd.at = Len(Service) /\ Steps(next)
<1>0. cmd.at \in 0 .. Len(Service) /\ Len(Service) \in Nat
    BY UnitFacts DEF Types, Commands
<1>1. CASE cmd.at < Len(Service)
    <2>1. cmd' = [cmd EXCEPT !.at = cmd.at + 1] /\ UNCHANGED <<pc, reply>> /\ cmd \in Commands
        BY <1>1 DEF Advance, Types
    <2>2. cmd.at + 1 \in 0 .. Len(Service)
        BY <1>0, <1>1
    <2>3. CmdKept /\ cmd' \in Commands /\ cmd'.at = cmd.at + 1
        BY <2>1, <2>2 DEF Commands, CmdKept
    <2> QED BY <1>1, <2>1, <2>3 DEF Stays
<1>2. CASE ~(cmd.at < Len(Service))
    <2>1. Step(next)
        BY <1>2 DEF Advance
    <2> QED BY <1>0, <1>2, <2>1, StepMoves
<1> QED BY <1>1, <1>2

LEMMA NoCommandIs ==
    /\ NoCommand \in Commands
    /\ NoCommand.was = None /\ NoCommand.line = TRUE /\ NoCommand.verb = "none"
    /\ NoReply.kind = "none"
BY UnitFacts DEF NoCommand, NoReply, Commands, Links, Targets

LEMMA AbortMoves ==
    ASSUME Types, Abort
    PROVE  Aborts
<1>1. ASSUME NEW kind \in {"unknown", "refused", "broken"}, End(kind) PROVE Ends
    BY <1>1, NoCommandIs DEF End, Ends
<1> QED BY <1>1, StepMoves DEF Abort, Aborts

\* Installing a unit places it and no other, and starts nothing.
LEMMA PutPlaces ==
    ASSUME Types, NEW t \in Targets, cmd.at # 0, Put(t), Placed(t, cmd.at)
    PROVE  /\ unit' \in [Units -> Targets] /\ running' \in [Units -> Targets]
           /\ \A i \in 1 .. Len(Service) : i < cmd.at + 1 =>
                 unit'[Service[i]] = IF Service[i] \in Shipped(t) THEN t ELSE None
           /\ \A u \in Units : running'[u] \in {running[u], None}
           /\ \A u \in Units \ ServiceUnits : unit'[u] = unit[u]
           /\ \A u \in Units : unit'[u] \in {unit[u], t, None}
<1>0. /\ cmd.at \in 1 .. Len(Service) /\ At \in Units /\ At = Service[cmd.at]
      /\ At \in ServiceUnits /\ None \in Targets
      /\ unit \in [Units -> Targets] /\ running \in [Units -> Targets]
      /\ \A i \in 1 .. Len(Service) : Service[i] \in Units
    BY UnitFacts DEF Types, Commands, At, Targets
<1>1. /\ unit' = [unit EXCEPT ![At] = IF At \in Shipped(t) THEN t ELSE None]
      /\ running' = running \/ running' = [running EXCEPT ![At] = None]
    BY DEF Put
<1>2. ASSUME NEW i \in 1 .. Len(Service), i < cmd.at + 1
      PROVE  unit'[Service[i]] = IF Service[i] \in Shipped(t) THEN t ELSE None
    <2>1. CASE i = cmd.at
        BY <1>0, <1>1, <2>1
    <2>2. CASE i < cmd.at
        <3>1. Service[i] # At /\ Service[i] \in Units
            BY <1>0, <2>2, UnitFacts
        <3> QED BY <1>0, <1>1, <2>2, <3>1 DEF Placed, Fits
    <2> QED BY <1>0, <1>2, <2>1, <2>2
<1> QED BY <1>0, <1>1, <1>2

\* Units all of whose numbers are placed are all placed.
LEMMA AllNumbersPlaced ==
    ASSUME NEW t, \A i \in 1 .. Len(Service) : i < Len(Service) + 1 =>
               unit'[Service[i]] = IF Service[i] \in Shipped(t) THEN t ELSE None
    PROVE  \A u \in ServiceUnits : unit'[u] = IF u \in Shipped(t) THEN t ELSE None
<1>1. \A i \in 1 .. Len(Service) : i < Len(Service) + 1
    BY UnitFacts
<1> QED BY <1>1, UnitFacts

\* A unit placed for the link's target runs, once it is started, what it names.
LEMMA PlacedCode ==
    ASSUME NEW u, Fits(u, current), current # Self
    PROVE  Code(u) = unit[u]
BY DEF Fits, Code

-----------------------------------------------------------------------------
(***************************************************************************)
(* The commands keep their word: the proof, action by action.              *)
(***************************************************************************)
HostTyped ==
    /\ ready \in [Builds -> Nat] /\ current \in Links
    /\ unit \in [Units -> Targets] /\ running \in [Units -> Targets]
    /\ schema \in Nat /\ backups \in Seq(Nat) /\ given \in Nat

LEMMA QuietAnswer ==
    ASSUME reply'.kind \notin {"active", "rolled", "restored"}
    PROVE  CommandsKeepTheirWord'
BY DEF CommandsKeepTheirWord

\* While a command goes on, no answer is there to be wrong.
LEMMA OnTheWay ==
    ASSUME WordInv, pc # "idle", reply' = reply
    PROVE  Answered' /\ reply' = NoReply
<1>1. reply' = NoReply
    BY DEF WordInv, Answered
<1> QED BY <1>1, QuietAnswer, NoCommandIs DEF Answered

\* An abort that leaves the releases and the link alone.
LEMMA AbortKeepsWord ==
    ASSUME WordInv, Aborts, pc # "idle", HostTyped', UNCHANGED <<legacy, ready, current>>
    PROVE  WordInv'
<1>1. CASE Ends
    <2>1. pc' = "idle" /\ cmd' = NoCommand /\ cmd' \in Commands /\ cmd'.was = None
        BY <1>1, NoCommandIs DEF Ends
    <2>2. Types'
        BY <2>1 DEF HostTyped, Types
    <2>3. Linked'
        BY <2>1 DEF WordInv, Linked, Exists, IsReady, Ready
    <2>4. Answered'
        BY <1>1, <2>1, QuietAnswer DEF Ends, Answered
    <2>5. Onward' /\ Activated' /\ Backward'
        BY <2>1 DEF Onward, Activated, Backward
    <2> QED BY <2>2, <2>3, <2>4, <2>5 DEF WordInv
<1>2. CASE Steps("relink")
    <2>1. pc' = "relink" /\ cmd' \in Commands /\ cmd'.was = cmd.was /\ reply' = reply
        BY <1>2 DEF Steps, CmdKept
    <2>2. Types'
        BY <2>1 DEF HostTyped, Types
    <2>3. Linked'
        BY <2>1 DEF WordInv, Linked, Exists, IsReady, Ready
    <2>4. Answered'
        BY <2>1, OnTheWay
    <2>5. Onward' /\ Activated' /\ Backward'
        BY <2>1 DEF Onward, Activated, Backward
    <2> QED BY <2>2, <2>3, <2>4, <2>5 DEF WordInv
<1> QED BY <1>1, <1>2 DEF Aborts

LEMMA InitWord ==
    ASSUME Init
    PROVE  WordInv
<1>1. /\ cmd = NoCommand /\ pc = "idle" /\ reply = NoReply /\ current = None
      /\ cmd \in Commands /\ cmd.was = None /\ reply.kind = "none"
    BY NoCommandIs DEF Init
<1>2. unit \in [Units -> Targets] /\ running = unit
    BY DEF Init, Targets
<1>3. Types
    <2>1. None \in Links /\ 0 \in Nat /\ <<>> \in Seq(Nat)
        BY DEF Links, Targets
    <2> QED BY <1>1, <1>2, <2>1 DEF Init, Types
<1>4. Linked /\ Onward /\ Activated /\ Backward
    BY <1>1 DEF Linked, Onward, Activated, Backward
<1>5. Answered
    BY <1>1 DEF Answered, CommandsKeepTheirWord
<1> QED BY <1>3, <1>4, <1>5 DEF WordInv

LEMMA CommandStarts ==
    ASSUME Command
    PROVE  /\ cmd' \in Commands /\ cmd'.was = None
           /\ (pc' = "prepare" \/ (pc' = "look" /\ cmd'.verb = "rollback"))
<1>1. PICK b \in Builds, backup \in BOOLEAN, go \in BOOLEAN :
        \/ cmd' = [NoCommand EXCEPT !.verb = "deploy", !.release = b,
                       !.backup = backup, !.go = go] /\ pc' = "prepare"
        \/ go /\ cmd' = [NoCommand EXCEPT !.verb = "activate", !.release = b,
                             !.backup = backup, !.go = go] /\ pc' = "prepare"
        \/ /\ go /\ backup
           /\ \E r \in {b, None} :
                cmd' = [NoCommand EXCEPT !.verb = "rollback", !.release = r] /\ pc' = "look"
    BY DEF Command
<1>2. NoCommand \in Commands /\ NoCommand.was = None
    BY NoCommandIs
<1>3. CASE cmd' = [NoCommand EXCEPT !.verb = "deploy", !.release = b,
                       !.backup = backup, !.go = go] /\ pc' = "prepare"
    BY <1>2, <1>3 DEF Commands
<1>4. CASE cmd' = [NoCommand EXCEPT !.verb = "activate", !.release = b,
                       !.backup = backup, !.go = go] /\ pc' = "prepare"
    BY <1>2, <1>4 DEF Commands
<1>5. CASE \E r \in {b, None} :
            cmd' = [NoCommand EXCEPT !.verb = "rollback", !.release = r] /\ pc' = "look"
    <2>1. PICK r \in {b, None} :
            cmd' = [NoCommand EXCEPT !.verb = "rollback", !.release = r]
        BY <1>5
    <2>2. r \in Builds \cup {None}
        OBVIOUS
    <2> QED BY <1>2, <1>5, <2>1, <2>2 DEF Commands
<1> QED BY <1>1, <1>3, <1>4, <1>5

LEMMA CommandWord ==
    ASSUME WordInv, Command
    PROVE  WordInv'
<1>1. /\ pc = "idle" /\ reply' = NoReply /\ given' = given + 1
      /\ UNCHANGED <<legacy, ready, current, unit, running, schema, backups>>
    BY DEF Command, host
<1>2. pc' \in {"prepare", "look"} /\ cmd' \in Commands /\ cmd'.was = None
    BY CommandStarts
<1>3. Types'
    BY <1>1, <1>2 DEF WordInv, Types
<1>4. Linked'
    BY <1>1, <1>2 DEF WordInv, Linked, Exists, IsReady, Ready
<1>5. Onward' /\ Activated' /\ Backward'
    BY <1>2 DEF Onward, Activated, Backward
<1>6. Answered'
    BY <1>1, QuietAnswer, NoCommandIs DEF Answered
<1> QED BY <1>3, <1>4, <1>5, <1>6 DEF WordInv

LEMMA PrepareWord ==
    ASSUME WordInv, Prepare
    PROVE  WordInv'
<1>0. pc = "prepare" /\ UNCHANGED <<legacy, ready, unit, running, schema, backups, given>>
    BY DEF Prepare
<1>1. CASE Abort /\ UNCHANGED current
    <2>1. HostTyped'
        BY <1>0, <1>1 DEF WordInv, Types, HostTyped
    <2> QED BY <1>0, <1>1, <2>1, AbortMoves, AbortKeepsWord DEF WordInv
<1>2. CASE /\ current' = IF current = None /\ legacy THEN Legacy ELSE current
           /\ Step(IF cmd.verb = "deploy" THEN "stage" ELSE "look")
    <2>1. \E next \in {"stage", "look"} : Steps(next)
        BY <1>2, StepMoves DEF WordInv
    <2>2. /\ pc' \in {"stage", "look"} /\ cmd' \in Commands /\ cmd'.was = cmd.was
          /\ reply' = reply
        BY <2>1 DEF Steps, CmdKept
    <2>3. Types'
        BY <1>0, <1>2, <2>2 DEF WordInv, Types, Links, Targets
    <2>4. Linked'
        BY <1>0, <1>2, <2>2 DEF WordInv, Linked, Exists, IsReady, Ready
    <2>5. Onward' /\ Activated' /\ Backward'
        BY <2>2 DEF Onward, Activated, Backward
    <2>6. Answered'
        BY <1>0, <2>2, OnTheWay
    <2> QED BY <2>3, <2>4, <2>5, <2>6 DEF WordInv
<1> QED BY <1>1, <1>2 DEF Prepare

LEMMA StageWord ==
    ASSUME WordInv, Stage
    PROVE  WordInv'
<1>0. /\ pc = "stage" /\ UNCHANGED <<legacy, current, unit, running, schema, backups, given>>
      /\ ready \in [Builds -> Nat] /\ given \in Nat
    BY DEF Stage, WordInv, Types
<1>1. CASE Abort /\ UNCHANGED ready
    <2>1. HostTyped'
        BY <1>0, <1>1 DEF WordInv, Types, HostTyped
    <2> QED BY <1>0, <1>1, <2>1, AbortMoves, AbortKeepsWord DEF WordInv
<1>2. CASE /\ ready' = [ready EXCEPT ![cmd.release] = given] /\ ~IsReady(cmd.release)
           /\ (Step("look") \/ End("prepared"))
    <2>1. Steps("look") \/ Ends
        <3>1. ASSUME End("prepared") PROVE Ends
            BY <3>1, NoCommandIs DEF End, Ends
        <3> QED BY <1>2, <3>1, StepMoves DEF WordInv
    <2>2. pc' \in {"look", "idle"} /\ cmd' \in Commands /\ cmd'.was \in {cmd.was, None}
        BY <2>1, NoCommandIs DEF Steps, Ends, CmdKept
    <2>3. /\ ready' \in [Builds -> Nat]
          /\ \A b \in Builds : ready[b] > 0 => ready'[b] > 0
        <3>1. \A b \in Builds : b # cmd.release => ready'[b] = ready[b]
            BY <1>0, <1>2
        <3>2. ready' \in [Builds -> Nat]
            BY <1>0, <1>2
        <3>3. cmd.release \in Builds => ~(ready[cmd.release] > 0)
            BY <1>2 DEF IsReady, Ready
        <3> QED BY <3>1, <3>2, <3>3
    <2>4. Types'
        BY <1>0, <2>2, <2>3 DEF WordInv, Types
    <2>5. Linked'
        BY <1>0, <2>2, <2>3 DEF WordInv, Linked, Exists, IsReady, Ready
    <2>6. Onward' /\ Activated' /\ Backward'
        BY <2>2 DEF Onward, Activated, Backward
    <2>7. Answered'
        BY <1>0, <2>1, OnTheWay, QuietAnswer DEF Steps, Ends, Answered
    <2> QED BY <2>4, <2>5, <2>6, <2>7 DEF WordInv
<1> QED BY <1>1, <1>2 DEF Stage

LEMMA LookWord ==
    ASSUME WordInv, Look
    PROVE  WordInv'
<1>1. /\ pc = "look" /\ cmd' = [cmd EXCEPT !.was = Found]
      /\ pc' = IF cmd.verb = "rollback" THEN "pick" ELSE "check"
      /\ UNCHANGED <<legacy, ready, current, unit, running, schema, backups, reply, given>>
    BY DEF Look, host
<1>2. /\ Found \in Links /\ (Found \in {None, Self} \/ Exists(Found))
    BY DEF WordInv, Types, Linked, Links, Targets, Found
<1>7. cmd' \in Commands /\ cmd'.was = Found /\ cmd'.verb = cmd.verb
    BY <1>1, <1>2 DEF WordInv, Types, Commands
<1>3. Types'
    BY <1>1, <1>7 DEF WordInv, Types
<1>4. Linked'
    BY <1>1, <1>2, <1>7 DEF WordInv, Linked, Exists, IsReady, Ready
<1>5. Onward' /\ Activated' /\ Backward'
    BY <1>1, <1>7 DEF Onward, Activated, Backward, Activating
<1>6. Answered'
    BY <1>1, OnTheWay
<1> QED BY <1>3, <1>4, <1>5, <1>6 DEF WordInv

\* What a step forward keeps whatever it does to units, data and schema.
LEMMA StepsKeep ==
    ASSUME WordInv, pc # "idle", HostTyped', UNCHANGED <<legacy, ready>>,
           current' \in {None, Self} \/ Exists(current'),
           NEW next, Steps(next)
    PROVE  /\ Types' /\ Linked' /\ Answered'
           /\ (Activating <=> Activating') /\ cmd'.release = cmd.release
<1>1. /\ pc' = next /\ cmd' \in Commands /\ cmd'.at = 1 /\ reply' = reply
      /\ cmd'.was = cmd.was /\ cmd'.release = cmd.release /\ cmd'.verb = cmd.verb
    BY DEF Steps, CmdKept
<1>2. Types'
    BY <1>1 DEF HostTyped, Types
<1>3. Linked'
    BY <1>1 DEF WordInv, Linked, Exists, IsReady, Ready
<1>4. Answered'
    BY <1>1, OnTheWay
<1> QED BY <1>1, <1>2, <1>3, <1>4 DEF Activating

LEMMA CheckWord ==
    ASSUME WordInv, Check
    PROVE  WordInv'
<1>0. /\ pc = "check"
      /\ UNCHANGED <<legacy, ready, current, unit, running, schema, backups, given>>
    BY DEF Check
<1>1. HostTyped' /\ (current' \in {None, Self} \/ Exists(current'))
    BY <1>0 DEF WordInv, Types, HostTyped, Linked
<1>2. CASE Abort
    BY <1>0, <1>1, <1>2, AbortMoves, AbortKeepsWord DEF WordInv
<1>3. CASE IsReady(cmd.release) /\ Step("stop")
    <2>1. Steps("stop")
        BY <1>3, StepMoves DEF WordInv
    <2>2. /\ Types' /\ Linked' /\ Answered'
          /\ (Activating <=> Activating') /\ cmd'.release = cmd.release
        BY <1>0, <1>1, <2>1, StepsKeep
    <2>3. pc' = "stop"
        BY <2>1 DEF Steps
    <2>4. Onward' /\ Activated' /\ Backward'
        BY <1>0, <1>3, <2>2, <2>3 DEF Onward, Activated, Backward, IsReady, Ready
    <2> QED BY <2>2, <2>4 DEF WordInv
<1> QED BY <1>2, <1>3 DEF Check

LEMMA StopWord ==
    ASSUME WordInv, Stop
    PROVE  WordInv'
<1>0. /\ pc = "stop"
      /\ UNCHANGED <<legacy, ready, current, unit, schema, backups, given, cmd, pc, reply>>
    BY DEF Stop
<1>1. running' \in [Units -> Targets]
    <2>1. PICK u \in Units : running' = [running EXCEPT ![u] = None]
        BY DEF Stop
    <2>2. None \in Targets
        BY DEF Targets
    <2> QED BY <2>1, <2>2 DEF WordInv, Types
<1>2. Types' /\ Linked'
    BY <1>0, <1>1 DEF WordInv, Types, Linked, Exists, IsReady, Ready
<1>3. Onward' /\ Activated' /\ Backward'
    BY <1>0 DEF WordInv, Onward, Activated, Backward, Ready
<1>4. Answered'
    BY <1>0, OnTheWay
<1> QED BY <1>2, <1>3, <1>4 DEF WordInv

LEMMA ImportWord ==
    ASSUME WordInv, Import
    PROVE  WordInv'
<1>0. /\ pc = "stop" /\ Step("backup")
      /\ UNCHANGED <<legacy, ready, current, unit, running, schema, backups, given>>
    BY DEF Import
<1>1. HostTyped' /\ (current' \in {None, Self} \/ Exists(current'))
    BY <1>0 DEF WordInv, Types, HostTyped, Linked
<1>2. Steps("backup")
    BY <1>0, StepMoves DEF WordInv
<1>3. /\ Types' /\ Linked' /\ Answered'
      /\ (Activating <=> Activating') /\ cmd'.release = cmd.release
    BY <1>0, <1>1, <1>2, StepsKeep
<1>4. pc' = "backup"
    BY <1>2 DEF Steps
<1>5. Onward' /\ Activated' /\ Backward'
    BY <1>0, <1>3, <1>4 DEF WordInv, Onward, Activated, Backward, Ready
<1> QED BY <1>3, <1>5 DEF WordInv

LEMMA TailOf ==
    ASSUME NEW s \in Seq(Nat), NEW m \in Int, NEW n \in Int, 1 <= m, m <= n, n = Len(s)
    PROVE  /\ SubSeq(s, m, n) \in Seq(Nat)
           /\ Len(SubSeq(s, m, n)) = n - m + 1
           /\ SubSeq(s, m, n)[n - m + 1] = s[n]
<1>1. \A i \in m .. n : s[i] \in Nat
    OBVIOUS
<1>2. /\ SubSeq(s, m, n) \in Seq(Nat)
      /\ Len(SubSeq(s, m, n)) = IF m <= n THEN n - m + 1 ELSE 0
      /\ \A i \in 1 .. n - m + 1 : SubSeq(s, m, n)[i] = s[m + i - 1]
    BY <1>1, SubSeqProperties
<1>3. n - m + 1 \in 1 .. n - m + 1 /\ m + (n - m + 1) - 1 = n
    OBVIOUS
<1> QED BY <1>2, <1>3

\* Of the dumps, the newest are kept, the last of them included.
LEMMA LastOfKeepsLast ==
    ASSUME NEW s \in Seq(Nat), NEW n \in Nat
    PROVE  LastOf(Append(s, n)) \in Seq(Nat) /\ Last(LastOf(Append(s, n))) = n
<1> DEFINE t == Append(s, n)
           first == IF Len(t) > Keep THEN Len(t) - Keep + 1 ELSE 1
<1>1. t \in Seq(Nat) /\ Len(t) = Len(s) + 1 /\ t[Len(s) + 1] = n /\ Len(s) \in Nat
    BY AppendProperties, LenProperties
<1>2. Keep \in Nat /\ Keep >= 2
    BY DeploymentAssumption
<1>3. first \in Int /\ Len(t) \in Int /\ 1 <= first /\ first <= Len(t)
    BY <1>1, <1>2
<1>4. LastOf(t) = SubSeq(t, first, Len(t))
    BY DEF LastOf
<1> HIDE DEF t, first
<1>5. /\ SubSeq(t, first, Len(t)) \in Seq(Nat)
      /\ Len(SubSeq(t, first, Len(t))) = Len(t) - first + 1
      /\ SubSeq(t, first, Len(t))[Len(t) - first + 1] = t[Len(t)]
    BY <1>1, <1>3, TailOf
<1>6. LastOf(t) \in Seq(Nat) /\ Last(LastOf(t)) = n
    BY <1>1, <1>4, <1>5 DEF Last
<1> QED BY <1>6 DEF t

LEMMA BackupWord ==
    ASSUME WordInv, Backup
    PROVE  WordInv'
<1>0. /\ pc = "backup" /\ Step("retire")
      /\ UNCHANGED <<legacy, ready, current, unit, running, schema, given>>
      /\ backups' = IF cmd.backup THEN LastOf(Append(backups, schema)) ELSE backups
      /\ backups \in Seq(Nat) /\ schema \in Nat
    BY DEF Backup, WordInv, Types
<1>1. backups' \in Seq(Nat) /\ (cmd.backup => Last(backups') = schema)
    BY <1>0, LastOfKeepsLast
<1>2. HostTyped' /\ (current' \in {None, Self} \/ Exists(current'))
    BY <1>0, <1>1 DEF WordInv, Types, HostTyped, Linked
<1>3. Steps("retire")
    BY <1>0, StepMoves DEF WordInv
<1>4. /\ Types' /\ Linked' /\ Answered'
      /\ (Activating <=> Activating') /\ cmd'.release = cmd.release
    BY <1>0, <1>2, <1>3, StepsKeep
<1>5. pc' = "retire" /\ cmd'.backup = cmd.backup
    BY <1>3 DEF Steps, CmdKept
<1>6. Onward' /\ Backward'
    BY <1>0, <1>4, <1>5 DEF WordInv, Onward, Backward, Ready
<1>7. Activated'
    BY <1>0, <1>1, <1>5 DEF Activated
<1> QED BY <1>4, <1>6, <1>7 DEF WordInv

LEMMA RetireWord ==
    ASSUME WordInv, Retire
    PROVE  WordInv'
<1>0. /\ pc = "retire" /\ Step("migrate")
      /\ UNCHANGED <<legacy, ready, current, unit, running, schema, backups, given>>
    BY DEF Retire
<1>1. HostTyped' /\ (current' \in {None, Self} \/ Exists(current'))
    BY <1>0 DEF WordInv, Types, HostTyped, Linked
<1>2. Steps("migrate")
    BY <1>0, StepMoves DEF WordInv
<1>3. /\ Types' /\ Linked' /\ Answered'
      /\ (Activating <=> Activating') /\ cmd'.release = cmd.release
    BY <1>0, <1>1, <1>2, StepsKeep
<1>4. pc' = "migrate" /\ cmd'.backup = cmd.backup
    BY <1>2 DEF Steps, CmdKept
<1>5. Onward' /\ Backward'
    BY <1>0, <1>3, <1>4 DEF WordInv, Onward, Backward, Ready
<1>6. Activating => Activated'
    BY <1>0, <1>4 DEF WordInv, Activated
<1> QED BY <1>3, <1>5, <1>6 DEF WordInv

LEMMA MigrateWord ==
    ASSUME WordInv, Migrate
    PROVE  WordInv'
<1>0. /\ pc = "migrate"
      /\ UNCHANGED <<legacy, ready, current, unit, running, backups, given>>
      /\ current' \in {None, Self} \/ Exists(current')
    BY DEF Migrate, WordInv, Linked
<1>1. CASE Abort /\ UNCHANGED schema
    <2>1. HostTyped'
        BY <1>0, <1>1 DEF WordInv, Types, HostTyped
    <2> QED BY <1>0, <1>1, <2>1, AbortMoves, AbortKeepsWord DEF WordInv
<1>2. CASE /\ schema' = Revision[cmd.release] /\ cmd' = [cmd EXCEPT !.before = schema]
           /\ pc' = "token" /\ UNCHANGED reply
    <2>1. cmd \in Commands /\ schema \in Nat /\ cmd.release \in Builds
        BY <1>0 DEF WordInv, Types, Onward, Ready
    <2>2. /\ cmd' \in Commands /\ cmd'.release = cmd.release /\ cmd'.was = cmd.was
          /\ cmd'.backup = cmd.backup /\ cmd'.verb = cmd.verb /\ cmd'.before = schema
        BY <1>2, <2>1 DEF Commands
    <2>3. schema' \in Nat
        BY <1>2, <2>1, DeploymentAssumption
    <2>4. Types' /\ Linked'
        BY <1>0, <1>2, <2>2, <2>3 DEF WordInv, Types, Linked, Exists, IsReady, Ready
    <2>5. Answered'
        BY <1>0, <1>2, OnTheWay
    <2>6. Onward' /\ Backward'
        BY <1>0, <1>2, <2>2 DEF WordInv, Onward, Backward, Ready
    <2>7. Activating => Activated'
        BY <1>0, <1>2, <2>2 DEF WordInv, Activated
    <2>8. Activating' => Activating
        BY <2>2 DEF Activating
    <2> QED BY <2>4, <2>5, <2>6, <2>7, <2>8 DEF WordInv
<1> QED BY <1>1, <1>2 DEF Migrate

LEMMA EnsureTokensWord ==
    ASSUME WordInv, EnsureTokens
    PROVE  WordInv'
<1>0. /\ pc = "token"
      /\ UNCHANGED <<legacy, ready, current, unit, running, schema, backups, given>>
      /\ current' \in {None, Self} \/ Exists(current')
    BY DEF EnsureTokens, WordInv, Linked
<1>1. HostTyped'
    BY <1>0 DEF WordInv, Types, HostTyped
<1>2. CASE Abort
    BY <1>0, <1>1, <1>2, AbortMoves, AbortKeepsWord DEF WordInv
<1>3. CASE envs' = "known" /\ Step("unit")
    <2>1. Steps("unit")
        BY <1>3, StepMoves DEF WordInv
    <2>2. /\ Types' /\ Linked' /\ Answered'
          /\ (Activating <=> Activating') /\ cmd'.release = cmd.release
        BY <1>0, <1>1, <2>1, StepsKeep
    <2>3. /\ pc' = "unit" /\ cmd'.at = 1 /\ cmd'.backup = cmd.backup
          /\ cmd'.before = cmd.before
        BY <2>1 DEF Steps, CmdKept
    <2>4. \A i \in 1 .. Len(Service) : ~(i < 1)
        BY UnitFacts
    <2>5. Onward'
        BY <1>0, <2>2, <2>3, <2>4 DEF WordInv, Onward, Placed, Ready
    <2>6. Activating => Activated'
        BY <1>0, <1>3, <2>2, <2>3 DEF WordInv, Activated
    <2>7. Backward'
        BY <2>3 DEF Backward
    <2> QED BY <2>2, <2>5, <2>6, <2>7 DEF WordInv
<1> QED BY <1>2, <1>3 DEF EnsureTokens

LEMMA PickWord ==
    ASSUME WordInv, Pick
    PROVE  WordInv'
<1>0. /\ pc = "pick"
      /\ UNCHANGED <<legacy, ready, current, unit, running, schema, backups, given>>
      /\ current' \in {None, Self} \/ Exists(current')
    BY DEF Pick, WordInv, Linked
<1>1. HostTyped'
    BY <1>0 DEF WordInv, Types, HostTyped
<1>2. CASE Abort
    BY <1>0, <1>1, <1>2, AbortMoves, AbortKeepsWord DEF WordInv
<1>3. CASE /\ \E b \in Picks : cmd' = [cmd EXCEPT !.release = b, !.at = 1]
           /\ pc' = "unit" /\ UNCHANGED reply
    <2>1. PICK b \in Picks : cmd' = [cmd EXCEPT !.release = b, !.at = 1]
        BY <1>3
    <2>2. b \in Ready /\ b \in Builds /\ cmd \in Commands /\ 1 \in 0 .. Len(Service)
        BY UnitFacts DEF Picks, Ready, WordInv, Types
    <2>3. /\ cmd' \in Commands /\ cmd'.release = b /\ cmd'.was = cmd.was /\ cmd'.at = 1
          /\ cmd'.verb = cmd.verb
        BY <2>1, <2>2 DEF Commands
    <2>4. Types' /\ Linked'
        BY <1>0, <1>1, <1>3, <2>3 DEF HostTyped, WordInv, Types, Linked, Exists, IsReady, Ready
    <2>5. Answered'
        BY <1>0, <1>3, OnTheWay
    <2>6. \A i \in 1 .. Len(Service) : ~(i < 1)
        BY UnitFacts
    <2>7. Onward' /\ Backward'
        BY <1>0, <1>3, <2>2, <2>3, <2>6 DEF Onward, Placed, Backward, Ready
    <2>8. ~Activating'
        BY <1>0, <2>3 DEF WordInv, Onward, Activating
    <2> QED BY <2>4, <2>5, <2>7, <2>8 DEF WordInv
<1> QED BY <1>2, <1>3 DEF Pick

LEMMA InstallWord ==
    ASSUME WordInv, Install
    PROVE  WordInv'
<1>0. /\ pc = "unit" /\ cmd.at # 0
      /\ UNCHANGED <<legacy, ready, current, enabled, envs, schema, backups, given>>
      /\ current' \in {None, Self} \/ Exists(current')
      /\ cmd.release \in Targets /\ cmd.release \in Ready /\ Placed(cmd.release, cmd.at)
    BY DEF Install, WordInv, Types, Linked, Onward, Targets, Ready
<1>1. CASE Abort /\ UNCHANGED <<unit, running>>
    <2>1. HostTyped'
        BY <1>0, <1>1 DEF WordInv, Types, HostTyped
    <2> QED BY <1>0, <1>1, <2>1, AbortMoves, AbortKeepsWord DEF WordInv
<1>2. CASE Put(cmd.release) /\ Advance("switch")
    <2>1. /\ unit' \in [Units -> Targets] /\ running' \in [Units -> Targets]
          /\ \A i \in 1 .. Len(Service) : i < cmd.at + 1 =>
                unit'[Service[i]] =
                    IF Service[i] \in Shipped(cmd.release) THEN cmd.release ELSE None
        BY <1>0, <1>2, PutPlaces DEF WordInv
    <2>2. HostTyped'
        BY <1>0, <2>1 DEF WordInv, Types, HostTyped
    <2>4. CASE Stays /\ cmd'.at = cmd.at + 1
        <3>1. /\ pc' = "unit" /\ cmd' \in Commands /\ cmd'.release = cmd.release
              /\ cmd'.was = cmd.was /\ cmd'.verb = cmd.verb /\ reply' = reply
              /\ cmd'.backup = cmd.backup /\ cmd'.before = cmd.before
            BY <1>0, <2>4 DEF Stays, CmdKept
        <3>2. cmd'.at # 0
            BY <1>0, <2>4 DEF WordInv, Types, Commands
        <3>3. Types' /\ Linked'
            BY <1>0, <2>2, <3>1, <3>2
            DEF HostTyped, WordInv, Types, Linked, Exists, IsReady, Ready
        <3>4. Answered'
            BY <1>0, <3>1, OnTheWay
        <3>5. Placed(cmd.release, cmd.at)'
            BY <1>0, <2>1, <2>4, <3>1 DEF Placed, Fits, Shipped
        <3>6. Onward' /\ Backward'
            BY <1>0, <3>1, <3>5 DEF Onward, Backward, Ready
        <3>7. Activating => Activated'
            BY <1>0, <3>1 DEF WordInv, Activated
        <3> QED BY <3>1, <3>3, <3>4, <3>6, <3>7 DEF WordInv, Activating
    <2>5. CASE cmd.at = Len(Service) /\ Steps("switch")
        <3>1. /\ Types' /\ Linked' /\ Answered'
              /\ (Activating <=> Activating') /\ cmd'.release = cmd.release
            BY <1>0, <2>2, <2>5, StepsKeep
        <3>2. pc' = "switch" /\ cmd'.backup = cmd.backup /\ cmd'.before = cmd.before
            BY <2>5 DEF Steps, CmdKept
        <3>3. \A u \in ServiceUnits :
                unit'[u] = IF u \in Shipped(cmd.release) THEN cmd.release ELSE None
            BY <2>1, <2>5, AllNumbersPlaced
        <3>4. AllPlaced(cmd.release)'
            BY <1>0, <3>1, <3>3 DEF AllPlaced, Fits, Shipped
        <3>5. Onward' /\ Backward'
            BY <1>0, <3>1, <3>2, <3>4 DEF Onward, Backward, Ready
        <3>6. Activating => Activated'
            BY <1>0, <3>1, <3>2 DEF WordInv, Activated
        <3> QED BY <3>1, <3>5, <3>6 DEF WordInv
    <2> QED BY <1>0, <1>2, <2>4, <2>5, AdvanceMoves DEF WordInv
<1> QED BY <1>1, <1>2 DEF Install

LEMMA SwitchWord ==
    ASSUME WordInv, Switch
    PROVE  WordInv'
<1>0. /\ pc = "switch" /\ Step("start") /\ current' = cmd.release
      /\ enabled' = IF Activating THEN enabled \cup ServiceUnits ELSE enabled
      /\ UNCHANGED <<legacy, ready, unit, running, envs, schema, backups, given>>
      /\ cmd.release \in Ready /\ cmd.release \in Builds /\ cmd.release # Legacy
      /\ AllPlaced(cmd.release)
    BY UnitFacts DEF Switch, WordInv, Onward, Ready
<1>1. HostTyped' /\ (current' \in {None, Self} \/ Exists(current'))
    BY <1>0 DEF WordInv, Types, HostTyped, Links, Targets, Exists, IsReady
<1>2. Steps("start")
    BY <1>0, StepMoves DEF WordInv
<1>3. /\ Types' /\ Linked' /\ Answered'
      /\ (Activating <=> Activating') /\ cmd'.release = cmd.release
    BY <1>0, <1>1, <1>2, StepsKeep
<1>4. /\ pc' = "start" /\ cmd'.at = 1 /\ cmd'.backup = cmd.backup
      /\ cmd'.before = cmd.before
    BY <1>2 DEF Steps, CmdKept
<1>5. AllPlaced(cmd.release)'
    BY <1>0, <1>3 DEF AllPlaced, Fits, Shipped
<1>6. Onward' /\ Backward'
    BY <1>0, <1>3, <1>4, <1>5 DEF Onward, Backward, Ready
<1>7. \A i \in 1 .. Len(Service) : ~(i < 1)
    BY UnitFacts
<1>8. Activating => Activated'
    BY <1>0, <1>3, <1>4, <1>7 DEF WordInv, Activated
<1> QED BY <1>3, <1>6, <1>8 DEF WordInv

LEMMA CodeTyped ==
    ASSUME Types, NEW u \in Units
    PROVE  Code(u) \in Targets
BY DEF Code, Types, Links, Targets

\* Restarting every unit of the service runs what is installed.
LEMMA RestartRuns ==
    ASSUME Types, AllPlaced(current), current # Self,
           running' = [u \in Units |-> IF u \in ServiceUnits THEN Code(u) ELSE running[u]]
    PROVE  /\ running' \in [Units -> Targets]
           /\ \A u \in ServiceUnits : running'[u] = unit[u]
BY CodeTyped, PlacedCode, UnitFacts DEF AllPlaced, Types

LEMMA StartWord ==
    ASSUME WordInv, Start
    PROVE  WordInv'
<1>0. /\ pc = "start" /\ cmd.at # 0
      /\ UNCHANGED <<legacy, ready, current, unit, enabled, envs, schema, backups, given>>
      /\ current' \in {None, Self} \/ Exists(current')
      /\ cmd.release \in Ready /\ current = cmd.release /\ AllPlaced(cmd.release)
      /\ current # Self
    BY UnitFacts DEF Start, WordInv, Types, Linked, Onward, Ready
<1>1. CASE Activating
    <2>0. running' = [running EXCEPT ![At] = Code(At)] /\ Advance("verify")
        BY <1>1 DEF Start
    <2>1. /\ cmd.at \in 1 .. Len(Service) /\ At = Service[cmd.at] /\ At \in Units
          /\ At \in ServiceUnits /\ \A i \in 1 .. Len(Service) : Service[i] \in Units
        BY <1>0, UnitFacts DEF WordInv, Types, Commands, At
    <2>2. Code(At) = unit[At] /\ Code(At) \in Targets
        BY <1>0, <2>1, PlacedCode, CodeTyped DEF AllPlaced, WordInv
    <2>3. running' \in [Units -> Targets]
        BY <2>0, <2>1, <2>2 DEF WordInv, Types
    <2>4. ASSUME NEW i \in 1 .. Len(Service), i < cmd.at + 1
          PROVE  running'[Service[i]] = unit[Service[i]]
        <3>1. CASE i = cmd.at
            BY <2>0, <2>1, <2>2, <3>1 DEF WordInv, Types
        <3>2. CASE i < cmd.at
            <4>1. Service[i] # At
                BY <2>1, <3>2, UnitFacts
            <4>2. running[Service[i]] = unit[Service[i]]
                BY <1>0, <1>1, <3>2 DEF WordInv, Activated
            <4> QED BY <2>0, <2>1, <4>1, <4>2 DEF WordInv, Types
        <3> QED BY <2>1, <2>4, <3>1, <3>2
    <2>5. HostTyped'
        BY <1>0, <2>3 DEF WordInv, Types, HostTyped
    <2>6. CASE Stays /\ cmd'.at = cmd.at + 1
        <3>1. /\ pc' = "start" /\ cmd' \in Commands /\ cmd'.release = cmd.release
              /\ cmd'.was = cmd.was /\ cmd'.verb = cmd.verb /\ reply' = reply
              /\ cmd'.backup = cmd.backup /\ cmd'.before = cmd.before
            BY <1>0, <2>6 DEF Stays, CmdKept
        <3>2. cmd'.at # 0
            BY <2>1, <2>6
        <3>3. Types' /\ Linked'
            BY <1>0, <2>5, <3>1, <3>2
            DEF HostTyped, WordInv, Types, Linked, Exists, IsReady, Ready
        <3>4. Answered'
            BY <1>0, <3>1, OnTheWay
        <3>5. AllPlaced(cmd.release)'
            BY <1>0, <3>1 DEF AllPlaced, Fits, Shipped
        <3>6. Onward' /\ Backward'
            BY <1>0, <3>1, <3>5 DEF Onward, Backward, Ready
        <3>7. Activated'
            BY <1>0, <1>1, <2>4, <2>6, <3>1 DEF WordInv, Activated
        <3> QED BY <3>3, <3>4, <3>6, <3>7 DEF WordInv
    <2>7. CASE cmd.at = Len(Service) /\ Steps("verify")
        <3>1. /\ Types' /\ Linked' /\ Answered'
              /\ (Activating <=> Activating') /\ cmd'.release = cmd.release
            BY <1>0, <2>5, <2>7, StepsKeep
        <3>2. pc' = "verify" /\ cmd'.backup = cmd.backup /\ cmd'.before = cmd.before
            BY <2>7 DEF Steps, CmdKept
        <3>3. AllPlaced(cmd.release)'
            BY <1>0, <3>1 DEF AllPlaced, Fits, Shipped
        <3>4. \A i \in 1 .. Len(Service) : i < cmd.at + 1
            BY <2>1, <2>7
        <3>5. \A u \in ServiceUnits : running'[u] = unit'[u]
            BY <1>0, <2>4, <3>4, UnitFacts
        <3>6. Onward' /\ Backward'
            BY <1>0, <3>1, <3>2, <3>3, <3>5 DEF Onward, Backward, Ready
        <3>7. Activated'
            BY <1>0, <1>1, <3>1, <3>2 DEF WordInv, Activated
        <3> QED BY <3>1, <3>6, <3>7 DEF WordInv
    <2> QED BY <1>0, <2>0, <2>6, <2>7, AdvanceMoves DEF WordInv
<1>2. CASE ~Activating /\ Abort /\ UNCHANGED running
    <2>1. HostTyped'
        BY <1>0, <1>2 DEF WordInv, Types, HostTyped
    <2> QED BY <1>0, <1>2, <2>1, AbortMoves, AbortKeepsWord DEF WordInv
<1>3. CASE /\ ~Activating /\ Step("verify")
           /\ running' = [u \in Units |-> IF u \in ServiceUnits THEN Code(u) ELSE running[u]]
    <2>1. /\ running' \in [Units -> Targets]
          /\ \A u \in ServiceUnits : running'[u] = unit[u]
        BY <1>0, <1>3, RestartRuns DEF WordInv
    <2>2. HostTyped' /\ Steps("verify")
        BY <1>0, <1>3, <2>1, StepMoves DEF WordInv, Types, HostTyped
    <2>3. /\ Types' /\ Linked' /\ Answered'
          /\ (Activating <=> Activating') /\ cmd'.release = cmd.release
        BY <1>0, <2>2, StepsKeep
    <2>4. pc' = "verify"
        BY <2>2 DEF Steps
    <2>5. AllPlaced(cmd.release)'
        BY <1>0, <2>3 DEF AllPlaced, Fits, Shipped
    <2>6. Onward' /\ Backward'
        BY <1>0, <2>1, <2>3, <2>4, <2>5 DEF Onward, Backward, Ready
    <2> QED BY <1>3, <2>3, <2>6 DEF WordInv
<1> QED BY <1>1, <1>2, <1>3 DEF Start, RestartAll

LEMMA VerifyWord ==
    ASSUME WordInv, Verify
    PROVE  WordInv'
<1>0. /\ pc = "verify" /\ cmd.release \in Ready /\ cmd.release \in Builds
      /\ current = cmd.release /\ cmd.release # Legacy /\ ready \in [Builds -> Nat]
      /\ UNCHANGED <<legacy, current, unit, running, enabled, envs, schema, backups, given>>
    BY UnitFacts DEF Verify, WordInv, Onward, Ready, Types
<1>4. CASE ~Up /\ Abort /\ UNCHANGED ready
    <2>1. HostTyped'
        BY <1>0, <1>4 DEF WordInv, Types, HostTyped
    <2> QED BY <1>0, <1>4, <2>1, AbortMoves, AbortKeepsWord DEF WordInv
<1> SUFFICES ASSUME Up PROVE WordInv'
    BY <1>4 DEF Verify
<1>1. /\ pc' = "idle" /\ cmd' = NoCommand
      /\ \/ Activating /\ reply'.kind \in {"active", "unknown"} /\ reply'.cmd = cmd
            /\ ready' = [b \in Builds |-> IF b \in Retained THEN ready[b] ELSE 0]
         \/ ~Activating /\ reply'.kind \in {"rolled", "unknown"} /\ reply'.cmd = cmd
            /\ UNCHANGED ready
    BY DEF Verify, End
<1>2. ready' \in [Builds -> Nat] /\ ready'[cmd.release] > 0
    <2>1. cmd.release \in Retained /\ ready[cmd.release] > 0
        BY <1>0 DEF Retained, Ready
    <2>2. CASE UNCHANGED ready
        BY <1>0, <2>1, <2>2
    <2>3. CASE ready' = [b \in Builds |-> IF b \in Retained THEN ready[b] ELSE 0]
        BY <1>0, <2>1, <2>3
    <2> QED BY <1>1, <2>2, <2>3
<1>3. Types' /\ cmd'.was = None
    BY <1>0, <1>1, <1>2, NoCommandIs DEF WordInv, Types
<1>5. Linked'
    BY <1>0, <1>2, <1>3 DEF Linked, Exists, IsReady, Ready
<1>6. Onward' /\ Activated' /\ Backward'
    BY <1>1, NoCommandIs DEF Onward, Activated, Backward
<1>7. /\ current' = cmd.release /\ IsReady(cmd.release)
      /\ \A u \in ServiceUnits :
            /\ unit'[u] = IF u \in Shipped(cmd.release) THEN cmd.release ELSE None
            /\ running'[u] = unit'[u]
    BY <1>0 DEF WordInv, Onward, AllPlaced, Fits, IsReady
<1>8. ASSUME NEW c, c = cmd.release PROVE Serves(c)'
    BY <1>0, <1>2, <1>7, <1>8 DEF Serves, Exists, IsReady, Ready, Shipped
<1>9. CommandsKeepTheirWord'
    <2>1. reply'.cmd = cmd
        BY <1>1
    <2>2. Serves(reply.cmd.release)'
        BY <2>1, <1>8
    <2>3. Activating => /\ ServiceUnits \subseteq enabled' /\ schema' = Revision[cmd.release]
                        /\ envs' = "known" /\ (cmd.backup => Last(backups') = cmd.before)
        BY <1>0 DEF WordInv, Activated
    <2>4. reply'.kind # "restored" /\ (reply'.kind = "active" => Activating)
        BY <1>1
    <2> QED BY <2>1, <2>2, <2>3, <2>4 DEF CommandsKeepTheirWord
<1> QED BY <1>1, <1>3, <1>5, <1>6, <1>9 DEF WordInv, Answered

LEMMA RelinkWord ==
    ASSUME WordInv, Relink
    PROVE  WordInv'
<1>0. /\ pc = "relink"
      /\ current' = IF Restorable THEN cmd.was ELSE current
      /\ Step(IF Restorable /\ cmd.was # Self THEN "reunit" ELSE "restart")
      /\ UNCHANGED <<legacy, ready, unit, running, schema, backups, given>>
      /\ cmd.was \in Links /\ current \in Links
    BY DEF Relink, WordInv, Types, Commands
<1>1. /\ cmd.was = None => ~Restorable
      /\ cmd.was \notin {None, Self} => Restorable
    BY UnitFacts DEF WordInv, Linked, Restorable, Exists, IsReady, Ready
<1>2. HostTyped' /\ (current' \in {None, Self} \/ Exists(current'))
    BY <1>0, <1>1 DEF WordInv, Types, HostTyped, Linked, Exists, IsReady, Ready
<1>3. CASE cmd.was \notin {None, Self}
    <2>1. Steps("reunit") /\ current' = cmd.was
        BY <1>0, <1>1, <1>3, StepMoves DEF WordInv
    <2>2. /\ Types' /\ Linked' /\ Answered'
          /\ (Activating <=> Activating') /\ cmd'.release = cmd.release
        BY <1>0, <1>2, <2>1, StepsKeep
    <2>3. pc' = "reunit" /\ cmd'.was = cmd.was /\ cmd'.at = 1
        BY <2>1 DEF Steps, CmdKept
    <2>4. \A i \in 1 .. Len(Service) : ~(i < 1)
        BY UnitFacts
    <2>5. Onward' /\ Activated' /\ Backward'
        BY <1>3, <2>1, <2>3, <2>4 DEF Onward, Activated, Backward, Placed
    <2> QED BY <2>2, <2>5 DEF WordInv
<1>4. CASE cmd.was \in {None, Self}
    <2>1. Steps("restart")
        BY <1>0, <1>1, <1>4, StepMoves DEF WordInv
    <2>2. /\ Types' /\ Linked' /\ Answered'
          /\ (Activating <=> Activating') /\ cmd'.release = cmd.release
        BY <1>0, <1>2, <2>1, StepsKeep
    <2>3. pc' = "restart" /\ cmd'.was = cmd.was
        BY <2>1 DEF Steps, CmdKept
    <2>4. Onward' /\ Activated' /\ Backward'
        BY <1>4, <2>3 DEF Onward, Activated, Backward
    <2> QED BY <2>2, <2>4 DEF WordInv
<1> QED BY <1>3, <1>4

LEMMA ReunitWord ==
    ASSUME WordInv, Reunit
    PROVE  WordInv'
<1>0. /\ pc = "reunit" /\ cmd.at # 0 /\ Put(cmd.was) /\ Advance("restart")
      /\ UNCHANGED <<legacy, ready, current, schema, backups, given>>
      /\ current' \in {None, Self} \/ Exists(current')
      /\ cmd.was \in Targets /\ cmd.was \notin {None, Self} /\ current = cmd.was
      /\ Placed(cmd.was, cmd.at)
    BY DEF Reunit, WordInv, Types, Commands, Links, Linked, Backward
<1>1. /\ unit' \in [Units -> Targets] /\ running' \in [Units -> Targets]
      /\ \A i \in 1 .. Len(Service) : i < cmd.at + 1 =>
            unit'[Service[i]] = IF Service[i] \in Shipped(cmd.was) THEN cmd.was ELSE None
    BY <1>0, PutPlaces DEF WordInv
<1>2. HostTyped'
    BY <1>0, <1>1 DEF WordInv, Types, HostTyped
<1>3. CASE Stays /\ cmd'.at = cmd.at + 1
    <2>1. /\ pc' = "reunit" /\ cmd' \in Commands /\ cmd'.was = cmd.was /\ reply' = reply
        BY <1>0, <1>3 DEF Stays, CmdKept
    <2>2. cmd'.at # 0
        BY <1>0, <1>3 DEF WordInv, Types, Commands
    <2>3. Types' /\ Linked'
        BY <1>0, <1>2, <2>1, <2>2
        DEF HostTyped, WordInv, Types, Linked, Exists, IsReady, Ready
    <2>4. Answered'
        BY <1>0, <2>1, OnTheWay
    <2>5. Placed(cmd.was, cmd.at)'
        BY <1>0, <1>1, <1>3, <2>1 DEF Placed, Fits, Shipped
    <2>6. Onward' /\ Activated' /\ Backward'
        BY <1>0, <2>1, <2>5 DEF Onward, Activated, Backward
    <2> QED BY <2>3, <2>4, <2>6 DEF WordInv
<1>4. CASE cmd.at = Len(Service) /\ Steps("restart")
    <2>1. Types' /\ Linked' /\ Answered'
        BY <1>0, <1>2, <1>4, StepsKeep
    <2>2. pc' = "restart" /\ cmd'.was = cmd.was
        BY <1>4 DEF Steps, CmdKept
    <2>3. \A u \in ServiceUnits : unit'[u] = IF u \in Shipped(cmd.was) THEN cmd.was ELSE None
        BY <1>1, <1>4, AllNumbersPlaced
    <2>4. AllPlaced(cmd.was)'
        BY <1>0, <2>2, <2>3 DEF AllPlaced, Fits, Shipped
    <2>5. Onward' /\ Activated' /\ Backward'
        BY <1>0, <2>2, <2>4 DEF Onward, Activated, Backward
    <2> QED BY <2>1, <2>5 DEF WordInv
<1> QED BY <1>0, <1>3, <1>4, AdvanceMoves DEF WordInv

LEMMA RestartWord ==
    ASSUME WordInv, Restart
    PROVE  WordInv'
<1>0. /\ pc = "restart"
      /\ UNCHANGED <<legacy, ready, current, unit, schema, backups, given>>
      /\ current' \in {None, Self} \/ Exists(current')
    BY DEF Restart, WordInv, Linked
<1>1. CASE Abort /\ UNCHANGED running
    <2>1. HostTyped'
        BY <1>0, <1>1 DEF WordInv, Types, HostTyped
    <2> QED BY <1>0, <1>1, <2>1, AbortMoves, AbortKeepsWord DEF WordInv
<1>2. CASE /\ running' = [u \in Units |-> IF u \in ServiceUnits THEN Code(u) ELSE running[u]]
           /\ Step("recheck")
    <2>1. running' \in [Units -> Targets]
        BY <1>2, CodeTyped DEF WordInv, Types
    <2>2. HostTyped' /\ Steps("recheck")
        BY <1>0, <1>2, <2>1, StepMoves DEF WordInv, Types, HostTyped
    <2>3. Types' /\ Linked' /\ Answered'
        BY <1>0, <2>2, StepsKeep
    <2>4. pc' = "recheck" /\ cmd'.was = cmd.was
        BY <2>2 DEF Steps, CmdKept
    <2>5. ASSUME cmd.was \notin {None, Self} PROVE Serves(cmd.was)'
        <3>1. current = cmd.was /\ AllPlaced(cmd.was) /\ Exists(cmd.was)
            BY <1>0, <2>5 DEF WordInv, Backward, Linked
        <3>2. \A u \in ServiceUnits : running'[u] = unit[u]
            BY <1>2, <2>5, <3>1, RestartRuns DEF WordInv
        <3> QED BY <1>0, <2>4, <3>1, <3>2
                DEF Serves, AllPlaced, Fits, Exists, IsReady, Ready, Shipped
    <2>6. Onward' /\ Activated' /\ Backward'
        BY <2>4, <2>5 DEF Onward, Activated, Backward
    <2> QED BY <2>3, <2>6 DEF WordInv
<1> QED BY <1>1, <1>2 DEF Restart, RestartAll

LEMMA RecheckWord ==
    ASSUME WordInv, Recheck
    PROVE  WordInv'
<1>0. /\ pc = "recheck"
      /\ UNCHANGED <<legacy, ready, current, unit, running, enabled, envs, schema, backups, given>>
    BY DEF Recheck, host
<1>7. CASE Abort
    <2>1. HostTyped'
        BY <1>0 DEF WordInv, Types, HostTyped
    <2> QED BY <1>0, <1>7, <2>1, AbortMoves, AbortKeepsWord DEF WordInv
<1>8. SUFFICES ASSUME End("restored") PROVE WordInv'
    BY <1>7 DEF Recheck
<1>9. /\ pc' = "idle" /\ cmd' = NoCommand
      /\ reply'.kind \in {"restored", "unknown"} /\ reply'.cmd = cmd
    BY <1>8 DEF End
<1>1. Types' /\ cmd'.was = None
    BY <1>0, <1>9, NoCommandIs DEF WordInv, Types
<1>2. Linked'
    BY <1>0, <1>1 DEF WordInv, Linked, Exists, IsReady, Ready
<1>3. Onward' /\ Activated' /\ Backward'
    BY <1>9 DEF Onward, Activated, Backward
<1>4. cmd.was \notin {None, Self} => Serves(cmd.was)
    BY <1>0 DEF WordInv, Backward
<1>5. ASSUME NEW c, c = cmd.was, c \notin {None, Self} PROVE Serves(c)'
    BY <1>0, <1>4, <1>5 DEF Serves, Exists, IsReady, Ready, Shipped
<1>6. CommandsKeepTheirWord'
    BY <1>5, <1>9 DEF CommandsKeepTheirWord
<1> QED BY <1>1, <1>2, <1>3, <1>6, <1>9 DEF WordInv, Answered

LEMMA FailWord ==
    ASSUME WordInv, Fail
    PROVE  WordInv'
<1>1. /\ pc # "idle" /\ Abort
      /\ UNCHANGED <<legacy, ready, current, unit, running, schema, backups, given>>
    BY DEF Fail, host
<1>2. HostTyped'
    BY <1>1 DEF WordInv, Types, HostTyped
<1> QED BY <1>1, <1>2, AbortMoves, AbortKeepsWord DEF WordInv

LEMMA DropWord ==
    ASSUME WordInv, Drop
    PROVE  WordInv'
<1>0. /\ pc # "idle" /\ cmd' = [cmd EXCEPT !.line = FALSE] /\ cmd \in Commands
      /\ UNCHANGED <<legacy, ready, current, unit, running, enabled, envs, schema, backups>>
      /\ UNCHANGED <<pc, reply, given>>
    BY DEF Drop, host, WordInv, Types
<1>1. cmd' \in Commands /\ CmdKept /\ cmd'.at = cmd.at
    BY <1>0 DEF Commands, CmdKept
<1>2. Types' /\ Linked'
    BY <1>0, <1>1 DEF WordInv, Types, Linked, Exists, IsReady, Ready, CmdKept
<1>3. Answered'
    BY <1>0, OnTheWay
<1>4. Onward' /\ (Activating => Activated')
    BY <1>0, <1>1
    DEF WordInv, Onward, Activated, Placed, AllPlaced, Fits, Shipped, Ready, CmdKept, Activating
<1>5. Backward'
    BY <1>0, <1>1
    DEF WordInv, Backward, Placed, AllPlaced, Fits, Shipped, Ready, CmdKept, Serves, Exists, IsReady
<1> QED BY <1>1, <1>2, <1>3, <1>4, <1>5 DEF WordInv, Activating, CmdKept

LEMMA RebootWord ==
    ASSUME WordInv, Reboot
    PROVE  WordInv'
<1>0. /\ pc' = "idle" /\ cmd' = NoCommand
      /\ running' = [u \in Units |-> IF u \in enabled THEN Code(u) ELSE None]
      /\ reply' = IF reply.kind = "active" THEN reply ELSE NoReply
      /\ UNCHANGED <<legacy, ready, current, unit, enabled, envs, schema, backups, given>>
    BY DEF Reboot
<1>1. running' \in [Units -> Targets]
    <2>1. None \in Targets
        BY DEF Targets
    <2> QED BY <1>0, <2>1, CodeTyped DEF WordInv
<1>2. Types' /\ cmd'.was = None
    BY <1>0, <1>1, NoCommandIs DEF WordInv, Types
<1>3. Linked'
    BY <1>0, <1>2 DEF WordInv, Linked, Exists, IsReady, Ready
<1>4. Onward' /\ Activated' /\ Backward'
    BY <1>0 DEF Onward, Activated, Backward
<1>5. CommandsKeepTheirWord'
    <2>1. CASE reply.kind # "active"
        BY <1>0, <2>1, QuietAnswer, NoCommandIs
    <2>2. CASE reply.kind = "active"
        <3> DEFINE c == reply.cmd
        <3>1. /\ Serves(c.release) /\ ServiceUnits \subseteq enabled
              /\ schema = Revision[c.release] /\ envs = "known"
              /\ (c.backup => Last(backups) = c.before) /\ reply' = reply
            BY <1>0, <2>2 DEF WordInv, Answered, CommandsKeepTheirWord
        <3>2. current = c.release /\ current # Self
            BY <3>1, UnitFacts DEF Serves, Exists, IsReady, Ready
        <3>5. \A u \in ServiceUnits : Code(u) = unit[u]
            BY <3>1, <3>2, PlacedCode DEF Serves, Fits
        <3>3. \A u \in ServiceUnits : running'[u] = unit[u]
            BY <1>0, <3>1, <3>5, UnitFacts
        <3>4. Serves(reply.cmd.release)'
            BY <1>0, <3>1, <3>3 DEF Serves, Exists, IsReady, Ready, Shipped
        <3> QED BY <1>0, <2>2, <3>1, <3>4 DEF CommandsKeepTheirWord
    <2> QED BY <2>1, <2>2
<1> QED BY <1>0, <1>2, <1>3, <1>4, <1>5 DEF WordInv, Answered

\* What goes on around the commands is nothing to them.
LEMMA QuietWord ==
    ASSUME WordInv,
           UNCHANGED <<legacy, ready, current, unit, running, enabled, envs, schema, backups>>,
           UNCHANGED <<cmd, pc, reply, given>>
    PROVE  WordInv'
<1>1. Types' /\ Linked'
    BY DEF WordInv, Types, Linked, Exists, IsReady, Ready
<1>2. Onward' /\ (Activating => Activated')
    BY DEF WordInv, Onward, Activated, Placed, AllPlaced, Fits, Shipped, Ready, Activating
<1>3. Backward'
    BY DEF WordInv, Backward, Placed, AllPlaced, Fits, Shipped, Ready, Serves, Exists, IsReady
<1>4. Answered'
    BY DEF WordInv, Answered, CommandsKeepTheirWord, Serves, Exists, IsReady, Ready, Shipped
<1> QED BY <1>1, <1>2, <1>3, <1>4 DEF WordInv, Activating

LEMMA NextWord ==
    ASSUME WordInv, [Next]_vars
    PROVE  WordInv'
<1>1. CASE UNCHANGED vars
    BY <1>1, QuietWord DEF vars, host
<1>2. CASE LegacyWrites
    BY <1>2, QuietWord DEF LegacyWrites
<1>3. CASE Configure
    BY <1>3, QuietWord DEF Configure
<1> QED BY <1>1, <1>2, <1>3, CommandWord, PrepareWord, StageWord, LookWord, CheckWord,
       StopWord, ImportWord, BackupWord, RetireWord, MigrateWord, EnsureTokensWord,
       PickWord, InstallWord, SwitchWord, StartWord, VerifyWord, RelinkWord, ReunitWord,
       RestartWord, RecheckWord, FailWord, DropWord, RebootWord DEF Next

\* However the steps of a command fail, its connection drops or the host restarts,
\* what deploy.py reports of an activation, a rollback or a restoration is what the
\* host does.
THEOREM AnswersAreTrue == Spec => []CommandsKeepTheirWord
<1>1. WordInv => CommandsKeepTheirWord
    BY DEF WordInv, Answered
<1> QED BY <1>1, InitWord, NextWord, PTL DEF Spec

-----------------------------------------------------------------------------
(***************************************************************************)
(* What the data and the schema have to do with the code that runs.        *)
(***************************************************************************)
\* Without an installation before releases nothing of it is anywhere.
LegacyOnly ==
    ~legacy =>
        /\ ~ahead /\ current # Legacy /\ cmd.was # Legacy
        /\ \A u \in Units : unit[u] # Legacy /\ running[u] # Legacy

\* The retired units never run a release.
RetiredOnly == \A u \in Retired : unit[u] \notin Builds /\ running[u] \notin Builds

\* Once the link names a release, all that the legacy installation wrote is in the
\* shared directories, and it cannot come back.
Adopted ==
    current \in Builds =>
        /\ ~ahead /\ schema >= Revision[current] /\ enabled \cap Retired = {}
        /\ \A u \in Units : running[u] # Legacy
        /\ \A u \in ServiceUnits : unit[u] # Legacy

\* A release and the legacy installation do not run beside each other.
Apart ==
    \A u \in Units : running[u] \in Builds =>
        /\ ~ahead /\ schema >= Revision[running[u]]
        /\ \A v \in Units : running[v] # Legacy

\* A validated release was adopted, and so was what a restoration goes back to.
Validated ==
    /\ proven \subseteq Builds /\ \A b \in proven : schema >= Revision[b]
    /\ proven # {} => current \in Builds
    /\ proven # {} /\ cmd.was # None => cmd.was \in Builds
    /\ cmd.was \in Builds => current \in Builds /\ schema >= Revision[cmd.was]

\* An adoption under way.
Adopting ==
    /\ pc \in {"stage", "check", "stop", "backup", "retire", "migrate", "token"} => Activating
    /\ Activating /\ pc \in {"stage", "look", "check", "stop"} =>
          (legacy => current \notin {None, Self})
    /\ Activating /\ pc \in {"backup", "retire", "migrate", "token", "unit", "switch"} =>
          ~ahead /\ \A u \in Units : running[u] = None
    /\ Activating /\ pc \in {"migrate", "token", "unit", "switch"} => enabled \cap Retired = {}
    /\ ~Activating /\ pc \in {"unit", "switch"} => cmd.release \in proven

LeftData == LegacyOnly /\ RetiredOnly /\ (~strayed => Adopted /\ Apart /\ Validated)
LeftInv == LeftData /\ (~strayed => Adopting)

LEMMA InitLeft ==
    ASSUME Init
    PROVE  LeftInv
<1>1. /\ legacy \in BOOLEAN /\ current = None /\ running = unit /\ ahead = legacy
      /\ unit = [u \in Units |-> IF legacy /\ u \in LegacyUnits THEN Legacy ELSE None]
      /\ cmd = NoCommand /\ cmd.was = None /\ pc = "idle" /\ proven = {}
    BY NoCommandIs DEF Init
<1>2. LegacyOnly /\ RetiredOnly
    BY <1>1, UnitFacts DEF LegacyOnly, RetiredOnly, Retired, Units
<1>3. Adopted /\ Apart /\ Validated /\ Adopting
    BY <1>1, UnitFacts DEF Adopted, Apart, Validated, Adopting
<1> QED BY <1>2, <1>3 DEF LeftInv, LeftData

\* A step that stops units, copies or migrates data or disables units takes nothing
\* of this away.
Eases ==
    /\ UNCHANGED <<legacy, current, unit, proven>> /\ (strayed => strayed')
    /\ \A u \in Units : running'[u] \in {running[u], None}
    /\ (ahead' => ahead) /\ schema' >= schema /\ enabled' \subseteq enabled
    /\ cmd'.was \in {cmd.was, None}

LEMMA EasesKeeps ==
    ASSUME WordInv, LeftData, Eases, schema' \in Nat
    PROVE  LeftData'
<1>0. schema \in Nat /\ \A b \in Builds : Revision[b] \in Nat
    BY DeploymentAssumption DEF WordInv, Types
<1>1. LegacyOnly'
    BY UnitFacts DEF Eases, LeftData, LegacyOnly
<1>2. RetiredOnly'
    BY UnitFacts DEF Eases, LeftData, RetiredOnly, Retired, Units
<1>3. ASSUME ~strayed' PROVE Adopted' /\ Apart' /\ Validated'
    <2>1. Adopted /\ Apart /\ Validated
        BY <1>3 DEF Eases, LeftData
    <2>2. Adopted'
        BY <1>0, <2>1, UnitFacts DEF Eases, Adopted
    <2>3. Apart'
        <3> SUFFICES ASSUME NEW u \in Units, running'[u] \in Builds
                     PROVE  /\ ~ahead' /\ schema' >= Revision[running'[u]]
                            /\ \A v \in Units : running'[v] # Legacy
            BY DEF Apart
        <3>1. running'[u] = running[u]
            BY UnitFacts DEF Eases
        <3>2. /\ ~ahead /\ schema >= Revision[running[u]]
              /\ \A v \in Units : running[v] # Legacy
            BY <2>1, <3>1 DEF Apart
        <3>3. schema' >= Revision[running'[u]]
            BY <1>0, <3>1, <3>2 DEF Eases
        <3> QED BY <3>2, <3>3, UnitFacts DEF Eases
    <2>4. Validated'
        <3>1. proven \subseteq Builds /\ \A b \in proven : schema >= Revision[b]
            BY <2>1 DEF Validated
        <3>2. \A b \in proven : schema' >= Revision[b]
            BY <1>0, <3>1 DEF Eases
        <3>3. cmd'.was \in Builds => cmd'.was = cmd.was
            BY UnitFacts DEF Eases
        <3>4. cmd'.was \in Builds => current \in Builds /\ schema' >= Revision[cmd'.was]
            BY <1>0, <2>1, <3>3 DEF Eases, Validated
        <3> QED BY <2>1, <3>2, <3>4 DEF Eases, Validated
    <2> QED BY <2>2, <2>3, <2>4
<1> QED BY <1>1, <1>2, <1>3 DEF LeftData

\* The common case: the data, the link, the units and what runs stay as they are.
LEMMA SameData ==
    ASSUME WordInv, LeftData, cmd'.was \in {cmd.was, None}, strayed => strayed',
           UNCHANGED <<legacy, current, unit, running, proven, ahead, schema, enabled>>
    PROVE  LeftData'
<1>1. schema \in Nat
    BY DEF WordInv, Types
<1> QED BY <1>1, EasesKeeps DEF Eases

\* A command that ends, turns back or has switched is no longer on its way to an
\* adoption.
LEMMA EndsLeft ==
    ASSUME LeftData',
           pc' \in {"idle", "start", "verify", "relink", "reunit", "restart", "recheck"}
    PROVE  LeftInv'
BY DEF LeftInv, Adopting

LEMMA AbortsLeft ==
    ASSUME WordInv, LeftInv, Abort, UNCHANGED strayed,
           UNCHANGED <<legacy, current, unit, running, proven, ahead, schema, enabled>>
    PROVE  LeftInv'
<1>1. Aborts
    BY AbortMoves DEF WordInv
<1>2. pc' \in {"idle", "relink"} /\ cmd'.was \in {cmd.was, None}
    BY <1>1, NoCommandIs DEF Aborts, Ends, Steps, CmdKept
<1> QED BY <1>2, SameData, EndsLeft DEF LeftInv

LEMMA StepOn ==
    ASSUME WordInv, NEW next, Step(next)
    PROVE  /\ pc' = next /\ cmd'.was = cmd.was /\ cmd'.release = cmd.release
           /\ (Activating' <=> Activating)
BY StepMoves DEF WordInv, Steps, CmdKept, Activating

LEMMA CommandLeft ==
    ASSUME WordInv, LeftInv, Command
    PROVE  LeftInv'
<1>1. UNCHANGED <<legacy, current, unit, running, proven, ahead, schema, enabled, strayed>>
    BY DEF Command, host
<1>2. cmd'.was = None /\ (pc' = "prepare" \/ (pc' = "look" /\ cmd'.verb = "rollback"))
    BY CommandStarts
<1>3. LeftData'
    BY <1>1, <1>2, SameData DEF LeftInv
<1>4. Adopting'
    BY <1>2 DEF Adopting, Activating
<1> QED BY <1>3, <1>4 DEF LeftInv

LEMMA PrepareLeft ==
    ASSUME WordInv, LeftInv, Prepare
    PROVE  LeftInv'
<1>0. /\ pc = "prepare"
      /\ UNCHANGED <<legacy, unit, running, proven, ahead, schema, enabled, strayed>>
    BY DEF Prepare
<1>1. CASE Abort /\ UNCHANGED current
    BY <1>0, <1>1, AbortsLeft
<1>2. CASE /\ current' = IF current = None /\ legacy THEN Legacy ELSE current
           /\ Step(IF cmd.verb = "deploy" THEN "stage" ELSE "look")
           /\ ~(legacy /\ current = Self)
    <2>1. /\ cmd'.was = cmd.was /\ (Activating' <=> Activating)
          /\ pc' = IF cmd.verb = "deploy" THEN "stage" ELSE "look"
        BY <1>2, StepOn
    <2>2. LegacyOnly' /\ RetiredOnly'
        BY <1>0, <1>2, <2>1 DEF LeftInv, LeftData, LegacyOnly, RetiredOnly
    <2>3. ASSUME ~strayed' PROVE Adopted' /\ Apart' /\ Validated' /\ Adopting'
        <3>1. Adopted /\ Apart /\ Validated
            BY <1>0, <2>3 DEF LeftInv, LeftData
        <3>2. current' \in Builds => current' = current
            BY <1>2, UnitFacts
        <3>3. Adopted' /\ Apart'
            BY <1>0, <1>2, <3>1, <3>2 DEF Adopted, Apart
        <3>4. Validated'
            BY <1>0, <1>2, <2>1, <3>1, UnitFacts DEF Validated
        <3>5. Adopting'
            BY <1>0, <1>2, <2>1, UnitFacts DEF Adopting, Activating
        <3> QED BY <3>3, <3>4, <3>5
    <2> QED BY <2>2, <2>3 DEF LeftInv, LeftData
<1> QED BY <1>1, <1>2 DEF Prepare

LEMMA StageLeft ==
    ASSUME WordInv, LeftInv, Stage
    PROVE  LeftInv'
<1>0. pc = "stage" /\ UNCHANGED strayed
      /\ UNCHANGED <<legacy, current, unit, running, proven, ahead, schema, enabled>>
    BY DEF Stage
<1>1. CASE Abort
    BY <1>0, <1>1, AbortsLeft
<1>2. CASE End("prepared")
    BY <1>0, <1>2, NoCommandIs, SameData, EndsLeft DEF End, LeftInv
<1>3. CASE Step("look")
    <2>1. pc' = "look" /\ cmd'.was = cmd.was /\ (Activating' <=> Activating)
        BY <1>3, StepOn
    <2>2. LeftData'
        BY <1>0, <2>1, SameData DEF LeftInv
    <2>3. ~strayed' => Adopting'
        BY <1>0, <2>1 DEF LeftInv, Adopting
    <2> QED BY <2>2, <2>3 DEF LeftInv
<1> QED BY <1>1, <1>2, <1>3 DEF Stage

LEMMA LookLeft ==
    ASSUME WordInv, LeftInv, Look
    PROVE  LeftInv'
<1>0. /\ pc = "look" /\ cmd' = [cmd EXCEPT !.was = Found] /\ cmd \in Commands
      /\ pc' = IF cmd.verb = "rollback" THEN "pick" ELSE "check"
      /\ UNCHANGED <<legacy, current, unit, running, proven, ahead, schema, enabled, strayed>>
    BY DEF Look, host, WordInv, Types
<1>1. /\ cmd'.was = Found /\ cmd'.verb = cmd.verb
      /\ Found \notin {None, Self} => Found = current
      /\ Found = Legacy => current = Legacy
      /\ current \in Builds => Found = current
    BY <1>0, UnitFacts DEF Commands, Found
<1>2. LegacyOnly' /\ RetiredOnly'
    BY <1>0, <1>1 DEF LeftInv, LeftData, LegacyOnly, RetiredOnly
<1>3. ASSUME ~strayed' PROVE Adopted' /\ Apart' /\ Validated' /\ Adopting'
    <2>1. Adopted /\ Apart /\ Validated /\ Adopting
        BY <1>0, <1>3 DEF LeftInv, LeftData
    <2>2. Adopted' /\ Apart'
        BY <1>0, <2>1 DEF Adopted, Apart
    <2>3. Validated'
        BY <1>0, <1>1, <2>1, UnitFacts DEF Validated, Adopted
    <2>4. Adopting'
        BY <1>0, <1>1, <2>1 DEF Adopting, Activating
    <2> QED BY <2>2, <2>3, <2>4
<1> QED BY <1>2, <1>3 DEF LeftInv, LeftData

LEMMA CheckLeft ==
    ASSUME WordInv, LeftInv, Check
    PROVE  LeftInv'
<1>0. pc = "check" /\ UNCHANGED strayed
      /\ UNCHANGED <<legacy, current, unit, running, proven, ahead, schema, enabled>>
    BY DEF Check
<1>1. CASE Abort
    BY <1>0, <1>1, AbortsLeft
<1>2. CASE Step("stop")
    <2>1. pc' = "stop" /\ cmd'.was = cmd.was /\ (Activating' <=> Activating)
        BY <1>2, StepOn
    <2>2. LeftData'
        BY <1>0, <2>1, SameData DEF LeftInv
    <2>3. ~strayed' => Adopting'
        BY <1>0, <2>1 DEF LeftInv, Adopting
    <2> QED BY <2>2, <2>3 DEF LeftInv
<1> QED BY <1>1, <1>2 DEF Check

LEMMA StopLeft ==
    ASSUME WordInv, LeftInv, Stop
    PROVE  LeftInv'
<1>0. /\ pc = "stop" /\ UNCHANGED <<pc, cmd, strayed>>
      /\ UNCHANGED <<legacy, current, unit, proven, ahead, schema, enabled>>
      /\ schema \in Nat
    BY DEF Stop, WordInv, Types
<1>1. \A u \in Units : running'[u] \in {running[u], None}
    BY DEF Stop, WordInv, Types
<1>2. LeftData'
    BY <1>0, <1>1, EasesKeeps DEF Eases, LeftInv
<1>3. ~strayed' => Adopting'
    BY <1>0 DEF LeftInv, Adopting, Activating
<1> QED BY <1>2, <1>3 DEF LeftInv

\* The data are copied whenever anything the legacy installation wrote could still
\* be missing.
LEMMA ImportLeft ==
    ASSUME WordInv, LeftInv, Import
    PROVE  LeftInv'
<1>0. /\ pc = "stop" /\ \A u \in Units : running[u] = None
      /\ UNCHANGED <<legacy, current, unit, running, proven, schema, enabled, strayed>>
      /\ schema \in Nat /\ current \in Links /\ (ahead' = ahead \/ ~ahead')
      /\ (ImportDue => ~ahead')
    BY DEF Import, WordInv, Types
<1>1. pc' = "backup" /\ cmd'.was = cmd.was /\ (Activating' <=> Activating)
    BY StepOn DEF Import
<1>2. LeftData'
    BY <1>0, <1>1, EasesKeeps DEF Eases, LeftInv
<1>3. ASSUME ~strayed' PROVE Adopting'
    <2>1. Adopted /\ Adopting /\ LegacyOnly
        BY <1>0, <1>3 DEF LeftInv, LeftData
    <2>2. ~ahead'
        <3>1. CASE ~legacy
            BY <1>0, <2>1, <3>1 DEF LegacyOnly
        <3>2. CASE legacy /\ ~ImportDue
            <4>1. current \notin {None, Self} /\ current # Legacy
                BY <1>0, <2>1, <3>2 DEF Adopting, ImportDue
            <4>2. current \in Builds
                BY <1>0, <4>1 DEF Links, Targets
            <4> QED BY <1>0, <2>1, <4>2 DEF Adopted
        <3> QED BY <1>0, <3>1, <3>2
    <2> QED BY <1>0, <1>1, <2>1, <2>2 DEF Adopting
<1> QED BY <1>2, <1>3 DEF LeftInv

LEMMA BackupLeft ==
    ASSUME WordInv, LeftInv, Backup
    PROVE  LeftInv'
<1>0. pc = "backup" /\ UNCHANGED strayed
      /\ UNCHANGED <<legacy, current, unit, running, proven, ahead, schema, enabled>>
    BY DEF Backup
<1>1. pc' = "retire" /\ cmd'.was = cmd.was /\ (Activating' <=> Activating)
    BY StepOn DEF Backup
<1>2. LeftData'
    BY <1>0, <1>1, SameData DEF LeftInv
<1>3. ~strayed' => Adopting'
    BY <1>0, <1>1 DEF LeftInv, Adopting
<1> QED BY <1>2, <1>3 DEF LeftInv

LEMMA RetireLeft ==
    ASSUME WordInv, LeftInv, Retire
    PROVE  LeftInv'
<1>0. /\ pc = "retire" /\ enabled' = enabled \ Retired /\ schema \in Nat
      /\ UNCHANGED <<legacy, current, unit, running, proven, ahead, schema, strayed>>
    BY DEF Retire, WordInv, Types
<1>1. pc' = "migrate" /\ cmd'.was = cmd.was /\ (Activating' <=> Activating)
    BY StepOn DEF Retire
<1>2. LeftData'
    BY <1>0, <1>1, EasesKeeps DEF Eases, LeftInv
<1>3. ~strayed' => Adopting'
    BY <1>0, <1>1 DEF LeftInv, Adopting
<1> QED BY <1>2, <1>3 DEF LeftInv

LEMMA MigrateLeft ==
    ASSUME WordInv, LeftInv, Migrate
    PROVE  LeftInv'
<1>0. /\ pc = "migrate" /\ schema \in Nat /\ cmd \in Commands /\ cmd.release \in Builds
      /\ UNCHANGED <<legacy, current, unit, running, proven, ahead, enabled, strayed>>
    BY DEF Migrate, WordInv, Types, Onward, Ready
<1>1. CASE Abort /\ UNCHANGED schema
    BY <1>0, <1>1, AbortsLeft
<1>2. CASE /\ schema <= Revision[cmd.release] /\ schema' = Revision[cmd.release]
           /\ cmd' = [cmd EXCEPT !.before = schema] /\ pc' = "token"
    <2>1. cmd'.was = cmd.was /\ (Activating' <=> Activating)
        BY <1>0, <1>2 DEF Commands, Activating
    <2>2. schema' \in Nat /\ schema' >= schema
        BY <1>0, <1>2, DeploymentAssumption
    <2>3. LeftData'
        BY <1>0, <2>1, <2>2, EasesKeeps DEF Eases, LeftInv
    <2>4. ~strayed' => Adopting'
        BY <1>0, <1>2, <2>1 DEF LeftInv, Adopting
    <2> QED BY <2>3, <2>4 DEF LeftInv
<1> QED BY <1>1, <1>2 DEF Migrate

LEMMA EnsureTokensLeft ==
    ASSUME WordInv, LeftInv, EnsureTokens
    PROVE  LeftInv'
<1>0. pc = "token" /\ UNCHANGED strayed
      /\ UNCHANGED <<legacy, current, unit, running, proven, ahead, schema, enabled>>
    BY DEF EnsureTokens
<1>1. CASE Abort
    BY <1>0, <1>1, AbortsLeft
<1>2. CASE Step("unit")
    <2>1. pc' = "unit" /\ cmd'.was = cmd.was /\ (Activating' <=> Activating)
        BY <1>2, StepOn
    <2>2. LeftData'
        BY <1>0, <2>1, SameData DEF LeftInv
    <2>3. ~strayed' => Adopting'
        BY <1>0, <2>1 DEF LeftInv, Adopting
    <2> QED BY <2>2, <2>3 DEF LeftInv
<1> QED BY <1>1, <1>2 DEF EnsureTokens

LEMMA PickLeft ==
    ASSUME WordInv, LeftInv, Pick
    PROVE  LeftInv'
<1>0. /\ pc = "pick" /\ cmd \in Commands /\ ~Activating
      /\ UNCHANGED <<legacy, current, unit, running, proven, ahead, schema, enabled>>
    BY DEF Pick, WordInv, Types, Onward
<1>1. CASE Abort /\ UNCHANGED strayed
    BY <1>0, <1>1, AbortsLeft
<1>2. CASE /\ pc' = "unit"
           /\ \E b \in Picks : /\ cmd' = [cmd EXCEPT !.release = b, !.at = 1]
                               /\ strayed' = (strayed \/ b \notin proven)
    <2>1. PICK b \in Picks : /\ cmd' = [cmd EXCEPT !.release = b, !.at = 1]
                             /\ strayed' = (strayed \/ b \notin proven)
        BY <1>2
    <2>2. cmd'.was = cmd.was /\ cmd'.release = b /\ cmd'.verb = cmd.verb
        BY <1>0, <2>1 DEF Commands
    <2>3. LeftData'
        BY <1>0, <2>1, <2>2, SameData DEF LeftInv
    <2>4. ~strayed' => b \in proven
        BY <2>1
    <2>5. ~strayed' => Adopting'
        BY <1>0, <1>2, <2>2, <2>4 DEF Adopting, Activating
    <2> QED BY <2>3, <2>5 DEF LeftInv
<1> QED BY <1>1, <1>2 DEF Pick

\* Installing the unit of a target that may be installed.
LEMMA PutLeft ==
    ASSUME WordInv, LeftData, cmd.at # 0, cmd'.was = cmd.was,
           NEW t \in Targets, Put(t), Placed(t, cmd.at),
           t = Legacy => legacy /\ current \notin Builds,
           UNCHANGED <<legacy, current, proven, ahead, schema, enabled, strayed>>
    PROVE  LeftData'
<1>1. /\ \A u \in Units : running'[u] \in {running[u], None}
      /\ \A u \in Units \ ServiceUnits : unit'[u] = unit[u]
      /\ \A u \in Units : unit'[u] \in {unit[u], t, None}
    BY PutPlaces DEF WordInv
<1>2. LegacyOnly'
    BY <1>1, UnitFacts DEF LeftData, LegacyOnly
<1>3. RetiredOnly'
    BY <1>1, UnitFacts DEF LeftData, RetiredOnly, Retired, Units
<1>4. ASSUME ~strayed' PROVE Adopted' /\ Apart' /\ Validated'
    <2>1. Adopted /\ Apart /\ Validated
        BY <1>4 DEF LeftData
    <2>2. Adopted'
        BY <1>1, <2>1, UnitFacts DEF Adopted
    <2>3. Apart'
        <3> SUFFICES ASSUME NEW u \in Units, running'[u] \in Builds
                     PROVE  /\ ~ahead' /\ schema' >= Revision[running'[u]]
                            /\ \A v \in Units : running'[v] # Legacy
            BY DEF Apart
        <3>1. running'[u] = running[u]
            BY <1>1, UnitFacts
        <3> QED BY <1>1, <2>1, <3>1, UnitFacts DEF Apart
    <2>4. Validated'
        BY <2>1 DEF Validated
    <2> QED BY <2>2, <2>3, <2>4
<1> QED BY <1>2, <1>3, <1>4 DEF LeftData

LEMMA InstallLeft ==
    ASSUME WordInv, LeftInv, Install
    PROVE  LeftInv'
<1>0. /\ pc = "unit" /\ cmd.at # 0 /\ Placed(cmd.release, cmd.at)
      /\ cmd.release \in Builds /\ cmd.release \in Targets /\ cmd.release # Legacy
      /\ UNCHANGED <<legacy, current, proven, ahead, schema, enabled, strayed>>
    BY UnitFacts DEF Install, WordInv, Types, Onward, Ready, Targets
<1>1. CASE Abort /\ UNCHANGED <<unit, running>>
    BY <1>0, <1>1, AbortsLeft
<1>2. CASE Put(cmd.release) /\ Advance("switch")
    <2>1. /\ pc' \in {"unit", "switch"} /\ cmd'.was = cmd.was
          /\ cmd'.release = cmd.release /\ cmd'.verb = cmd.verb
        BY <1>0, <1>2, AdvanceMoves DEF WordInv, Stays, Steps, CmdKept
    <2>2. LeftData'
        BY <1>0, <1>2, <2>1, PutLeft DEF LeftInv
    <2>3. \A u \in Units : running'[u] \in {running[u], None}
        BY <1>0, <1>2, PutPlaces DEF WordInv
    <2>4. ~strayed' => Adopting'
        BY <1>0, <2>1, <2>3 DEF LeftInv, Adopting, Activating
    <2> QED BY <2>2, <2>4 DEF LeftInv
<1> QED BY <1>1, <1>2 DEF Install

\* Only what was adopted becomes the link's target.
LEMMA SwitchLeft ==
    ASSUME WordInv, LeftInv, Switch
    PROVE  LeftInv'
<1>0. /\ pc = "switch" /\ current' = cmd.release /\ cmd.release \in Builds
      /\ AllPlaced(cmd.release) /\ cmd.release # Legacy
      /\ enabled' = IF Activating THEN enabled \cup ServiceUnits ELSE enabled
      /\ UNCHANGED <<legacy, unit, running, proven, ahead, schema, strayed>>
    BY UnitFacts DEF Switch, WordInv, Onward, Ready
<1>1. pc' = "start" /\ cmd'.was = cmd.was
    BY StepOn DEF Switch
<1>2. LegacyOnly' /\ RetiredOnly'
    BY <1>0, <1>1 DEF LeftInv, LeftData, LegacyOnly, RetiredOnly
<1>3. ASSUME ~strayed' PROVE Adopted' /\ Apart' /\ Validated'
    <2>1. Adopted /\ Apart /\ Validated /\ Adopting
        BY <1>0, <1>3 DEF LeftInv, LeftData
    <2>2. \A u \in ServiceUnits : unit'[u] # Legacy
        BY <1>0, UnitFacts DEF AllPlaced, Fits
    <2>3. Adopted'
        <3>1. CASE Activating
            <4>1. schema = Revision[cmd.release] /\ schema \in Nat
                BY <1>0, <3>1 DEF WordInv, Activated, Types
            <4>2. /\ ~ahead /\ enabled \cap Retired = {}
                  /\ \A u \in Units : running[u] = None
                BY <1>0, <2>1, <3>1 DEF Adopting
            <4> QED BY <1>0, <2>2, <3>1, <4>1, <4>2, UnitFacts DEF Adopted
        <3>2. CASE ~Activating
            <4>1. cmd.release \in proven
                BY <1>0, <2>1, <3>2 DEF Adopting
            <4>2. current \in Builds /\ schema >= Revision[cmd.release]
                BY <2>1, <4>1 DEF Validated
            <4> QED BY <1>0, <2>1, <2>2, <3>2, <4>2 DEF Adopted
        <3> QED BY <3>1, <3>2
    <2>4. Apart'
        BY <1>0, <2>1 DEF Apart
    <2>5. Validated'
        BY <1>0, <1>1, <2>1 DEF Validated
    <2> QED BY <2>3, <2>4, <2>5
<1> QED BY <1>1, <1>2, <1>3, EndsLeft DEF LeftData

\* What a start brings to run is the link's target or the legacy installation, and
\* this one only as long as no release is linked.
LEMMA RunsLeft ==
    ASSUME WordInv, LeftData, cmd'.was \in {cmd.was, None},
           UNCHANGED <<legacy, current, unit, proven, ahead, schema, enabled, strayed>>,
           \A u \in Units : \/ running'[u] \in {running[u], None}
                            \/ running'[u] = Code(u) /\ (u \in ServiceUnits \/ u \in enabled),
           current \in Builds \/ \A u \in ServiceUnits : running'[u] \in {Code(u), None}
    PROVE  LeftData'
<1>0. /\ \A u \in Units : unit[u] \in Targets
      /\ \A u \in Units : Code(u) \in {None, Legacy, current}
      /\ \A u \in Units : Code(u) = Legacy => unit[u] = Legacy \/ current = Legacy
      /\ \A u \in Units : Code(u) \in Builds => unit[u] \in Builds /\ Code(u) = current
    BY UnitFacts DEF WordInv, Types, Links, Targets, Code
<1>1. LegacyOnly'
    BY <1>0, UnitFacts DEF LeftData, LegacyOnly
<1>2. RetiredOnly'
    BY <1>0, UnitFacts DEF LeftData, RetiredOnly, Retired, Units
<1>3. ASSUME ~strayed' PROVE Adopted' /\ Apart' /\ Validated'
    <2>1. Adopted /\ Apart /\ Validated
        BY <1>3 DEF LeftData
    <2>2. ASSUME current \in Builds PROVE \A u \in Units : running'[u] # Legacy
        <3> SUFFICES ASSUME NEW u \in Units PROVE running'[u] # Legacy
            OBVIOUS
        <3>1. CASE running'[u] \in {running[u], None}
            BY <2>1, <2>2, <3>1, UnitFacts DEF Adopted
        <3>2. CASE running'[u] = Code(u) /\ (u \in ServiceUnits \/ u \in enabled)
            <4>1. u \in ServiceUnits
                BY <2>1, <2>2, <3>2 DEF Adopted, Units, Retired
            <4> QED BY <1>0, <2>1, <2>2, <3>2, <4>1, UnitFacts DEF Adopted
        <3> QED BY <3>1, <3>2
    <2>3. Adopted'
        BY <2>1, <2>2 DEF Adopted
    <2>4. Apart'
        <3> SUFFICES ASSUME NEW u \in Units, running'[u] \in Builds
                     PROVE  /\ ~ahead' /\ schema' >= Revision[running'[u]]
                            /\ \A v \in Units : running'[v] # Legacy
            BY DEF Apart
        <3>1. u \in ServiceUnits
            BY <1>2 DEF RetiredOnly, Units, Retired
        <3>2. current \in Builds
            BY <1>0, <3>1, UnitFacts
        <3>3. running'[u] = running[u] \/ running'[u] = current
            BY <1>0, UnitFacts
        <3>4. ~ahead /\ schema >= Revision[current]
            BY <2>1, <3>2 DEF Adopted
        <3>5. running'[u] = running[u] => schema >= Revision[running[u]]
            BY <2>1 DEF Apart
        <3> QED BY <2>2, <3>2, <3>3, <3>4, <3>5
    <2>5. Validated'
        BY <2>1, UnitFacts DEF Validated
    <2> QED BY <2>3, <2>4, <2>5
<1> QED BY <1>1, <1>2, <1>3 DEF LeftData

LEMMA StartLeft ==
    ASSUME WordInv, LeftInv, Start
    PROVE  LeftInv'
<1>0. /\ pc = "start" /\ cmd.at # 0 /\ current \in Builds
      /\ running \in [Units -> Targets]
      /\ UNCHANGED <<legacy, current, unit, proven, ahead, schema, enabled, strayed>>
    BY DEF Start, WordInv, Types, Onward, Ready
<1>1. CASE Activating
    <2>1. running' = [running EXCEPT ![At] = Code(At)] /\ Advance("verify")
        BY <1>1 DEF Start
    <2>2. At \in ServiceUnits
        BY <1>0, UnitFacts DEF WordInv, Types, Commands, At
    <2>3. pc' \in {"start", "verify"} /\ cmd'.was = cmd.was
        BY <1>0, <2>1, AdvanceMoves DEF WordInv, Stays, Steps, CmdKept
    <2>4. \A u \in Units : \/ running'[u] \in {running[u], None}
                           \/ running'[u] = Code(u) /\ (u \in ServiceUnits \/ u \in enabled)
        BY <1>0, <2>1, <2>2
    <2>5. LeftData'
        BY <1>0, <2>3, <2>4, RunsLeft DEF LeftInv
    <2> QED BY <2>3, <2>5, EndsLeft
<1>2. CASE ~Activating /\ Abort /\ UNCHANGED running
    BY <1>0, <1>2, AbortsLeft
<1>3. CASE /\ ~Activating /\ Step("verify")
           /\ running' = [u \in Units |-> IF u \in ServiceUnits THEN Code(u) ELSE running[u]]
    <2>1. pc' = "verify" /\ cmd'.was = cmd.was
        BY <1>3, StepOn
    <2>2. \A u \in Units : \/ running'[u] \in {running[u], None}
                           \/ running'[u] = Code(u) /\ (u \in ServiceUnits \/ u \in enabled)
        BY <1>3
    <2>3. LeftData'
        BY <1>0, <2>1, <2>2, RunsLeft DEF LeftInv
    <2> QED BY <2>1, <2>3, EndsLeft
<1> QED BY <1>1, <1>2, <1>3 DEF Start, RestartAll

LEMMA VerifyLeft ==
    ASSUME WordInv, LeftInv, Verify
    PROVE  LeftInv'
<1>3. CASE ~Up
    <2>1. /\ Abort
          /\ UNCHANGED <<legacy, current, unit, running, proven, ahead, schema, enabled, strayed>>
        BY <1>3 DEF Verify
    <2> QED BY <2>1, AbortsLeft
<1> SUFFICES ASSUME Up PROVE LeftInv'
    BY <1>3
<1>0. /\ pc = "verify" /\ current = cmd.release /\ cmd.release \in Builds
      /\ proven' \in {proven, proven \cup {cmd.release}}
      /\ pc' = "idle" /\ cmd' = NoCommand /\ cmd'.was = None
      /\ UNCHANGED <<legacy, current, unit, running, ahead, schema, enabled, strayed>>
    BY NoCommandIs DEF Verify, End, WordInv, Onward, Ready
<1>1. LegacyOnly' /\ RetiredOnly'
    BY <1>0, UnitFacts DEF LeftInv, LeftData, LegacyOnly, RetiredOnly
<1>2. ASSUME ~strayed' PROVE Adopted' /\ Apart' /\ Validated'
    <2>1. Adopted /\ Apart /\ Validated
        BY <1>0, <1>2 DEF LeftInv, LeftData
    <2>2. Adopted' /\ Apart'
        BY <1>0, <2>1 DEF Adopted, Apart
    <2>3. Validated'
        BY <1>0, <2>1, UnitFacts DEF Validated, Adopted
    <2> QED BY <2>2, <2>3
<1> QED BY <1>0, <1>1, <1>2, EndsLeft DEF LeftData

LEMMA RelinkLeft ==
    ASSUME WordInv, LeftInv, Relink
    PROVE  LeftInv'
<1>0. /\ current' = IF Restorable THEN cmd.was ELSE current
      /\ UNCHANGED <<legacy, unit, running, proven, ahead, schema, enabled, strayed>>
      /\ (cmd.was = None => ~Restorable)
    BY UnitFacts DEF Relink, Restorable, Exists, IsReady, Ready
<1>1. pc' \in {"reunit", "restart"} /\ cmd'.was = cmd.was
    BY StepOn DEF Relink
<1>2. LegacyOnly' /\ RetiredOnly'
    BY <1>0, <1>1 DEF LeftInv, LeftData, LegacyOnly, RetiredOnly
<1>3. ASSUME ~strayed' PROVE Adopted' /\ Apart' /\ Validated'
    <2>1. Adopted /\ Apart /\ Validated
        BY <1>0, <1>3 DEF LeftInv, LeftData
    <2>2. current' \in Builds => current \in Builds /\ schema >= Revision[current']
        BY <1>0, <2>1 DEF Adopted, Validated
    <2>3. Adopted' /\ Apart'
        BY <1>0, <2>1, <2>2 DEF Adopted, Apart
    <2>4. Validated'
        BY <1>0, <1>1, <2>1, UnitFacts DEF Validated
    <2> QED BY <2>3, <2>4
<1> QED BY <1>1, <1>2, <1>3, EndsLeft DEF LeftData

LEMMA ReunitLeft ==
    ASSUME WordInv, LeftInv, Reunit
    PROVE  LeftInv'
<1>0. /\ cmd.at # 0 /\ Placed(cmd.was, cmd.at) /\ cmd.was \in Targets
      /\ current = cmd.was /\ Put(cmd.was) /\ Advance("restart") /\ pc = "reunit"
      /\ UNCHANGED <<legacy, current, proven, ahead, schema, enabled, strayed>>
    BY DEF Reunit, WordInv, Types, Commands, Links, Backward
<1>1. pc' \in {"reunit", "restart"} /\ cmd'.was = cmd.was
    BY <1>0, AdvanceMoves DEF WordInv, Stays, Steps, CmdKept
<1>2. cmd.was = Legacy => legacy /\ current \notin Builds
    BY <1>0, UnitFacts DEF LeftInv, LeftData, LegacyOnly
<1>3. LeftData'
    BY <1>0, <1>1, <1>2, PutLeft DEF LeftInv
<1> QED BY <1>1, <1>3, EndsLeft

LEMMA RestartLeft ==
    ASSUME WordInv, LeftInv, Restart
    PROVE  LeftInv'
<1>0. UNCHANGED <<legacy, current, unit, proven, ahead, schema, enabled, strayed>>
    BY DEF Restart
<1>1. CASE Abort /\ UNCHANGED running
    BY <1>0, <1>1, AbortsLeft
<1>2. CASE /\ running' = [u \in Units |-> IF u \in ServiceUnits THEN Code(u) ELSE running[u]]
           /\ Step("recheck")
    <2>1. pc' = "recheck" /\ cmd'.was = cmd.was
        BY <1>2, StepOn
    <2>2. /\ \A u \in Units : \/ running'[u] \in {running[u], None}
                              \/ running'[u] = Code(u) /\ (u \in ServiceUnits \/ u \in enabled)
          /\ \A u \in ServiceUnits : running'[u] \in {Code(u), None}
        BY <1>2, UnitFacts
    <2>3. LeftData'
        BY <1>0, <2>1, <2>2, RunsLeft DEF LeftInv
    <2> QED BY <2>1, <2>3, EndsLeft
<1> QED BY <1>1, <1>2 DEF Restart, RestartAll

LEMMA RecheckLeft ==
    ASSUME WordInv, LeftInv, Recheck
    PROVE  LeftInv'
<1>0. UNCHANGED <<legacy, current, unit, running, proven, ahead, schema, enabled, strayed>>
    BY DEF Recheck, host
<1>1. CASE Abort
    BY <1>0, <1>1, AbortsLeft
<1>2. CASE End("restored")
    <2>1. pc' = "idle" /\ cmd'.was = None
        BY <1>2, NoCommandIs DEF End
    <2> QED BY <1>0, <2>1, SameData, EndsLeft DEF LeftInv
<1> QED BY <1>1, <1>2 DEF Recheck

LEMMA FailLeft ==
    ASSUME WordInv, LeftInv, Fail
    PROVE  LeftInv'
BY AbortsLeft DEF Fail, host

LEMMA DropLeft ==
    ASSUME WordInv, LeftInv, Drop
    PROVE  LeftInv'
<1>0. /\ cmd' = [cmd EXCEPT !.line = FALSE] /\ cmd \in Commands
      /\ UNCHANGED <<legacy, current, unit, running, proven, ahead, schema, enabled, strayed>>
      /\ UNCHANGED pc
    BY DEF Drop, host, WordInv, Types
<1>1. cmd'.was = cmd.was /\ cmd'.verb = cmd.verb /\ cmd'.release = cmd.release
    BY <1>0 DEF Commands
<1>2. LeftData'
    BY <1>0, <1>1, SameData DEF LeftInv
<1>3. ~strayed' => Adopting'
    BY <1>0, <1>1 DEF LeftInv, Adopting, Activating
<1> QED BY <1>2, <1>3 DEF LeftInv

LEMMA RebootLeft ==
    ASSUME WordInv, LeftInv, Reboot
    PROVE  LeftInv'
<1>0. /\ pc' = "idle" /\ cmd' = NoCommand /\ cmd'.was = None
      /\ running' = [u \in Units |-> IF u \in enabled THEN Code(u) ELSE None]
      /\ UNCHANGED <<legacy, current, unit, proven, ahead, schema, enabled, strayed>>
    BY NoCommandIs DEF Reboot
<1>1. /\ \A u \in Units : \/ running'[u] \in {running[u], None}
                          \/ running'[u] = Code(u) /\ (u \in ServiceUnits \/ u \in enabled)
      /\ \A u \in ServiceUnits : running'[u] \in {Code(u), None}
    BY <1>0, UnitFacts
<1>2. LeftData'
    BY <1>0, <1>1, RunsLeft DEF LeftInv
<1> QED BY <1>0, <1>2, EndsLeft

\* The legacy installation writes only where no release was adopted.
LEMMA LegacyWritesLeft ==
    ASSUME WordInv, LeftInv, LegacyWrites
    PROVE  LeftInv'
<1>0. /\ ahead'
      /\ UNCHANGED <<legacy, current, unit, running, proven, schema, enabled, strayed, cmd, pc>>
    BY DEF LegacyWrites
<1>1. PICK u \in Units : running[u] = Legacy
    BY DEF LegacyWrites
<1>2. LegacyOnly' /\ RetiredOnly'
    BY <1>0, <1>1 DEF LeftInv, LeftData, LegacyOnly, RetiredOnly
<1>3. ASSUME ~strayed' PROVE Adopted' /\ Apart' /\ Validated' /\ Adopting'
    <2>1. Adopted /\ Apart /\ Validated /\ Adopting
        BY <1>0, <1>3 DEF LeftInv, LeftData
    <2>2. Adopted' /\ Apart'
        BY <1>0, <1>1, <2>1 DEF Adopted, Apart
    <2>3. Validated' /\ Adopting'
        BY <1>0, <1>1, <2>1, UnitFacts DEF Validated, Adopting, Activating
    <2> QED BY <2>2, <2>3
<1> QED BY <1>2, <1>3 DEF LeftInv, LeftData

LEMMA NextLeft ==
    ASSUME WordInv, LeftInv, [Next]_vars
    PROVE  LeftInv'
<1>1. ASSUME UNCHANGED <<legacy, current, unit, running, proven, ahead, schema, enabled>>,
             UNCHANGED <<strayed, cmd, pc>>
      PROVE  LeftInv'
    <2>1. LeftData'
        BY <1>1, SameData DEF LeftInv
    <2>2. ~strayed' => Adopting'
        BY <1>1 DEF LeftInv, Adopting, Activating
    <2> QED BY <2>1, <2>2 DEF LeftInv
<1>2. CASE UNCHANGED vars
    BY <1>1, <1>2 DEF vars, host
<1>3. CASE Configure
    BY <1>1, <1>3 DEF Configure
<1> QED BY <1>2, <1>3, CommandLeft, PrepareLeft, StageLeft, LookLeft, CheckLeft, StopLeft,
       ImportLeft, BackupLeft, RetireLeft, MigrateLeft, EnsureTokensLeft, PickLeft,
       InstallLeft, SwitchLeft, StartLeft, VerifyLeft, RelinkLeft, ReunitLeft, RestartLeft,
       RecheckLeft, FailLeft, DropLeft, RebootLeft, LegacyWritesLeft DEF Next

\* As long as no rollback went to a release that no activation has validated, a
\* service runs a release only once every datum of the legacy installation was
\* copied and the schema has reached the release's.
THEOREM ReleasesFindTheirData == Spec => []NothingLeftBehind
<1>1. LeftInv => NothingLeftBehind
    BY UnitFacts DEF LeftInv, LeftData, Apart, NothingLeftBehind
<1> QED BY <1>1, InitWord, NextWord, InitLeft, NextLeft, PTL DEF Spec
=============================================================================
