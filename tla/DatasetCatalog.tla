--------------------------- MODULE DatasetCatalog ---------------------------
(***************************************************************************)
(* The reusable bases of one agreement (machine_admin/datasets.py and its  *)
(* callers in product_api.py and web.py).  A handler reads what it needs,  *)
(* waits for the advisory lock of the catalog, reads again what may have   *)
(* changed and commits; the encrypted upload is a file written before the  *)
(* commit and removed by whoever made it when the commit fails.            *)
(*                                                                         *)
(* A row is [cpf, reg].  A member pairs the identity key it was inserted   *)
(* under with its immutable record.  Names, columns, counters and warnings *)
(* are left out.                                                           *)
(***************************************************************************)
EXTENDS Naturals, FiniteSets, Sequences

CONSTANTS None, Handlers, Rows, Specific, MaxBases, MaxNonce

ASSUME NoneAssumption == None \notin Specific \cup {"geral"} \cup Handlers

VARIABLES rule,   \* deduplication key of the agreement
          bases,  \* the datasets, in order of creation
          files,  \* encrypted uploads on disk
          owner,  \* who holds the advisory lock of the catalog
          tx      \* the request each handler serves

catVars == <<rule, bases, files, owner, tx>>

Rules == {"cpf", "cpf_registration"}
Types == Specific \cup {"geral"}

(* The key under which a row is one person of the agreement. *)
Identity(r, row) == IF r = "cpf" THEN <<row.cpf>> ELSE <<row.cpf, row.reg>>
Ids(members) == {m.id : m \in members}
MemberOf(r, row) == [id |-> Identity(r, row), rec |-> row]
OnePerIdentity(members) == \A m, n \in members : m.id = n.id => m = n

NewBase(t) == [type |-> t, status |-> "ready", members |-> {}, file |-> None]
ActiveOf(bs, t) == {b \in DOMAIN bs : bs[b].status # "archived" /\ bs[b].type = t}
TheActive(bs, t) == CHOOSE b \in ActiveOf(bs, t) : TRUE
WithActive(bs, t) == IF ActiveOf(bs, t) = {} THEN Append(bs, NewBase(t)) ELSE bs

(* General receives the members whose identity it does not have yet. *)
SyncGeneral(bs, d, g) ==
    IF d = g THEN bs
    ELSE [bs EXCEPT ![g] = [bs[g] EXCEPT !.members =
             @ \cup {m \in bs[d].members : m.id \notin Ids(bs[g].members)}]]

(* The members a base has after a file of rows: known identities are kept, *)
(* identities General knows reuse its record, the others get a new one.    *)
Complemented(members, general, r, rows) ==
    LET missing == {m \in {MemberOf(r, row) : row \in rows} : m.id \notin Ids(members)}
    IN  members
        \cup {g \in general : g.id \in Ids(missing)}
        \cup {m \in missing : m.id \notin Ids(general)}

-----------------------------------------------------------------------------
(* Requests *)

Idle == [op |-> "idle", base |-> 0, type |-> None, rows |-> {}, rule |-> None, file |-> None]

Holds(p, op) == owner = p /\ tx[p].op = op
TakesCatalog(p) == owner = None /\ owner' = p
Answered(p) == /\ tx' = [tx EXCEPT ![p] = Idle]
               /\ owner' = IF owner = p THEN None ELSE owner

(* The whole upload is validated against the rules read before the lock. *)
ImportRead(p) ==
    \E t \in Types, rows \in SUBSET Rows \ {{}} :
        /\ OnePerIdentity({MemberOf(rule, row) : row \in rows})
        /\ tx[p] = Idle
        /\ tx' = [tx EXCEPT ![p] = [Idle EXCEPT !.op = "import", !.type = t,
                                                !.rows = rows, !.rule = rule]]
        /\ UNCHANGED <<rule, bases, files, owner>>

(* The bound on the number of bases: one more is opened only when it fits. *)
Fits(bs) == Len(WithActive(bs, "geral")) <= MaxBases

(* The name of a stored upload: its digest and a nonce no other file has. *)
Nonces == {f.nonce : f \in files \cup ({bases[b].file : b \in DOMAIN bases} \ {None})}
NewFile_ByContent(rows) == [digest |-> rows, nonce |-> 1]
NewFile(rows) == [digest |-> rows,
                  nonce |-> CHOOSE n \in 1..MaxNonce : n \notin Nonces]

RulesStill_Unchecked(p) == TRUE
RulesStill(p) == tx[p].rule = rule

ImportLock(p) ==
    /\ tx[p].op = "import"
    /\ RulesStill(p)
    /\ 1..MaxNonce \ Nonces # {} /\ Fits(WithActive(bases, tx[p].type))
    /\ TakesCatalog(p)
    /\ files' = files \cup {NewFile(tx[p].rows)}
    /\ tx' = [tx EXCEPT ![p] = [@ EXCEPT !.file = NewFile(tx[p].rows)]]
    /\ UNCHANGED <<rule, bases>>

(* The rules changed while the upload was being read: it is refused. *)
ImportRefused(p) ==
    /\ tx[p].op = "import"
    /\ ~RulesStill(p)
    /\ owner = None
    /\ Answered(p)
    /\ UNCHANGED <<rule, bases, files>>

ImportCommit(p) ==
    /\ Holds(p, "import")
    /\ LET t == tx[p].type
           opened == WithActive(WithActive(bases, t), "geral")
           d == TheActive(opened, t)
           g == TheActive(opened, "geral")
           filled == [opened EXCEPT ![d] =
                        [opened[d] EXCEPT !.members = Complemented(@, opened[g].members, rule, tx[p].rows),
                                          !.status = "ready", !.file = tx[p].file]]
       IN  bases' = SyncGeneral(filled, d, g)
    /\ Answered(p)
    /\ UNCHANGED <<rule, files>>

(* An exception, or a commit the database refuses: rollback, own file gone. *)
ImportFails(p) ==
    /\ Holds(p, "import")
    /\ files' = files \ {tx[p].file}
    /\ Answered(p)
    /\ UNCHANGED <<rule, bases>>

(* Edits, removals and changes of the rules wait for the lock first: unlike *)
(* an upload they read again under the lock all they use.                   *)
Locks(p, request) ==
    /\ tx[p] = Idle
    /\ TakesCatalog(p)
    /\ tx' = [tx EXCEPT ![p] = request]
    /\ UNCHANGED <<rule, bases, files>>

EditLock(p) == \E b \in DOMAIN bases, t \in Types :
                  /\ Fits([bases EXCEPT ![b] = [@ EXCEPT !.type = t]])
                  /\ Locks(p, [Idle EXCEPT !.op = "edit", !.base = b, !.type = t])
ArchiveLock(p) == \E b \in DOMAIN bases : Locks(p, [Idle EXCEPT !.op = "archive", !.base = b])
RulesLock(p) == \E r \in Rules : Locks(p, [Idle EXCEPT !.op = "rules", !.rule = r])

(* A legacy base is classified: one record is kept for each identity. *)
Classified(members) ==
    {S \in SUBSET {MemberOf(rule, m.rec) : m \in members} :
        /\ OnePerIdentity(S)
        /\ Ids(S) = {Identity(rule, m.rec) : m \in members}}

Retyped(b, t) ==
    \E kept \in IF bases[b].type = None THEN Classified(bases[b].members)
                                        ELSE {bases[b].members} :
        LET typed == [bases EXCEPT ![b] = [@ EXCEPT !.type = t, !.members = kept]]
            opened == WithActive(typed, "geral")
        IN  bases' = IF t = "geral" THEN typed
                     ELSE SyncGeneral(opened, b, TheActive(opened, "geral"))

Edit(p) ==
    /\ Holds(p, "edit")
    /\ LET b == tx[p].base
           t == tx[p].type
       IN  \/ /\ bases[b].status = "ready"
              /\ t # bases[b].type
              /\ ActiveOf(bases, t) = {}
              /\ Retyped(b, t)
           \/ /\ \/ bases[b].status # "ready"      \* refused
                 \/ t = bases[b].type              \* only the name changes
                 \/ ActiveOf(bases, t) # {}        \* refused: complement that one
              /\ UNCHANGED bases
    /\ Answered(p)
    /\ UNCHANGED <<rule, files>>

(* Unclassified bases do not keep General: their type is NULL in the test. *)
SpecificActive == \E t \in Specific : ActiveOf(bases, t) # {}
MayArchive_General(b) == bases[b].status # "archived"
MayArchive(b) == /\ bases[b].status # "archived"
                 /\ bases[b].type = "geral" => ~SpecificActive

Archive(p) ==
    /\ Holds(p, "archive")
    /\ bases' = IF MayArchive(tx[p].base)
                THEN [bases EXCEPT ![tx[p].base] = [@ EXCEPT !.status = "archived"]]
                ELSE bases
    /\ Answered(p)
    /\ UNCHANGED <<rule, files>>

TypedActive == \E t \in Types : ActiveOf(bases, t) # {}

ChangeRules(p) ==
    /\ Holds(p, "rules")
    /\ rule' = IF TypedActive THEN rule ELSE tx[p].rule
    /\ Answered(p)
    /\ UNCHANGED <<bases, files>>

(* The process dies: the transaction is undone, a written file stays. *)
Crash(p) ==
    /\ tx[p] # Idle
    /\ Answered(p)
    /\ UNCHANGED <<rule, bases, files>>

-----------------------------------------------------------------------------
(* An agreement starts without bases, or with one that the migration to    *)
(* typed bases left unclassified, each record under a key of its own.      *)
LegacyBase(rows) == [type |-> None, status |-> "ready", file |-> None,
                     members |-> {[id |-> <<"legacy", row>>, rec |-> row] : row \in rows}]

Init ==
    /\ rule \in Rules
    /\ bases \in {<<>>, <<LegacyBase(Rows)>>}
    /\ files = {}
    /\ owner = None
    /\ tx = [p \in Handlers |-> Idle]

CatalogAsk(p) == ImportRead(p) \/ EditLock(p) \/ ArchiveLock(p) \/ RulesLock(p)
CatalogWork(p) == \/ ImportLock(p) \/ ImportRefused(p) \/ ImportCommit(p)
                  \/ Edit(p) \/ ChangeRules(p)

Next == \E p \in Handlers : \/ CatalogAsk(p) \/ CatalogWork(p) \/ Archive(p)
                            \/ ImportFails(p) \/ Crash(p)

Spec == Init /\ [][Next]_catVars

-----------------------------------------------------------------------------
(* What the catalog promises *)

ActiveTyped == {b \in DOMAIN bases : bases[b].status # "archived" /\ bases[b].type # None}

(* Every identity of an active classified base follows the rule in force,  *)
(* and stands once: an upload checked under a rule that changed meanwhile  *)
(* is refused (datasets.py 381-389) and the rule is kept while such bases  *)
(* exist (web.py 853-871).                                                 *)
IdentitiesFollowRule ==
    \A b \in ActiveTyped :
        /\ \A m \in bases[b].members : m.id = Identity(rule, m.rec)
        /\ OnePerIdentity(bases[b].members)

(* While a specific base is active the agreement has one General, and it   *)
(* knows every person of that base: whichever of import, edit and archive  *)
(* ran in between (_sync_general, _ensure_general, archive_dataset).       *)
GeneralHoldsAll ==
    /\ \A t \in Types : Cardinality(ActiveOf(bases, t)) <= 1
    /\ \A b \in ActiveTyped :
          \E g \in ActiveOf(bases, "geral") : Ids(bases[b].members) \subseteq Ids(bases[g].members)

(* The upload a base names is on disk and is the one it was made from: the *)
(* clean-up after a failed import never takes a committed file, even of    *)
(* the same content ("Re-importing the same file must never overwrite a    *)
(* committed source artifact").                                            *)
BaseHasItsFile ==
    \A b \in DOMAIN bases : bases[b].file # None => bases[b].file \in files
=============================================================================
