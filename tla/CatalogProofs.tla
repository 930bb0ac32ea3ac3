--------------------------- MODULE CatalogProofs ---------------------------
(***************************************************************************)
(* Proofs about the catalog of bases, alone and under the schedules that   *)
(* share it, for every set of rows, types, handlers and schedulers and     *)
(* every bound.                                                            *)
(***************************************************************************)
EXTENDS Schedules, FiniteSetTheorems, TLAPS

Identities ==
    {Identity("cpf", row) : row \in Rows} \cup {Identity("cpf_registration", row) : row \in Rows}
        \cup {<<"legacy", row>> : row \in Rows}

Members == [id : Identities, rec : Rows]
Uploads == [digest : SUBSET Rows, nonce : 1 .. MaxNonce]

BaseStates ==
    [type : Types \cup {None}, status : {"ready", "archived"}, members : SUBSET Members,
     file : Uploads \cup {None}]

Requests ==
    [op : {"idle", "import", "edit", "archive", "rules"}, base : Nat, type : Types \cup {None},
     rows : SUBSET Rows, rule : Rules \cup {None}, file : Uploads \cup {None}]

CatalogTypes ==
    /\ rule \in Rules
    /\ bases \in Seq(BaseStates)
    /\ files \subseteq Uploads
    /\ tx \in [Handlers -> Requests]

\* Who holds the catalog serves a request.
OwnerWorks == \A p \in Handlers : owner = p => tx[p].op # "idle"

\* A request names what it needs: an upload that was valid under the rules it
\* was read with, a base that is there, a key to deduplicate by.
RequestsMakeSense ==
    \A p \in Handlers :
        /\ tx[p].op = "import" => /\ tx[p].type \in Types
                                  /\ OnePerIdentity({MemberOf(tx[p].rule, row) : row \in tx[p].rows})
        /\ tx[p].op \in {"edit", "archive"} => tx[p].base \in DOMAIN bases
        /\ tx[p].op = "edit" => tx[p].type \in Types
        /\ tx[p].op = "rules" => tx[p].rule \in Rules

\* An import that holds the catalog was read under the rules in force, and its
\* file is on disk and not the one of any base.
ImportIsCurrent ==
    \A p \in Handlers : Holds(p, "import") =>
        /\ tx[p].rule = rule
        /\ tx[p].file \in files
        /\ \A b \in DOMAIN bases : bases[b].file # None => bases[b].file # tx[p].file

ActiveTypedOf(bs) == {b \in DOMAIN bs : bs[b].status # "archived" /\ bs[b].type # None}

Follows(r, members) ==
    /\ members \subseteq Members
    /\ \A m \in members : m.id = Identity(r, m.rec)
    /\ OnePerIdentity(members)

\* The active classified bases follow the rule, no type has two of them, and
\* one of type General knows the people of them all.
GoodBases(bs, r) ==
    /\ \A b \in ActiveTypedOf(bs) : Follows(r, bs[b].members)
    /\ \A t \in Types : \A a, b \in ActiveOf(bs, t) : a = b
    /\ \A b \in ActiveTypedOf(bs) :
          \E g \in ActiveOf(bs, "geral") : Ids(bs[b].members) \subseteq Ids(bs[g].members)

CatalogInv ==
    /\ CatalogTypes
    /\ OwnerWorks
    /\ RequestsMakeSense
    /\ ImportIsCurrent
    /\ BaseHasItsFile
    /\ GoodBases(bases, rule)

-----------------------------------------------------------------------------
(* Sets of members. *)

LEMMA MembersOfRows ==
    ASSUME NEW r \in Rules, NEW row \in Rows
    PROVE  /\ MemberOf(r, row) \in Members
           /\ MemberOf(r, row).id = Identity(r, MemberOf(r, row).rec)
           /\ MemberOf(r, row).id = Identity(r, row) /\ MemberOf(r, row).rec = row
BY DEF MemberOf, Members, Identities, Rules

\* The people of a base are copied into another one that lacks some of them.
LEMMA MergedMembers ==
    ASSUME NEW r, NEW A, NEW B, Follows(r, A), Follows(r, B)
    PROVE  LET C == B \cup {m \in A : m.id \notin Ids(B)}
           IN  Follows(r, C) /\ Ids(A) \subseteq Ids(C) /\ Ids(B) \subseteq Ids(C)
<1> DEFINE C == B \cup {m \in A : m.id \notin Ids(B)}
<1>1. C \subseteq Members /\ \A m \in C : m.id = Identity(r, m.rec)
    BY DEF Follows
<1>2. OnePerIdentity(C)
    BY DEF Follows, OnePerIdentity, Ids
<1>3. Ids(A) \subseteq Ids(C) /\ Ids(B) \subseteq Ids(C)
    BY DEF Ids
<1> HIDE DEF C
<1>4. Follows(r, C)
    BY <1>1, <1>2 DEF Follows
<1> QED BY <1>3, <1>4 DEF C

\* An upload adds the people a base lacks, with the records General has of them.
LEMMA ComplementedMembers ==
    ASSUME NEW r \in Rules, NEW A, NEW G, Follows(r, A), Follows(r, G),
           NEW rows \in SUBSET Rows, OnePerIdentity({MemberOf(r, row) : row \in rows})
    PROVE  /\ Follows(r, Complemented(A, G, r, rows))
           /\ Ids(A) \subseteq Ids(Complemented(A, G, r, rows))
<1> DEFINE U == {MemberOf(r, row) : row \in rows}
           missing == {m \in U : m.id \notin Ids(A)}
           known == {g \in G : g.id \in Ids(missing)}
           new == {m \in missing : m.id \notin Ids(G)}
           C == A \cup known \cup new
<1>1. Complemented(A, G, r, rows) = C
    BY DEF Complemented
<1>2. \A m \in U : m \in Members /\ m.id = Identity(r, m.rec)
    BY MembersOfRows
<1>3. OnePerIdentity(U)
    OBVIOUS
<1> HIDE DEF U
<1>4. C \subseteq Members /\ \A m \in C : m.id = Identity(r, m.rec)
    BY <1>2 DEF Follows
<1>5. \A m \in A, n \in known \cup new : m.id # n.id
    BY DEF Ids
<1>6. \A m \in known, n \in new : m.id # n.id
    BY DEF Ids
<1>7. OnePerIdentity(A) /\ OnePerIdentity(known) /\ OnePerIdentity(new)
    BY <1>3 DEF Follows, OnePerIdentity
<1> HIDE DEF known, new
<1>8. OnePerIdentity(C)
    BY <1>5, <1>6, <1>7 DEF OnePerIdentity
<1>9. Ids(A) \subseteq Ids(C)
    BY DEF Ids
<1> HIDE DEF C
<1> QED BY <1>1, <1>4, <1>8, <1>9 DEF Follows

\* Classifying the members of a legacy base keeps one for each identity.
LEMMA ClassifiedMembers ==
    ASSUME rule \in Rules, NEW A \in SUBSET Members, NEW kept \in Classified(A)
    PROVE  Follows(rule, kept)
<1> DEFINE U == {MemberOf(rule, m.rec) : m \in A}
<1>1. kept \subseteq U /\ OnePerIdentity(kept)
    BY DEF Classified
<1>2. \A m \in U : m \in Members /\ m.id = Identity(rule, m.rec)
    BY MembersOfRows DEF Members
<1> HIDE DEF U
<1> QED BY <1>1, <1>2 DEF Follows

-----------------------------------------------------------------------------
(* Lists of bases. *)

LEMMA NewBaseTyped ==
    ASSUME NEW t \in Types
    PROVE  /\ NewBase(t) \in BaseStates /\ NewBase(t).type = t /\ NewBase(t).status = "ready"
           /\ NewBase(t).members = {} /\ NewBase(t).file = None
BY DEF NewBase, BaseStates

LEMMA NoneIsNoType == None \notin Types
BY NoneAssumption DEF Types

LEMMA UpdatedBase ==
    ASSUME NEW bs \in Seq(BaseStates), NEW b \in DOMAIN bs, NEW x \in BaseStates
    PROVE  /\ [bs EXCEPT ![b] = x] \in Seq(BaseStates)
           /\ DOMAIN [bs EXCEPT ![b] = x] = DOMAIN bs
           /\ [bs EXCEPT ![b] = x][b] = x
           /\ \A c \in DOMAIN bs : c # b => [bs EXCEPT ![b] = x][c] = bs[c]
OBVIOUS

\* Opening a base of a type adds one at most, empty, and only if there is none.
LEMMA OpenedBase ==
    ASSUME NEW bs \in Seq(BaseStates), NEW t \in Types,
           \A u \in Types : \A a, b \in ActiveOf(bs, u) : a = b
    PROVE  LET opened == WithActive(bs, t)
           IN  /\ opened \in Seq(BaseStates) /\ DOMAIN bs \subseteq DOMAIN opened
               /\ \A b \in DOMAIN bs : opened[b] = bs[b]
               /\ \A b \in DOMAIN opened \ DOMAIN bs : opened[b] = NewBase(t) /\ ActiveOf(bs, t) = {}
               /\ \A u \in Types : \A a, b \in ActiveOf(opened, u) : a = b
               /\ TheActive(opened, t) \in ActiveOf(opened, t)
<1> DEFINE opened == WithActive(bs, t)
<1>1. CASE ActiveOf(bs, t) # {}
    <2>1. opened = bs
        BY <1>1 DEF WithActive
    <2>2. TheActive(bs, t) \in ActiveOf(bs, t)
        BY <1>1 DEF TheActive
    <2> QED BY <2>1, <2>2
<1>2. CASE ActiveOf(bs, t) = {}
    <2>1. opened = Append(bs, NewBase(t))
        BY <1>2 DEF WithActive
    <2>2. /\ opened \in Seq(BaseStates) /\ DOMAIN opened = DOMAIN bs \cup {Len(bs) + 1}
          /\ Len(bs) + 1 \notin DOMAIN bs
          /\ \A b \in DOMAIN bs : opened[b] = bs[b]
          /\ opened[Len(bs) + 1] = NewBase(t)
        BY <2>1, NewBaseTyped
    <2> HIDE DEF opened
    <2>3. \A u \in Types : ActiveOf(opened, u) = IF u = t THEN {Len(bs) + 1} ELSE ActiveOf(bs, u)
        BY <1>2, <2>2, NewBaseTyped DEF ActiveOf
    <2>4. TheActive(opened, t) \in ActiveOf(opened, t)
        BY <2>3 DEF TheActive
    <2> QED BY <1>2, <2>2, <2>3, <2>4 DEF opened
<1> QED BY <1>1, <1>2

LEMMA SyncedGeneral ==
    ASSUME NEW r \in Rules, NEW bs \in Seq(BaseStates), NEW d \in DOMAIN bs, NEW g \in DOMAIN bs,
           Follows(r, bs[d].members), Follows(r, bs[g].members)
    PROVE  LET synced == SyncGeneral(bs, d, g)
           IN  /\ synced \in Seq(BaseStates) /\ DOMAIN synced = DOMAIN bs
               /\ \A b \in DOMAIN bs : b # g => synced[b] = bs[b]
               /\ synced[g].type = bs[g].type /\ synced[g].status = bs[g].status
               /\ synced[g].file = bs[g].file
               /\ Follows(r, synced[g].members)
               /\ Ids(bs[g].members) \subseteq Ids(synced[g].members)
               /\ Ids(bs[d].members) \subseteq Ids(synced[g].members)
<1>1. CASE d = g
    BY <1>1 DEF SyncGeneral
<1>2. CASE d # g
    <2> DEFINE C == bs[g].members \cup {m \in bs[d].members : m.id \notin Ids(bs[g].members)}
               x == [bs[g] EXCEPT !.members = C]
    <2>1. SyncGeneral(bs, d, g) = [bs EXCEPT ![g] = x]
        BY <1>2 DEF SyncGeneral
    <2>2. Follows(r, C) /\ Ids(bs[d].members) \subseteq Ids(C) /\ Ids(bs[g].members) \subseteq Ids(C)
        BY MergedMembers
    <2>3. bs[g] \in BaseStates /\ C \in SUBSET Members
        BY <2>2 DEF Follows
    <2> HIDE DEF C
    <2>4. /\ x \in BaseStates /\ x.members = C /\ x.type = bs[g].type /\ x.status = bs[g].status
          /\ x.file = bs[g].file
        BY <2>3 DEF BaseStates
    <2> HIDE DEF x
    <2> QED BY <2>1, <2>2, <2>4, UpdatedBase
<1> QED BY <1>1, <1>2

\* Bases are added, ready, and none is removed or put back.
Grown(old, new) ==
    /\ DOMAIN old \subseteq DOMAIN new
    /\ \A b \in DOMAIN new : IF b \in DOMAIN old THEN new[b].status = old[b].status
                                                 ELSE new[b].status = "ready"

Distinct(r, rows) == OnePerIdentity({MemberOf(r, row) : row \in rows})

\* What an import makes of the bases.
Imported(bs, r, t, rows, f) ==
    LET opened == WithActive(WithActive(bs, t), "geral")
        d == TheActive(opened, t)
        g == TheActive(opened, "geral")
        filled == [opened EXCEPT ![d] =
                     [opened[d] EXCEPT !.members = Complemented(@, opened[g].members, r, rows),
                                       !.status = "ready", !.file = f]]
    IN  SyncGeneral(filled, d, g)

\* An import leaves good bases: it opens what is missing, fills the base of
\* its type and tells General.
LEMMA ImportedBases ==
    ASSUME NEW r \in Rules, NEW bs \in Seq(BaseStates), GoodBases(bs, r), NEW t \in Types,
           NEW rows \in SUBSET Rows, Distinct(r, rows),
           NEW f \in Uploads \cup {None}
    PROVE  LET done == Imported(bs, r, t, rows, f)
           IN  /\ done \in Seq(BaseStates) /\ Grown(bs, done)
               /\ DOMAIN done = DOMAIN WithActive(WithActive(bs, t), "geral")
               /\ GoodBases(done, r)
               /\ \A b \in DOMAIN done : done[b].file \in {None, f}
                                         \/ (b \in DOMAIN bs /\ done[b].file = bs[b].file)
<1> DEFINE one == WithActive(bs, t)
           opened == WithActive(one, "geral")
           d == TheActive(opened, t)
           g == TheActive(opened, "geral")
           C == Complemented(opened[d].members, opened[g].members, r, rows)
           x == [opened[d] EXCEPT !.members = Complemented(@, opened[g].members, r, rows),
                                  !.status = "ready", !.file = f]
           filled == [opened EXCEPT ![d] = x]
           done == SyncGeneral(filled, d, g)
<1>1. "geral" \in Types /\ \A u \in Types : \A a, b \in ActiveOf(bs, u) : a = b
    BY DEF Types, GoodBases
<1>2. /\ one \in Seq(BaseStates) /\ DOMAIN bs \subseteq DOMAIN one
      /\ \A b \in DOMAIN bs : one[b] = bs[b]
      /\ \A b \in DOMAIN one \ DOMAIN bs : one[b] = NewBase(t)
      /\ \A u \in Types : \A a, b \in ActiveOf(one, u) : a = b
      /\ TheActive(one, t) \in ActiveOf(one, t)
    BY <1>1, OpenedBase
<1> HIDE DEF one
<1>3. /\ opened \in Seq(BaseStates) /\ DOMAIN one \subseteq DOMAIN opened
      /\ \A b \in DOMAIN one : opened[b] = one[b]
      /\ \A b \in DOMAIN opened \ DOMAIN one : opened[b] = NewBase("geral")
      /\ \A u \in Types : \A a, b \in ActiveOf(opened, u) : a = b
      /\ g \in ActiveOf(opened, "geral")
    BY <1>1, <1>2, OpenedBase
<1> HIDE DEF opened
<1>4. d \in ActiveOf(opened, t)
    <2>1. ActiveOf(opened, t) # {}
        BY <1>2, <1>3 DEF ActiveOf
    <2> QED BY <2>1 DEF TheActive
<1> HIDE DEF d, g
<1>5. /\ \A b \in DOMAIN bs : b \in DOMAIN opened /\ opened[b] = bs[b]
      /\ \A b \in DOMAIN opened \ DOMAIN bs :
            /\ opened[b].members = {} /\ opened[b].file = None
            /\ opened[b].type \in {t, "geral"} /\ opened[b].status = "ready"
    BY <1>1, <1>2, <1>3, NewBaseTyped
<1>6. \A b \in ActiveTypedOf(opened) : Follows(r, opened[b].members)
    <2>1. Follows(r, {})
        BY DEF Follows, OnePerIdentity
    <2> QED BY <1>5, <2>1 DEF GoodBases, ActiveTypedOf
<1>7. /\ d \in DOMAIN opened /\ g \in DOMAIN opened /\ d \in ActiveTypedOf(opened)
      /\ g \in ActiveTypedOf(opened) /\ opened[d].status # "archived"
    BY <1>1, <1>3, <1>4, NoneIsNoType DEF ActiveOf, ActiveTypedOf
<1>8. Follows(r, C) /\ Ids(opened[d].members) \subseteq Ids(C)
    BY <1>6, <1>7, ComplementedMembers DEF Distinct
<1>9. opened[d] \in BaseStates /\ C \in SUBSET Members
    BY <1>3, <1>7, <1>8 DEF Follows
<1>10. /\ x \in BaseStates /\ x.members = C /\ x.type = opened[d].type /\ x.status = "ready"
       /\ x.file = f /\ opened[d].status = "ready"
    BY <1>7, <1>9 DEF BaseStates
<1> HIDE DEF x, C
<1>11. /\ filled \in Seq(BaseStates) /\ DOMAIN filled = DOMAIN opened /\ filled[d] = x
       /\ \A b \in DOMAIN opened : b # d => filled[b] = opened[b]
    BY <1>3, <1>7, <1>10, UpdatedBase
<1> HIDE DEF filled
<1>12. Follows(r, filled[d].members) /\ Follows(r, filled[g].members)
    BY <1>6, <1>7, <1>8, <1>10, <1>11
<1>13. /\ done \in Seq(BaseStates) /\ DOMAIN done = DOMAIN filled
       /\ \A b \in DOMAIN filled : b # g => done[b] = filled[b]
       /\ done[g].type = filled[g].type /\ done[g].status = filled[g].status
       /\ done[g].file = filled[g].file
       /\ Follows(r, done[g].members)
       /\ Ids(filled[g].members) \subseteq Ids(done[g].members)
       /\ Ids(filled[d].members) \subseteq Ids(done[g].members)
    BY <1>7, <1>11, <1>12, SyncedGeneral
<1> HIDE DEF done
<1>14. \A b \in DOMAIN opened : done[b].type = opened[b].type /\ done[b].status = opened[b].status
    BY <1>10, <1>11, <1>13
<1>15. DOMAIN done = DOMAIN opened /\ ActiveTypedOf(done) = ActiveTypedOf(opened)
       /\ \A u : ActiveOf(done, u) = ActiveOf(opened, u)
    BY <1>11, <1>13, <1>14 DEF ActiveTypedOf, ActiveOf
<1>16. \A b \in ActiveTypedOf(done) : Follows(r, done[b].members)
    BY <1>6, <1>8, <1>10, <1>11, <1>13, <1>15 DEF ActiveTypedOf
<1>17. \A b \in ActiveTypedOf(done) : Ids(done[b].members) \subseteq Ids(done[g].members)
    <2> SUFFICES ASSUME NEW b \in ActiveTypedOf(opened), b # d, b # g
                 PROVE  Ids(done[b].members) \subseteq Ids(done[g].members)
        <3>1. Ids(done[d].members) \subseteq Ids(done[g].members)
            BY <1>7, <1>11, <1>13
        <3> QED BY <1>15, <3>1
    <2>1. b \in DOMAIN opened /\ opened[b].status # "archived" /\ opened[b].type # None
        BY DEF ActiveTypedOf
    <2>2. b \in DOMAIN bs
        <3>1. b \in ActiveOf(opened, opened[b].type)
            BY <2>1 DEF ActiveOf
        <3>2. opened[b].type \notin {t, "geral"}
            BY <1>1, <1>3, <1>4, <3>1
        <3> QED BY <1>5, <2>1, <3>2
    <2>3. PICK h \in ActiveOf(bs, "geral") : Ids(bs[b].members) \subseteq Ids(bs[h].members)
        BY <1>5, <2>1, <2>2 DEF GoodBases, ActiveTypedOf
    <2>4. h \in ActiveOf(opened, "geral") /\ h \in DOMAIN bs
        BY <1>5, <2>3 DEF ActiveOf
    <2>5. h = g
        BY <1>1, <1>3, <2>4
    <2>6. Ids(opened[b].members) \subseteq Ids(opened[g].members)
        BY <1>5, <2>2, <2>3, <2>4, <2>5
    <2>7. Ids(opened[g].members) \subseteq Ids(filled[g].members)
        BY <1>7, <1>8, <1>10, <1>11
    <2>8. done[b] = opened[b]
        BY <1>11, <1>13, <2>1
    <2> QED BY <1>13, <2>6, <2>7, <2>8
<1>18. GoodBases(done, r)
    BY <1>3, <1>15, <1>16, <1>17 DEF GoodBases
<1>19. \A b \in DOMAIN done : done[b].file \in {None, f}
                              \/ (b \in DOMAIN bs /\ done[b].file = bs[b].file)
    BY <1>5, <1>7, <1>10, <1>11, <1>13, <1>15
<1>20. Grown(bs, done)
    BY <1>5, <1>14, <1>15 DEF Grown
<1> QED BY <1>13, <1>15, <1>18, <1>19, <1>20 DEF Imported, done, filled, x, C, d, g, opened, one

\* A base that gets a type no other has: the people of its type change with
\* it, and what knew everyone before it was retyped still does.
LEMMA RetypedBases ==
    ASSUME CatalogTypes, GoodBases(bases, rule), NEW b \in DOMAIN bases, NEW t \in Types,
           bases[b].status = "ready", t # bases[b].type, ActiveOf(bases, t) = {}, Retyped(b, t)
    PROVE  /\ bases' \in Seq(BaseStates) /\ Grown(bases, bases')
           /\ \/ DOMAIN bases' = DOMAIN bases
              \/ /\ \A c \in ActiveOf(bases, "geral") : c = b
                 /\ t # "geral" /\ Len(bases') = Len(bases) + 1
           /\ GoodBases(bases', rule)
           /\ \A c \in DOMAIN bases' : \/ bases'[c].file = None
                                       \/ c \in DOMAIN bases /\ bases'[c].file = bases[c].file
<1>1. PICK kept \in (IF bases[b].type = None THEN Classified(bases[b].members)
                                             ELSE {bases[b].members}) :
          LET typed == [bases EXCEPT ![b] = [@ EXCEPT !.type = t, !.members = kept]]
              opened == WithActive(typed, "geral")
          IN  bases' = IF t = "geral" THEN typed
                       ELSE SyncGeneral(opened, b, TheActive(opened, "geral"))
    BY DEF Retyped
<1> DEFINE x == [bases[b] EXCEPT !.type = t, !.members = kept]
           typed == [bases EXCEPT ![b] = x]
           opened == WithActive(typed, "geral")
           g == TheActive(opened, "geral")
<1>2. bases' = IF t = "geral" THEN typed ELSE SyncGeneral(opened, b, g)
    BY <1>1
<1>3. rule \in Rules /\ bases \in Seq(BaseStates) /\ bases[b] \in BaseStates /\ "geral" \in Types
    BY DEF CatalogTypes, Types
<1>4. Follows(rule, kept)
    <2>1. CASE bases[b].type = None
        <3>1. bases[b].members \in SUBSET Members
            BY <1>3 DEF BaseStates
        <3> QED BY <1>1, <1>3, <2>1, <3>1, ClassifiedMembers
    <2>2. CASE bases[b].type # None
        BY <1>1, <2>2 DEF GoodBases, ActiveTypedOf
    <2> QED BY <2>1, <2>2
<1>5. /\ x \in BaseStates /\ x.type = t /\ x.members = kept /\ x.status = "ready"
      /\ x.file = bases[b].file
    BY <1>3, <1>4 DEF BaseStates, Follows
<1>6. bases[b].type # None => x.members = bases[b].members
    BY <1>1, <1>5
<1> HIDE DEF x
<1>7. /\ typed \in Seq(BaseStates) /\ DOMAIN typed = DOMAIN bases /\ typed[b] = x
      /\ \A c \in DOMAIN bases : c # b => typed[c] = bases[c]
    BY <1>3, <1>5, UpdatedBase
<1> HIDE DEF typed
<1>8. /\ b \in ActiveOf(typed, t)
      /\ \A u \in Types : \A c \in ActiveOf(typed, u) :
            \/ u = t /\ c = b
            \/ u # t /\ c # b /\ c \in ActiveOf(bases, u)
    <2>1. b \in ActiveOf(typed, t)
        BY <1>5, <1>7 DEF ActiveOf
    <2>2. ASSUME NEW u \in Types, NEW c \in ActiveOf(typed, u), c # b
          PROVE  u # t /\ c \in ActiveOf(bases, u)
        BY <1>7, <2>2 DEF ActiveOf
    <2>3. ASSUME NEW u \in Types, NEW c \in ActiveOf(typed, u), c = b
          PROVE  u = t
        BY <1>5, <1>7, <2>3 DEF ActiveOf
    <2>4. ASSUME NEW u \in Types, NEW c \in ActiveOf(typed, u)
          PROVE  \/ u = t /\ c = b
                 \/ u # t /\ c # b /\ c \in ActiveOf(bases, u)
        BY <2>2, <2>3
    <2> QED BY <2>1, <2>4
<1>9. \A u \in Types : \A c, d \in ActiveOf(typed, u) : c = d
    BY <1>8 DEF GoodBases
<1>10. \A c \in DOMAIN bases : typed[c].status = bases[c].status /\ typed[c].file = bases[c].file
    BY <1>5, <1>7
<1>11. CASE t = "geral"
    <2>1. bases' = typed
        BY <1>2, <1>11
    <2>2. ActiveTypedOf(bases) = {}
        BY <1>11 DEF GoodBases
    <2>3. \A c \in ActiveTypedOf(typed) : c = b
        BY <1>7, <2>2 DEF ActiveTypedOf
    <2>4. GoodBases(typed, rule)
        BY <1>4, <1>5, <1>7, <1>8, <1>9, <1>11, <2>3 DEF GoodBases
    <2> QED BY <1>7, <1>10, <2>1, <2>4 DEF Grown
<1>12. CASE t # "geral"
    <2> DEFINE done == SyncGeneral(opened, b, g)
    <2>1. bases' = done
        BY <1>2, <1>12
    <2>2. /\ opened \in Seq(BaseStates) /\ DOMAIN typed \subseteq DOMAIN opened
          /\ \A c \in DOMAIN typed : opened[c] = typed[c]
          /\ \A c \in DOMAIN opened \ DOMAIN typed : opened[c] = NewBase("geral")
          /\ \A u \in Types : \A c, d \in ActiveOf(opened, u) : c = d
          /\ g \in ActiveOf(opened, "geral")
        BY <1>3, <1>7, <1>9, OpenedBase
    <2> HIDE DEF opened, g
    <2>3. /\ \A c \in DOMAIN bases : c \in DOMAIN opened /\ opened[c] = typed[c]
          /\ \A c \in DOMAIN opened \ DOMAIN bases :
                /\ opened[c].members = {} /\ opened[c].file = None /\ c = g
        <3>1. \A c \in DOMAIN opened \ DOMAIN typed : c \in ActiveOf(opened, "geral")
            BY <1>3, <2>2, NewBaseTyped DEF ActiveOf
        <3> QED BY <1>3, <1>7, <2>2, <3>1, NewBaseTyped
    <2>4. b \in DOMAIN opened /\ g \in DOMAIN opened /\ opened[b] = x /\ g # b
        BY <1>5, <1>7, <1>12, <2>2, <2>3 DEF ActiveOf
    <2>5. \A c \in ActiveTypedOf(opened) : Follows(rule, opened[c].members)
        <3>1. Follows(rule, {})
            BY DEF Follows, OnePerIdentity
        <3>2. ASSUME NEW c \in ActiveTypedOf(opened), c \in DOMAIN bases, c # b
              PROVE  Follows(rule, opened[c].members)
            BY <1>7, <2>3, <3>2 DEF GoodBases, ActiveTypedOf
        <3> QED BY <1>4, <1>5, <2>3, <2>4, <3>1, <3>2 DEF ActiveTypedOf
    <2>6. b \in ActiveTypedOf(opened) /\ g \in ActiveTypedOf(opened)
        BY <1>5, <1>3, <2>2, <2>4, NoneIsNoType DEF ActiveTypedOf, ActiveOf
    <2>7. /\ done \in Seq(BaseStates) /\ DOMAIN done = DOMAIN opened
          /\ \A c \in DOMAIN opened : c # g => done[c] = opened[c]
          /\ done[g].type = opened[g].type /\ done[g].status = opened[g].status
          /\ done[g].file = opened[g].file
          /\ Follows(rule, done[g].members)
          /\ Ids(opened[g].members) \subseteq Ids(done[g].members)
          /\ Ids(opened[b].members) \subseteq Ids(done[g].members)
        BY <1>3, <2>2, <2>4, <2>5, <2>6, SyncedGeneral
    <2> HIDE DEF done
    <2>8. ActiveTypedOf(done) = ActiveTypedOf(opened) /\ \A u : ActiveOf(done, u) = ActiveOf(opened, u)
        BY <2>7 DEF ActiveTypedOf, ActiveOf
    <2>9. \A c \in ActiveTypedOf(done) : Follows(rule, done[c].members)
        BY <2>5, <2>7, <2>8 DEF ActiveTypedOf
    <2>10. ASSUME NEW c \in ActiveTypedOf(done)
           PROVE  Ids(done[c].members) \subseteq Ids(done[g].members)
        <3>1. CASE c = g
            BY <3>1
        <3>2. CASE c = b
            BY <2>4, <2>7, <3>2
        <3>3. CASE c # g /\ c # b
            <4>1. c \in ActiveTypedOf(bases) /\ done[c] = bases[c]
                BY <1>7, <2>3, <2>7, <2>8, <3>3 DEF ActiveTypedOf
            <4>2. PICK h \in ActiveOf(bases, "geral") : Ids(bases[c].members) \subseteq Ids(bases[h].members)
                BY <4>1 DEF GoodBases
            <4>3. CASE h = b
                BY <1>3, <1>5, <1>6, <2>4, <2>7, <4>1, <4>2, <4>3, NoneIsNoType DEF ActiveOf
            <4>4. CASE h # b
                <5>1. opened[h] = bases[h] /\ h \in ActiveOf(opened, "geral")
                    BY <1>7, <2>3, <4>4 DEF ActiveOf
                <5>2. h = g
                    BY <1>3, <2>2, <5>1
                <5> QED BY <2>7, <4>1, <4>2, <5>1, <5>2
            <4> QED BY <4>3, <4>4
        <3> QED BY <3>1, <3>2, <3>3
    <2>11. GoodBases(done, rule)
        BY <2>2, <2>8, <2>9, <2>10 DEF GoodBases
    <2>12. \A c \in DOMAIN opened : done[c].file = opened[c].file /\ done[c].status = opened[c].status
        BY <2>7
    <2>13. \A c \in DOMAIN done : \/ done[c].file = None
                                  \/ c \in DOMAIN bases /\ done[c].file = bases[c].file
        BY <1>10, <2>3, <2>7, <2>12
    <2>14. Grown(bases, done)
        <3>1. \A c \in DOMAIN opened \ DOMAIN bases : opened[c].status = "ready"
            BY <1>3, <1>7, <2>2, NewBaseTyped
        <3> QED BY <1>10, <2>3, <2>7, <2>12, <3>1 DEF Grown
    <2>15. \/ DOMAIN done = DOMAIN bases
           \/ /\ \A c \in ActiveOf(bases, "geral") : c = b
              /\ Len(done) = Len(bases) + 1
        <3>1. CASE ActiveOf(typed, "geral") # {}
            <4>1. opened = typed
                BY <3>1 DEF opened, WithActive
            <4> QED BY <1>7, <2>7, <4>1
        <3>2. CASE ActiveOf(typed, "geral") = {}
            <4>1. opened = Append(typed, NewBase("geral"))
                BY <3>2 DEF opened, WithActive
            <4>2. Len(opened) = Len(typed) + 1 /\ Len(typed) = Len(bases)
                BY <1>3, <1>7, <4>1
            <4>3. \A c \in ActiveOf(bases, "geral") : c # b => c \in ActiveOf(typed, "geral")
                BY <1>7 DEF ActiveOf
            <4> QED BY <2>2, <2>7, <3>2, <4>2, <4>3
        <3> QED BY <3>1, <3>2
    <2> QED BY <1>12, <2>1, <2>7, <2>11, <2>13, <2>14, <2>15
<1> QED BY <1>11, <1>12

-----------------------------------------------------------------------------
(* The steps of a handler keep CatalogInv. *)

LEMMA IdleTyped == Idle \in Requests /\ Idle.op = "idle"
BY DEF Idle, Requests

LEMMA AnsweredRequest ==
    ASSUME CatalogInv, NEW p \in Handlers, Answered(p)
    PROVE  /\ tx' \in [Handlers -> Requests]
           /\ \A q \in Handlers : tx'[q] = IF q = p THEN Idle ELSE tx[q]
           /\ \A q \in Handlers : owner' = q => owner = q /\ q # p
           /\ owner = p => owner' = None
<1>1. tx' = [tx EXCEPT ![p] = Idle] /\ owner' = IF owner = p THEN None ELSE owner
    BY DEF Answered
<1>2. tx \in [Handlers -> Requests]
    BY DEF CatalogInv, CatalogTypes
<1>3. None \notin Handlers
    BY NoneAssumption
<1> QED BY <1>1, <1>2, <1>3, IdleTyped

\* A request ends: what is left to see is that the catalog is in order.
LEMMA AnsweredKeeps ==
    ASSUME CatalogInv, NEW p \in Handlers, Answered(p),
           rule' \in Rules, bases' \in Seq(BaseStates), files' \subseteq Uploads,
           DOMAIN bases \subseteq DOMAIN bases',
           owner \in {p, None} \/ UNCHANGED <<rule, bases, files>>,
           BaseHasItsFile', GoodBases(bases, rule)'
    PROVE  CatalogInv'
<1>1. /\ tx' \in [Handlers -> Requests]
      /\ \A q \in Handlers : tx'[q] = IF q = p THEN Idle ELSE tx[q]
      /\ \A q \in Handlers : owner' = q => owner = q /\ q # p
      /\ owner = p => owner' = None
    BY AnsweredRequest
<1>2. OwnerWorks'
    BY <1>1 DEF OwnerWorks, CatalogInv
<1>3. RequestsMakeSense'
    <2> SUFFICES ASSUME NEW q \in Handlers
                 PROVE  /\ tx'[q].op = "import" =>
                              /\ tx'[q].type \in Types
                              /\ OnePerIdentity({MemberOf(tx'[q].rule, row) : row \in tx'[q].rows})
                        /\ tx'[q].op \in {"edit", "archive"} => tx'[q].base \in DOMAIN bases'
                        /\ tx'[q].op = "edit" => tx'[q].type \in Types
                        /\ tx'[q].op = "rules" => tx'[q].rule \in Rules
        BY DEF RequestsMakeSense
    <2>1. CASE q = p
        BY <1>1, <2>1, IdleTyped
    <2>2. CASE q # p
        BY <1>1, <2>2 DEF CatalogInv, RequestsMakeSense
    <2> QED BY <2>1, <2>2
<1>4. ImportIsCurrent'
    <2> SUFFICES ASSUME NEW q \in Handlers, owner' = q, tx'[q].op = "import"
                 PROVE  /\ tx'[q].rule = rule'
                        /\ tx'[q].file \in files'
                        /\ \A b \in DOMAIN bases' :
                              bases'[b].file # None => bases'[b].file # tx'[q].file
        BY DEF ImportIsCurrent, Holds
    <2>1. owner = q /\ q # p /\ tx'[q] = tx[q]
        BY <1>1
    <2>2. UNCHANGED <<rule, bases, files>>
        BY <2>1, NoneAssumption
    <2> QED BY <2>1, <2>2 DEF CatalogInv, ImportIsCurrent, Holds
<1>5. CatalogTypes'
    BY <1>1 DEF CatalogTypes
<1> QED BY <1>2, <1>3, <1>4, <1>5 DEF CatalogInv

LEMMA ImportCommitKeeps ==
    ASSUME CatalogInv, NEW p \in Handlers, ImportCommit(p)
    PROVE  CatalogInv' /\ Grown(bases, bases')
<1> DEFINE r == tx[p]
<1>1. /\ Holds(p, "import") /\ Answered(p) /\ rule' = rule /\ files' = files
    BY DEF ImportCommit
<1>2. /\ r \in Requests /\ rule \in Rules /\ bases \in Seq(BaseStates) /\ files \subseteq Uploads
      /\ GoodBases(bases, rule) /\ r.op = "import" /\ owner = p
    BY <1>1 DEF CatalogInv, CatalogTypes, Holds
<1>3. /\ r.type \in Types /\ r.rows \in SUBSET Rows /\ r.file \in Uploads \cup {None}
      /\ r.rule = rule /\ r.file \in files
      /\ Distinct(rule, r.rows)
    <2>1. r.rule = rule /\ r.file \in files
        BY <1>1 DEF CatalogInv, ImportIsCurrent
    <2>2. r.type \in Types /\ Distinct(r.rule, r.rows)
        BY <1>2 DEF CatalogInv, RequestsMakeSense, Distinct
    <2>3. r.rows \in SUBSET Rows /\ r.file \in Uploads \cup {None}
        BY <1>2 DEF Requests
    <2> HIDE DEF r
    <2> QED BY <2>1, <2>2, <2>3
<1>4. /\ bases' \in Seq(BaseStates) /\ Grown(bases, bases')
      /\ GoodBases(bases', rule)
      /\ \A b \in DOMAIN bases' : bases'[b].file \in {None, r.file}
                                  \/ (b \in DOMAIN bases /\ bases'[b].file = bases[b].file)
    <2> HIDE DEF r
    <2>1. bases' = Imported(bases, rule, r.type, r.rows, r.file)
        BY DEF ImportCommit, Imported, r
    <2> QED BY <1>2, <1>3, <2>1, ImportedBases
<1>5. BaseHasItsFile'
    BY <1>1, <1>3, <1>4 DEF CatalogInv, BaseHasItsFile
<1>6. GoodBases(bases, rule)'
    BY <1>1, <1>4
<1>7. CatalogInv'
    BY <1>1, <1>2, <1>4, <1>5, <1>6, AnsweredKeeps DEF Grown
<1> QED BY <1>4, <1>7

LEMMA EditKeeps ==
    ASSUME CatalogInv, NEW p \in Handlers, Edit(p)
    PROVE  CatalogInv' /\ Grown(bases, bases')
<1>1. Holds(p, "edit") /\ Answered(p) /\ rule' = rule /\ files' = files
    BY DEF Edit
<1>2. /\ rule \in Rules /\ bases \in Seq(BaseStates) /\ files \subseteq Uploads
      /\ GoodBases(bases, rule) /\ tx[p].op = "edit" /\ owner = p
    BY <1>1 DEF CatalogInv, CatalogTypes, Holds
<1>3. tx[p].type \in Types /\ tx[p].base \in DOMAIN bases
    BY <1>2 DEF CatalogInv, RequestsMakeSense
<1>4. CASE UNCHANGED bases
    <2>1. BaseHasItsFile' /\ GoodBases(bases, rule)'
        BY <1>1, <1>2, <1>4 DEF CatalogInv, BaseHasItsFile
    <2> QED BY <1>1, <1>2, <1>4, <2>1, AnsweredKeeps DEF Grown
<1>5. CASE /\ bases[tx[p].base].status = "ready" /\ tx[p].type # bases[tx[p].base].type
           /\ ActiveOf(bases, tx[p].type) = {} /\ Retyped(tx[p].base, tx[p].type)
    <2>1. /\ bases' \in Seq(BaseStates) /\ Grown(bases, bases')
          /\ GoodBases(bases', rule)
          /\ \A c \in DOMAIN bases' : \/ bases'[c].file = None
                                      \/ c \in DOMAIN bases /\ bases'[c].file = bases[c].file
        BY <1>2, <1>3, <1>5, RetypedBases DEF CatalogInv
    <2>2. BaseHasItsFile' /\ GoodBases(bases, rule)'
        BY <1>1, <2>1 DEF CatalogInv, BaseHasItsFile
    <2>3. CatalogInv'
        BY <1>1, <1>2, <2>1, <2>2, AnsweredKeeps DEF Grown
    <2> QED BY <2>1, <2>3
<1> QED BY <1>4, <1>5 DEF Edit

LEMMA ArchiveKeeps ==
    ASSUME CatalogInv, NEW p \in Handlers, Archive(p)
    PROVE  /\ CatalogInv' /\ tx[p].base \in DOMAIN bases /\ DOMAIN bases' = DOMAIN bases
           /\ \A c \in DOMAIN bases : bases'[c].status = bases[c].status
                                      \/ (c = tx[p].base /\ MayArchive(c))
<1> DEFINE b == tx[p].base
           x == [bases[b] EXCEPT !.status = "archived"]
<1>1. /\ Holds(p, "archive") /\ Answered(p) /\ rule' = rule /\ files' = files
      /\ bases' = IF MayArchive(b) THEN [bases EXCEPT ![b] = x] ELSE bases
    BY DEF Archive
<1>2. /\ rule \in Rules /\ bases \in Seq(BaseStates) /\ files \subseteq Uploads
      /\ GoodBases(bases, rule) /\ tx[p].op = "archive" /\ owner = p
    BY <1>1 DEF CatalogInv, CatalogTypes, Holds
<1>3. b \in DOMAIN bases /\ bases[b] \in BaseStates
    <2>1. tx[p].base \in DOMAIN bases
        BY <1>2 DEF CatalogInv, RequestsMakeSense
    <2> HIDE DEF b
    <2>2. b \in DOMAIN bases
        BY <2>1 DEF b
    <2> QED BY <1>2, <2>2
<1>4. CASE ~MayArchive(b)
    <2>1. BaseHasItsFile' /\ GoodBases(bases, rule)'
        BY <1>1, <1>2, <1>4 DEF CatalogInv, BaseHasItsFile
    <2> QED BY <1>1, <1>2, <1>3, <1>4, <2>1, AnsweredKeeps
<1>5. CASE MayArchive(b)
    <2>1. x \in BaseStates /\ x.status = "archived" /\ x.file = bases[b].file
        BY <1>3 DEF BaseStates
    <2> HIDE DEF x
    <2>2. /\ bases' \in Seq(BaseStates) /\ DOMAIN bases' = DOMAIN bases /\ bases'[b] = x
          /\ \A c \in DOMAIN bases : c # b => bases'[c] = bases[c]
        BY <1>1, <1>2, <1>3, <1>5, <2>1, UpdatedBase
    <2> HIDE DEF b
    <2>3. ActiveTypedOf(bases') = ActiveTypedOf(bases) \ {b}
          /\ \A u : ActiveOf(bases', u) = ActiveOf(bases, u) \ {b}
        BY <2>1, <2>2 DEF ActiveTypedOf, ActiveOf
    <2>4. \A c \in ActiveTypedOf(bases') : \E g \in ActiveOf(bases', "geral") :
             Ids(bases'[c].members) \subseteq Ids(bases'[g].members)
        <3> SUFFICES ASSUME NEW c \in ActiveTypedOf(bases')
                     PROVE  \E g \in ActiveOf(bases', "geral") :
                               Ids(bases'[c].members) \subseteq Ids(bases'[g].members)
            OBVIOUS
        <3>1. c \in ActiveTypedOf(bases) /\ c # b /\ c \in DOMAIN bases /\ bases'[c] = bases[c]
              /\ bases[c] \in BaseStates
            BY <1>2, <2>2, <2>3 DEF ActiveTypedOf
        <3>2. PICK g \in ActiveOf(bases, "geral") : Ids(bases[c].members) \subseteq Ids(bases[g].members)
            BY <1>2, <3>1 DEF GoodBases
        <3>3. CASE g # b
            BY <2>2, <2>3, <3>1, <3>2, <3>3 DEF ActiveOf
        <3>4. CASE g = b
            <4>1. bases[c].type \in Types /\ c \in ActiveOf(bases, bases[c].type)
                BY <3>1 DEF ActiveTypedOf, ActiveOf, BaseStates
            <4>2. ~SpecificActive
                BY <1>5, <3>2, <3>4 DEF MayArchive, ActiveOf
            <4>3. bases[c].type = "geral"
                BY <4>1, <4>2 DEF SpecificActive, Types
            <4>4. c = b
                BY <1>2, <3>2, <3>4, <4>1, <4>3 DEF GoodBases, Types
            <4> QED BY <3>1, <4>4
        <3> QED BY <3>3, <3>4
    <2>5. \A c \in ActiveTypedOf(bases') : Follows(rule, bases'[c].members)
        BY <1>2, <2>2, <2>3 DEF GoodBases, ActiveTypedOf
    <2>6. GoodBases(bases, rule)'
        <3>1. \A t \in Types : \A c, d \in ActiveOf(bases', t) : c = d
            <4> SUFFICES ASSUME NEW t \in Types, NEW c \in ActiveOf(bases', t), NEW d \in ActiveOf(bases', t)
                         PROVE  c = d
                OBVIOUS
            <4>1. c \in ActiveOf(bases, t) /\ d \in ActiveOf(bases, t)
                BY <2>3
            <4> QED BY <1>2, <4>1 DEF GoodBases
        <3> QED BY <1>1, <2>4, <2>5, <3>1 DEF GoodBases
    <2>7. BaseHasItsFile'
        BY <1>1, <1>3, <2>1, <2>2 DEF CatalogInv, BaseHasItsFile
    <2>8. CatalogInv'
        BY <1>1, <1>2, <2>2, <2>6, <2>7, AnsweredKeeps
    <2> QED BY <1>3, <1>5, <2>2, <2>8 DEF b
<1> QED BY <1>4, <1>5

\* The steps that end a request and touch no base.
LEMMA EndingKeeps ==
    ASSUME CatalogInv, NEW p \in Handlers,
           ImportRefused(p) \/ Crash(p) \/ ImportFails(p) \/ ChangeRules(p)
    PROVE  CatalogInv' /\ bases' = bases
<1>1. Answered(p) /\ bases' = bases
    BY DEF ImportRefused, Crash, ImportFails, ChangeRules
<1>2. /\ rule \in Rules /\ bases \in Seq(BaseStates) /\ files \subseteq Uploads
      /\ BaseHasItsFile /\ GoodBases(bases, rule)
    BY DEF CatalogInv, CatalogTypes
<1>3. CASE UNCHANGED <<rule, files>>
    <2>1. BaseHasItsFile' /\ GoodBases(bases, rule)'
        BY <1>1, <1>2, <1>3 DEF BaseHasItsFile
    <2> QED BY <1>1, <1>2, <1>3, <2>1, AnsweredKeeps
<1>4. CASE ImportFails(p)
    <2>1. Holds(p, "import") /\ files' = files \ {tx[p].file} /\ rule' = rule /\ owner = p
        BY <1>4 DEF ImportFails, Holds
    <2>2. \A b \in DOMAIN bases : bases[b].file # None => bases[b].file # tx[p].file
        BY <2>1 DEF CatalogInv, ImportIsCurrent
    <2>3. BaseHasItsFile' /\ GoodBases(bases, rule)'
        BY <1>1, <1>2, <2>1, <2>2 DEF BaseHasItsFile
    <2> QED BY <1>1, <1>2, <2>1, <2>3, AnsweredKeeps
<1>5. CASE ChangeRules(p) /\ rule' # rule
    <2>1. /\ tx[p].op = "rules" /\ owner = p /\ files' = files /\ ~TypedActive /\ rule' = tx[p].rule
        BY <1>5 DEF ChangeRules, Holds
    <2>2. rule' \in Rules
        BY <2>1 DEF CatalogInv, RequestsMakeSense
    <2>3. \A b \in DOMAIN bases : bases[b].type \in Types \cup {None}
        <3>1. \A b \in DOMAIN bases : bases[b] \in BaseStates
            BY <1>2
        <3> QED BY <3>1 DEF BaseStates
    <2>4. ActiveTypedOf(bases) = {} /\ \A t \in Types : ActiveOf(bases, t) = {}
        BY <2>1, <2>3 DEF TypedActive, ActiveTypedOf, ActiveOf
    <2>5. GoodBases(bases, rule')
        BY <2>4 DEF GoodBases
    <2>6. BaseHasItsFile' /\ GoodBases(bases, rule)'
        BY <1>1, <1>2, <2>1, <2>5 DEF BaseHasItsFile
    <2> QED BY <1>1, <1>2, <2>1, <2>2, <2>6, AnsweredKeeps
<1> QED BY <1>1, <1>3, <1>4, <1>5 DEF ImportRefused, Crash, ImportFails, ChangeRules

\* A request begins, or takes the catalog.
LEMMA AskedKeeps ==
    ASSUME CatalogInv, NEW p \in Handlers, NEW r \in Requests,
           tx' = [tx EXCEPT ![p] = r], owner \notin Handlers \/ owner' = owner,
           \A q \in Handlers : owner' = q => owner = q \/ q = p,
           UNCHANGED <<rule, bases>>, files \subseteq files', files' \subseteq Uploads,
           owner' = p => r.op # "idle",
           r.op = "import" => r.type \in Types /\ Distinct(r.rule, r.rows),
           r.op \in {"edit", "archive"} => r.base \in DOMAIN bases,
           r.op = "edit" => r.type \in Types,
           r.op = "rules" => r.rule \in Rules,
           owner' = p /\ r.op = "import" =>
                /\ r.rule = rule /\ r.file \in files'
                /\ \A b \in DOMAIN bases : bases[b].file # None => bases[b].file # r.file
    PROVE  CatalogInv'
<1>1. /\ tx \in [Handlers -> Requests] /\ rule \in Rules /\ bases \in Seq(BaseStates)
      /\ OwnerWorks /\ RequestsMakeSense /\ ImportIsCurrent /\ BaseHasItsFile
      /\ GoodBases(bases, rule)
    BY DEF CatalogInv, CatalogTypes
<1>2. tx' \in [Handlers -> Requests] /\ \A q \in Handlers : tx'[q] = IF q = p THEN r ELSE tx[q]
    BY <1>1
<1>3. CatalogTypes'
    BY <1>1, <1>2 DEF CatalogTypes
<1>4. OwnerWorks'
    BY <1>1, <1>2 DEF OwnerWorks
<1>5. RequestsMakeSense'
    <2> SUFFICES ASSUME NEW q \in Handlers
                 PROVE  /\ tx'[q].op = "import" =>
                              tx'[q].type \in Types /\ Distinct(tx'[q].rule, tx'[q].rows)
                        /\ tx'[q].op \in {"edit", "archive"} => tx'[q].base \in DOMAIN bases
                        /\ tx'[q].op = "edit" => tx'[q].type \in Types
                        /\ tx'[q].op = "rules" => tx'[q].rule \in Rules
        BY DEF RequestsMakeSense, Distinct
    <2>1. CASE q = p
        BY <1>2, <2>1
    <2>2. CASE q # p
        <3>1. /\ tx[q].op = "import" => tx[q].type \in Types /\ Distinct(tx[q].rule, tx[q].rows)
              /\ tx[q].op \in {"edit", "archive"} => tx[q].base \in DOMAIN bases
              /\ tx[q].op = "edit" => tx[q].type \in Types
              /\ tx[q].op = "rules" => tx[q].rule \in Rules
            BY <1>1 DEF RequestsMakeSense, Distinct
        <3> QED BY <1>2, <2>2, <3>1
    <2> QED BY <2>1, <2>2
<1>6. ImportIsCurrent'
    <2> SUFFICES ASSUME NEW q \in Handlers, owner' = q, tx'[q].op = "import"
                 PROVE  /\ tx'[q].rule = rule
                        /\ tx'[q].file \in files'
                        /\ \A b \in DOMAIN bases : bases[b].file # None => bases[b].file # tx'[q].file
        BY DEF ImportIsCurrent, Holds
    <2>1. CASE q = p
        BY <1>2, <2>1
    <2>2. CASE q # p
        BY <1>1, <1>2, <2>2 DEF ImportIsCurrent, Holds
    <2> QED BY <2>1, <2>2
<1>7. BaseHasItsFile' /\ GoodBases(bases, rule)'
    BY <1>1 DEF BaseHasItsFile
<1> QED BY <1>3, <1>4, <1>5, <1>6, <1>7 DEF CatalogInv

LEMMA CatalogAskKeeps ==
    ASSUME CatalogInv, NEW p \in Handlers, CatalogAsk(p)
    PROVE  CatalogInv' /\ bases' = bases
<1> USE NoneAssumption
<1>1. /\ tx \in [Handlers -> Requests] /\ files \subseteq Uploads /\ bases \in Seq(BaseStates)
      /\ rule \in Rules
    BY DEF CatalogInv, CatalogTypes
<1>2. CASE ImportRead(p)
    <2>1. PICK t \in Types, rows \in SUBSET Rows \ {{}} :
             /\ OnePerIdentity({MemberOf(rule, row) : row \in rows})
             /\ tx[p] = Idle
             /\ tx' = [tx EXCEPT ![p] = [Idle EXCEPT !.op = "import", !.type = t,
                                                     !.rows = rows, !.rule = rule]]
             /\ UNCHANGED <<rule, bases, files, owner>>
        BY <1>2 DEF ImportRead
    <2> DEFINE r == [Idle EXCEPT !.op = "import", !.type = t, !.rows = rows, !.rule = rule]
    <2>2. /\ r \in Requests /\ r.op = "import" /\ r.type = t /\ r.rows = rows /\ r.rule = rule
        BY <1>1 DEF Idle, Requests
    <2>3. tx' = [tx EXCEPT ![p] = r] /\ Distinct(rule, rows)
        BY <2>1 DEF Distinct
    <2>4. owner # p
        BY <2>1, IdleTyped DEF CatalogInv, OwnerWorks
    <2> HIDE DEF r
    <2> QED BY <1>1, <2>1, <2>2, <2>3, <2>4, AskedKeeps
<1>3. CASE EditLock(p)
    <2>1. PICK b \in DOMAIN bases, t \in Types : Locks(p, [Idle EXCEPT !.op = "edit", !.base = b, !.type = t])
        BY <1>3 DEF EditLock
    <2> DEFINE r == [Idle EXCEPT !.op = "edit", !.base = b, !.type = t]
    <2>2. r \in Requests /\ r.op = "edit" /\ r.type = t /\ r.base = b
        <3>1. b \in Nat
            BY <1>1
        <3> QED BY <3>1 DEF Idle, Requests
    <2>3. Locks(p, r)
        BY <2>1
    <2> HIDE DEF r
    <2> QED BY <1>1, <2>2, <2>3, AskedKeeps DEF Locks, TakesCatalog
<1>4. CASE ArchiveLock(p)
    <2>1. PICK b \in DOMAIN bases : Locks(p, [Idle EXCEPT !.op = "archive", !.base = b])
        BY <1>4 DEF ArchiveLock
    <2> DEFINE r == [Idle EXCEPT !.op = "archive", !.base = b]
    <2>2. r \in Requests /\ r.op = "archive" /\ r.base = b
        <3>1. b \in Nat
            BY <1>1
        <3> QED BY <3>1 DEF Idle, Requests
    <2>3. Locks(p, r)
        BY <2>1
    <2> HIDE DEF r
    <2> QED BY <1>1, <2>2, <2>3, AskedKeeps DEF Locks, TakesCatalog
<1>5. CASE RulesLock(p)
    <2>1. PICK k \in Rules : Locks(p, [Idle EXCEPT !.op = "rules", !.rule = k])
        BY <1>5 DEF RulesLock
    <2> DEFINE r == [Idle EXCEPT !.op = "rules", !.rule = k]
    <2>2. r \in Requests /\ r.op = "rules" /\ r.rule = k
        BY <1>1 DEF Idle, Requests
    <2>3. Locks(p, r)
        BY <2>1
    <2> HIDE DEF r
    <2> QED BY <1>1, <2>2, <2>3, AskedKeeps DEF Locks, TakesCatalog
<1> QED BY <1>2, <1>3, <1>4, <1>5 DEF CatalogAsk

\* The file of an upload that takes the catalog is new.
LEMMA ImportLockKeeps ==
    ASSUME CatalogInv, NEW p \in Handlers, ImportLock(p)
    PROVE  CatalogInv' /\ bases' = bases
<1> DEFINE f == NewFile(tx[p].rows)
           r == [tx[p] EXCEPT !.file = f]
<1>1. /\ tx[p].op = "import" /\ tx[p].rule = rule /\ 1 .. MaxNonce \ Nonces # {}
      /\ owner = None /\ owner' = p /\ files' = files \cup {f}
      /\ tx' = [tx EXCEPT ![p] = r] /\ UNCHANGED <<rule, bases>>
    BY DEF ImportLock, RulesStill, TakesCatalog
<1>2. /\ tx[p] \in Requests /\ files \subseteq Uploads
    BY DEF CatalogInv, CatalogTypes
<1>3. f.nonce \in 1 .. MaxNonce \ Nonces /\ f \in Uploads
    <2>1. (CHOOSE n \in 1 .. MaxNonce : n \notin Nonces) \in 1 .. MaxNonce \ Nonces
        BY <1>1
    <2>2. tx[p].rows \in SUBSET Rows
        BY <1>2 DEF Requests
    <2> QED BY <2>1, <2>2 DEF NewFile, Uploads
<1>4. \A b \in DOMAIN bases : bases[b].file # None => bases[b].file # f
    BY <1>3 DEF Nonces
<1> HIDE DEF f
<1>5. /\ r \in Requests /\ r.op = "import" /\ r.file = f /\ r.rule = rule
      /\ r.type = tx[p].type /\ r.rows = tx[p].rows
    BY <1>1, <1>2, <1>3 DEF Requests
<1>6. r.type \in Types /\ Distinct(r.rule, r.rows)
    <2>1. tx[p].type \in Types /\ Distinct(tx[p].rule, tx[p].rows)
        BY <1>1 DEF CatalogInv, RequestsMakeSense, Distinct
    <2> QED BY <1>1, <1>5, <2>1
<1> HIDE DEF r
<1>7. None \notin Handlers
    BY NoneAssumption
<1>8. files \subseteq files' /\ files' \subseteq Uploads
    BY <1>1, <1>2, <1>3
<1> QED BY <1>1, <1>3, <1>4, <1>5, <1>6, <1>7, <1>8, AskedKeeps

LEMMA CatalogWorkKeeps ==
    ASSUME CatalogInv, NEW p \in Handlers, CatalogWork(p) \/ ImportFails(p) \/ Crash(p)
    PROVE  CatalogInv' /\ Grown(bases, bases')
BY ImportLockKeeps, ImportCommitKeeps, EditKeeps, EndingKeeps DEF CatalogWork, Grown

LEMMA InitCatalog == Init => CatalogInv
<1> SUFFICES ASSUME Init PROVE CatalogInv
    OBVIOUS
<1>1. /\ rule \in Rules /\ files = {} /\ owner = None /\ tx = [p \in Handlers |-> Idle]
      /\ bases = <<>> \/ bases = <<LegacyBase(Rows)>>
    BY DEF Init
<1>2. LegacyBase(Rows) \in BaseStates /\ LegacyBase(Rows).type = None /\ LegacyBase(Rows).file = None
    BY DEF LegacyBase, BaseStates, Members, Identities
<1>3. bases \in Seq(BaseStates) /\ \A b \in DOMAIN bases : bases[b].type = None /\ bases[b].file = None
    <2> DEFINE x == LegacyBase(Rows)
    <2>1. x \in BaseStates /\ x.type = None /\ x.file = None
        BY <1>2
    <2>2. bases = <<>> \/ bases = <<x>>
        BY <1>1
    <2> HIDE DEF x
    <2>3. CASE bases = <<>>
        BY <2>3
    <2>4. CASE bases = <<x>>
        <3>1. bases \in Seq(BaseStates) /\ \A b \in DOMAIN bases : bases[b] = x
            BY <2>1, <2>4
        <3> QED BY <2>1, <3>1
    <2> QED BY <2>2, <2>3, <2>4
<1>4. ActiveTypedOf(bases) = {} /\ \A t \in Types : ActiveOf(bases, t) = {}
    BY <1>3, NoneIsNoType DEF ActiveTypedOf, ActiveOf
<1>5. GoodBases(bases, rule) /\ BaseHasItsFile
    BY <1>3, <1>4 DEF GoodBases, BaseHasItsFile
<1>6. CatalogTypes
    BY <1>1, <1>3, IdleTyped DEF CatalogTypes
<1>7. OwnerWorks /\ RequestsMakeSense /\ ImportIsCurrent
    BY <1>1, NoneAssumption, IdleTyped DEF OwnerWorks, RequestsMakeSense, ImportIsCurrent, Holds
<1> QED BY <1>5, <1>6, <1>7 DEF CatalogInv

\* A step that leaves the catalog and its requests alone, and gives its lock
\* to nobody who serves one.
LEMMA StillKeeps ==
    ASSUME CatalogInv, UNCHANGED <<rule, bases, files, tx>>,
           \A q \in Handlers : owner' = q => owner = q
    PROVE  CatalogInv'
BY DEF CatalogInv, CatalogTypes, OwnerWorks, RequestsMakeSense, ImportIsCurrent, Holds, BaseHasItsFile

-----------------------------------------------------------------------------
(* The catalog alone *)

LEMMA CatalogNext == CatalogInv /\ [Next]_catVars => CatalogInv'
<1> SUFFICES ASSUME CatalogInv, [Next]_catVars PROVE CatalogInv'
    OBVIOUS
<1>1. CASE UNCHANGED catVars
    BY <1>1, StillKeeps DEF catVars
<1>2. CASE Next
    BY <1>2, CatalogAskKeeps, CatalogWorkKeeps, ArchiveKeeps DEF Next
<1> QED BY <1>1, <1>2

\* The catalog keeps its invariant through every interleaving of its requests,
\* failed imports and dead processes included.
THEOREM CatalogIsInv == Spec => []CatalogInv
BY InitCatalog, CatalogNext, PTL DEF Spec

LEMMA InvFollowsRule == CatalogInv => IdentitiesFollowRule
BY DEF CatalogInv, GoodBases, Follows, IdentitiesFollowRule, ActiveTyped, ActiveTypedOf

LEMMA InvHoldsAll == CatalogInv => GeneralHoldsAll
<1> SUFFICES ASSUME CatalogInv PROVE GeneralHoldsAll
    OBVIOUS
<1>1. ASSUME NEW t \in Types PROVE Cardinality(ActiveOf(bases, t)) <= 1
    <2>1. \A a, b \in ActiveOf(bases, t) : a = b
        BY DEF CatalogInv, GoodBases
    <2>2. CASE ActiveOf(bases, t) = {}
        BY <2>2, FS_EmptySet
    <2>3. CASE ActiveOf(bases, t) # {}
        <3>1. PICK a \in ActiveOf(bases, t) : TRUE
            BY <2>3
        <3>2. ActiveOf(bases, t) = {a}
            BY <2>1, <3>1
        <3> QED BY <3>2, FS_Singleton
    <2> QED BY <2>2, <2>3
<1> QED BY <1>1 DEF CatalogInv, GoodBases, GeneralHoldsAll, ActiveTyped, ActiveTypedOf

\* People of an active classified base are told apart by the rule in force,
\* whatever uploads, edits, removals and changes of the rules are under way
\* (datasets.py import_dataset, edit_dataset; web.py, the rules of an
\* agreement).
THEOREM MembersFollowTheRule == Spec => []IdentitiesFollowRule
BY CatalogIsInv, InvFollowsRule, PTL

\* No type has two active bases, and General knows the people of them all
\* (datasets.py _ensure_general, _sync_general, archive_dataset).
THEOREM GeneralKnowsEveryone == Spec => []GeneralHoldsAll
BY CatalogIsInv, InvHoldsAll, PTL

\* The file of a base stays: an import that fails removes its own, which no
\* base names (datasets.py import_dataset, its clean-up).
THEOREM BasesKeepTheirFiles == Spec => []BaseHasItsFile
<1>1. CatalogInv => BaseHasItsFile
    BY DEF CatalogInv
<1> QED BY <1>1, CatalogIsInv, PTL

-----------------------------------------------------------------------------
(* The catalog under the schedules *)

ScheduleRows == [on : BOOLEAN, base : Nat, next : Nat]
ScheduleRequests ==
    [op : {"idle", "patch", "execute"}, base : Nat, sched : Nat, key : Keys \cup {None}]
Ticks == [now : Times, rows : SUBSET Nat, todo : SUBSET Nat, done : SUBSET Nat]

\* A schedule names a base that is there, and not a removed one if it is on.
SchedsAreRight ==
    /\ scheds \in Seq(ScheduleRows)
    /\ \A s \in DOMAIN scheds :
          /\ scheds[s].base \in DOMAIN bases
          /\ scheds[s].on => bases[scheds[s].base].status # "archived"

\* So do the requests about schedules and the ticks.
AsksAreRight ==
    /\ req \in [Handlers -> ScheduleRequests]
    /\ \A p \in Handlers :
          /\ req[p].op \in {"patch", "execute"} => req[p].base \in DOMAIN bases
          /\ req[p].op = "patch" => req[p].sched \in DOMAIN scheds
          /\ req[p].op = "execute" => req[p].key \in Keys

TicksAreRight ==
    /\ run \in [Schedulers -> Ticks]
    /\ \A p \in Schedulers : run[p].rows \cup run[p].todo \cup run[p].done \subseteq DOMAIN scheds

ScheduleInv ==
    /\ CatalogInv
    /\ SchedsAreRight
    /\ AsksAreRight
    /\ TicksAreRight

LEMMA QuietTyped ==
    /\ Quiet \in ScheduleRequests /\ Quiet.op = "idle"
    /\ NoTick \in Ticks /\ NoTick.rows = {} /\ NoTick.todo = {} /\ NoTick.done = {}
BY SchedulesAssumption DEF Quiet, ScheduleRequests, NoTick, Ticks, Times

LEMMA InitSchedule == InitSchedules => ScheduleInv
BY InitCatalog, QuietTyped DEF InitSchedules, ScheduleInv, SchedsAreRight, AsksAreRight, TicksAreRight

\* What a step leaves alone stays right when bases and schedules stay.
LEMMA KeptRows ==
    ASSUME ScheduleInv, Grown(bases, bases'), DOMAIN scheds \subseteq DOMAIN scheds'
    PROVE  /\ scheds' = scheds => SchedsAreRight'
           /\ req' = req => AsksAreRight'
           /\ run' = run => TicksAreRight'
<1>1. ASSUME scheds' = scheds PROVE SchedsAreRight'
    BY <1>1 DEF ScheduleInv, SchedsAreRight, Grown
<1>2. ASSUME req' = req PROVE AsksAreRight'
    BY <1>2 DEF ScheduleInv, AsksAreRight, Grown
<1>3. ASSUME run' = run PROVE TicksAreRight'
    BY <1>3 DEF ScheduleInv, TicksAreRight
<1> QED BY <1>1, <1>2, <1>3

LEMMA StillGrown == CatalogStill => Grown(bases, bases')
BY DEF CatalogStill, Grown

\* A step of the schedules that takes the catalog for no handler.
LEMMA StillInv ==
    ASSUME ScheduleInv, CatalogStill, owner' = owner \/ owner' \in Schedulers \cup {None}
    PROVE  CatalogInv' /\ Grown(bases, bases')
<1>1. \A q \in Handlers : owner' = q => owner = q
    BY NoneAssumption, SchedulesAssumption
<1> QED BY <1>1, StillKeeps, StillGrown DEF ScheduleInv, CatalogStill

LEMMA AskedRows ==
    ASSUME ScheduleInv, NEW p \in Handlers, CreateSchedule(p) \/ Disable(p)
    PROVE  ScheduleInv'
<1>1. /\ CatalogStill /\ UNCHANGED <<req, run, owner>>
    BY DEF CreateSchedule, Disable
<1>2. CatalogInv' /\ Grown(bases, bases')
    BY <1>1, StillInv
<1>3. CASE CreateSchedule(p)
    <2>1. PICK b \in DOMAIN bases, now \in Now :
             /\ BaseReady(b)
             /\ scheds' = Append(scheds, [on |-> TRUE, base |-> b, next |-> NextDue(now)])
        BY <1>3 DEF CreateSchedule
    <2> DEFINE x == [on |-> TRUE, base |-> b, next |-> NextDue(now)]
    <2>2. bases \in Seq(BaseStates) /\ scheds \in Seq(ScheduleRows) /\ now \in Nat
        BY DEF ScheduleInv, CatalogInv, CatalogTypes, SchedsAreRight, Now, Times
    <2>3. x \in ScheduleRows /\ x.base = b
        BY <2>2 DEF ScheduleRows, NextDue
    <2>4. scheds' = Append(scheds, x) /\ bases[b].status # "archived" /\ bases' = bases
        BY <1>1, <2>1 DEF BaseReady, CatalogStill
    <2> HIDE DEF x
    <2>5. /\ scheds' \in Seq(ScheduleRows) /\ DOMAIN scheds \subseteq DOMAIN scheds'
          /\ \A s \in DOMAIN scheds' : (s \in DOMAIN scheds /\ scheds'[s] = scheds[s]) \/ scheds'[s] = x
        BY <2>2, <2>3, <2>4
    <2>6. SchedsAreRight'
        BY <2>3, <2>4, <2>5 DEF ScheduleInv, SchedsAreRight
    <2> QED BY <1>1, <1>2, <2>5, <2>6, KeptRows DEF ScheduleInv
<1>4. CASE Disable(p)
    <2>1. PICK s \in DOMAIN scheds : scheds' = [scheds EXCEPT ![s] = [@ EXCEPT !.on = FALSE]]
        BY <1>4 DEF Disable
    <2> DEFINE x == [scheds[s] EXCEPT !.on = FALSE]
    <2>2. scheds \in Seq(ScheduleRows) /\ scheds[s] \in ScheduleRows
        BY DEF ScheduleInv, SchedsAreRight
    <2>3. x \in ScheduleRows /\ x.base = scheds[s].base /\ x.on = FALSE
        BY <2>2 DEF ScheduleRows
    <2>4. scheds' = [scheds EXCEPT ![s] = x] /\ bases' = bases
        BY <1>1, <2>1 DEF CatalogStill
    <2> HIDE DEF x
    <2>5. /\ scheds' \in Seq(ScheduleRows) /\ DOMAIN scheds = DOMAIN scheds' /\ scheds'[s] = x
          /\ \A u \in DOMAIN scheds : u # s => scheds'[u] = scheds[u]
        BY <2>2, <2>3, <2>4
    <2>6. SchedsAreRight'
        BY <2>3, <2>4, <2>5 DEF ScheduleInv, SchedsAreRight
    <2> QED BY <1>1, <1>2, <2>5, <2>6, KeptRows DEF ScheduleInv
<1> QED BY <1>3, <1>4

LEMMA AskedRequests ==
    ASSUME ScheduleInv, NEW p \in Handlers, PatchAsk(p) \/ ExecuteAsk(p)
    PROVE  ScheduleInv'
<1>1. /\ CatalogStill /\ UNCHANGED <<scheds, run, owner>>
    BY DEF PatchAsk, ExecuteAsk
<1>2. CatalogInv' /\ Grown(bases, bases') /\ bases' = bases
    BY <1>1, StillInv DEF CatalogStill
<1>3. /\ req \in [Handlers -> ScheduleRequests] /\ bases \in Seq(BaseStates)
      /\ scheds \in Seq(ScheduleRows)
    BY DEF ScheduleInv, CatalogInv, CatalogTypes, SchedsAreRight, AsksAreRight
<1>4. PICK r \in ScheduleRequests : /\ req' = [req EXCEPT ![p] = r]
                                    /\ r.op \in {"patch", "execute"} => r.base \in DOMAIN bases
                                    /\ r.op = "patch" => r.sched \in DOMAIN scheds
                                    /\ r.op = "execute" => r.key \in Keys
    <2>1. CASE PatchAsk(p)
        <3>1. PICK s \in DOMAIN scheds, b \in DOMAIN bases :
                 Asks(p, [Quiet EXCEPT !.op = "patch", !.sched = s, !.base = b])
            BY <2>1 DEF PatchAsk
        <3>2. b \in Nat /\ s \in Nat
            BY <1>3
        <3> DEFINE r == [Quiet EXCEPT !.op = "patch", !.sched = s, !.base = b]
        <3>3. r \in ScheduleRequests /\ r.op = "patch" /\ r.sched = s /\ r.base = b
            BY <3>2 DEF Quiet, ScheduleRequests
        <3>4. req' = [req EXCEPT ![p] = r]
            BY <3>1 DEF Asks
        <3> HIDE DEF r
        <3> QED BY <3>3, <3>4
    <2>2. CASE ExecuteAsk(p)
        <3>1. PICK k \in Keys, b \in DOMAIN bases :
                 Asks(p, [Quiet EXCEPT !.op = "execute", !.key = k, !.base = b])
            BY <2>2 DEF ExecuteAsk
        <3>2. b \in Nat
            BY <1>3
        <3> DEFINE r == [Quiet EXCEPT !.op = "execute", !.key = k, !.base = b]
        <3>3. r \in ScheduleRequests /\ r.op = "execute" /\ r.key = k /\ r.base = b
            BY <3>2 DEF Quiet, ScheduleRequests
        <3>4. req' = [req EXCEPT ![p] = r]
            BY <3>1 DEF Asks
        <3> HIDE DEF r
        <3> QED BY <3>3, <3>4
    <2> QED BY <2>1, <2>2
<1>5. AsksAreRight'
    <2>1. req' \in [Handlers -> ScheduleRequests] /\ \A q \in Handlers : req'[q] = IF q = p THEN r ELSE req[q]
        BY <1>3, <1>4
    <2> QED BY <1>1, <1>2, <1>4, <2>1 DEF ScheduleInv, AsksAreRight
<1> QED BY <1>1, <1>2, <1>5, KeptRows DEF ScheduleInv

LEMMA RepliedRows ==
    ASSUME ScheduleInv, NEW p \in Handlers, Replies(p), Grown(bases, bases'),
           DOMAIN scheds \subseteq DOMAIN scheds'
    PROVE  AsksAreRight' /\ owner' \in {owner, None}
<1>1. req' = [req EXCEPT ![p] = Quiet] /\ owner' \in {owner, None}
    BY DEF Replies
<1>2. req \in [Handlers -> ScheduleRequests]
    BY DEF ScheduleInv, AsksAreRight
<1>3. /\ req' \in [Handlers -> ScheduleRequests]
      /\ \A q \in Handlers : req'[q] = IF q = p THEN Quiet ELSE req[q]
    BY <1>1, <1>2, QuietTyped
<1> QED BY <1>1, <1>3, QuietTyped DEF ScheduleInv, AsksAreRight, Grown

LEMMA TickedRows ==
    ASSUME ScheduleInv, NEW p \in Schedulers, NEW r \in Ticks, run' = [run EXCEPT ![p] = r],
           r.rows \cup r.todo \cup r.done \subseteq DOMAIN scheds,
           DOMAIN scheds \subseteq DOMAIN scheds'
    PROVE  TicksAreRight'
<1>1. run \in [Schedulers -> Ticks]
    BY DEF ScheduleInv, TicksAreRight
<1>2. /\ run' \in [Schedulers -> Ticks]
      /\ \A q \in Schedulers : run'[q] = IF q = p THEN r ELSE run[q]
    BY <1>1
<1> QED BY <1>2 DEF ScheduleInv, TicksAreRight

LEMMA AnsweredRows ==
    ASSUME ScheduleInv, NEW p \in Handlers, UpdateSchedule(p) \/ Execute(p) \/ RequestDies(p)
    PROVE  ScheduleInv'
<1>1. Replies(p) /\ CatalogStill /\ run' = run
    BY DEF UpdateSchedule, Execute, RequestDies
<1>2. owner' \in {owner, None}
    BY <1>1 DEF Replies
<1>3. CatalogInv' /\ Grown(bases, bases') /\ bases' = bases
    BY <1>1, <1>2, StillInv DEF CatalogStill
<1>4. SchedsAreRight' /\ DOMAIN scheds \subseteq DOMAIN scheds'
    <2>1. CASE scheds' = scheds
        BY <1>3, <2>1, KeptRows
    <2>2. CASE scheds' # scheds
        <3> DEFINE s == req[p].sched
                   b == req[p].base
        <3>1. PICK now \in Now, on \in BOOLEAN :
                 scheds' = [scheds EXCEPT ![s] = [on |-> on, base |-> b, next |-> NextDue(now)]]
            BY <2>2 DEF UpdateSchedule, Execute, RequestDies
        <3>2. req[p].op = "patch" /\ BaseReady(b)
            BY <2>2 DEF UpdateSchedule, Execute, RequestDies
        <3>3. s \in DOMAIN scheds /\ b \in DOMAIN bases /\ now \in Nat
            BY <3>2 DEF ScheduleInv, AsksAreRight, Now, Times
        <3>4. bases \in Seq(BaseStates) /\ scheds \in Seq(ScheduleRows)
            BY DEF ScheduleInv, CatalogInv, CatalogTypes, SchedsAreRight
        <3> HIDE DEF s, b
        <3> DEFINE x == [on |-> on, base |-> b, next |-> NextDue(now)]
        <3>5. b \in Nat
            BY <3>3, <3>4
        <3>6. x \in ScheduleRows /\ x.base = b
            BY <3>3, <3>5 DEF ScheduleRows, NextDue
        <3>7. scheds' = [scheds EXCEPT ![s] = x] /\ bases[b].status # "archived"
            BY <3>1, <3>2 DEF BaseReady
        <3> HIDE DEF x
        <3>8. /\ scheds' \in Seq(ScheduleRows) /\ DOMAIN scheds = DOMAIN scheds' /\ scheds'[s] = x
              /\ \A u \in DOMAIN scheds : u # s => scheds'[u] = scheds[u]
            BY <3>3, <3>4, <3>6, <3>7
        <3> QED BY <1>3, <3>3, <3>6, <3>7, <3>8 DEF ScheduleInv, SchedsAreRight
    <2> QED BY <2>1, <2>2
<1> QED BY <1>1, <1>3, <1>4, KeptRows, RepliedRows DEF ScheduleInv

\* A removed base takes its schedules with it.
LEMMA ArchivedRows ==
    ASSUME ScheduleInv, NEW p \in Handlers, ArchiveSteps(p)
    PROVE  ScheduleInv'
<1> DEFINE b == tx[p].base
           mine == {s \in DOMAIN scheds : scheds[s].base = b}
<1>1. Archive(p) /\ UNCHANGED <<req, run>>
    BY DEF ArchiveSteps
<1>2. /\ CatalogInv' /\ b \in DOMAIN bases /\ DOMAIN bases' = DOMAIN bases
      /\ \A c \in DOMAIN bases : bases'[c].status = bases[c].status \/ (c = b /\ MayArchive(c))
    BY <1>1, ArchiveKeeps DEF ScheduleInv
<1>3. scheds \in Seq(ScheduleRows) /\ \A s \in DOMAIN scheds : scheds[s] \in ScheduleRows
    BY DEF ScheduleInv, SchedsAreRight
<1>4. /\ scheds' \in Seq(ScheduleRows) /\ DOMAIN scheds' = DOMAIN scheds
      /\ \A s \in DOMAIN scheds : /\ scheds'[s].base = scheds[s].base
                                  /\ scheds'[s].on => scheds[s].on /\ (MayArchive(b) => scheds[s].base # b)
    <2>1. CASE MayArchive(b)
        <3> DEFINE off(s) == [scheds[s] EXCEPT !.on = FALSE]
        <3>1. \A s \in DOMAIN scheds : /\ off(s) \in ScheduleRows
                                       /\ off(s).base = scheds[s].base /\ off(s).on = FALSE
            BY <1>3 DEF ScheduleRows
        <3>2. scheds' = [s \in DOMAIN scheds |-> IF s \in mine THEN off(s) ELSE scheds[s]]
            BY <2>1 DEF ArchiveSteps
        <3> HIDE DEF off
        <3>3. /\ DOMAIN scheds' = DOMAIN scheds
              /\ \A s \in DOMAIN scheds : scheds'[s] = IF s \in mine THEN off(s) ELSE scheds[s]
            BY <3>2
        <3>4. scheds' \in Seq(ScheduleRows)
            <4>1. DOMAIN scheds = 1 .. Len(scheds) /\ Len(scheds) \in Nat
                BY <1>3
            <4>2. \A s \in 1 .. Len(scheds) : (IF s \in mine THEN off(s) ELSE scheds[s]) \in ScheduleRows
                BY <1>3, <3>1, <4>1
            <4>3. scheds' = [s \in 1 .. Len(scheds) |-> IF s \in mine THEN off(s) ELSE scheds[s]]
                BY <3>2, <4>1
            <4> HIDE DEF mine
            <4>4. scheds' \in [1 .. Len(scheds) -> ScheduleRows]
                BY <4>2, <4>3
            <4> QED BY <4>1, <4>4
        <3> QED BY <3>1, <3>3, <3>4
    <2>2. CASE ~MayArchive(b)
        BY <1>3, <2>2 DEF ArchiveSteps
    <2> QED BY <2>1, <2>2
<1>5. SchedsAreRight'
    BY <1>2, <1>4 DEF ScheduleInv, SchedsAreRight
<1>6. AsksAreRight' /\ TicksAreRight'
    BY <1>1, <1>2, <1>4 DEF ScheduleInv, AsksAreRight, TicksAreRight
<1> QED BY <1>2, <1>5, <1>6 DEF ScheduleInv

LEMMA AbortedRows ==
    ASSUME ScheduleInv, DeadlockAborts
    PROVE  ScheduleInv' /\ UNCHANGED bases
<1>1. PICK p \in Handlers, q \in Handlers : (Answered(p) /\ UNCHANGED req) \/ (Replies(q) /\ UNCHANGED tx)
    BY DEF DeadlockAborts
<1>2. UNCHANGED <<rule, bases, files, scheds, run>>
    BY DEF DeadlockAborts
<1>3. Grown(bases, bases')
    BY <1>2 DEF Grown
<1>4. CASE Answered(p) /\ UNCHANGED req
    <2>1. /\ rule \in Rules /\ bases \in Seq(BaseStates) /\ files \subseteq Uploads
          /\ BaseHasItsFile /\ GoodBases(bases, rule)
        BY DEF ScheduleInv, CatalogInv, CatalogTypes
    <2>2. BaseHasItsFile' /\ GoodBases(bases, rule)'
        BY <1>2, <2>1 DEF BaseHasItsFile
    <2>3. CatalogInv'
        BY <1>2, <1>4, <2>1, <2>2, AnsweredKeeps DEF ScheduleInv
    <2> QED BY <1>2, <1>3, <1>4, <2>3, KeptRows DEF ScheduleInv
<1>5. CASE Replies(q) /\ UNCHANGED tx
    BY <1>2, <1>3, <1>5, StillInv, RepliedRows, KeptRows DEF ScheduleInv, CatalogStill
<1> QED BY <1>1, <1>2, <1>4, <1>5

LEMMA TickRows ==
    ASSUME ScheduleInv, NEW p \in Schedulers,
           TickBegin(p) \/ TickTake(p) \/ TickCommit(p) \/ TickFails(p)
    PROVE  ScheduleInv'
<1>1. CatalogStill /\ req' = req /\ owner' \in {owner, None, p}
    BY DEF TickBegin, TickTake, TickCommit, TickFails
<1>2. CatalogInv' /\ Grown(bases, bases') /\ bases' = bases
    BY <1>1, StillInv DEF CatalogStill
<1>3. /\ scheds \in Seq(ScheduleRows) /\ run[p] \in Ticks
      /\ run[p].rows \cup run[p].todo \cup run[p].done \subseteq DOMAIN scheds
      /\ \A s \in DOMAIN scheds : scheds[s] \in ScheduleRows
    BY DEF ScheduleInv, SchedsAreRight, TicksAreRight
<1>4. CASE TickBegin(p)
    <2>1. PICK now \in Now :
             run' = [run EXCEPT ![p] = [NoTick EXCEPT !.now = now, !.rows = Due(now), !.todo = Due(now)]]
        BY <1>4 DEF TickBegin
    <2> DEFINE r == [NoTick EXCEPT !.now = now, !.rows = Due(now), !.todo = Due(now)]
    <2>2. now \in Times /\ Due(now) \subseteq DOMAIN scheds /\ Due(now) \in SUBSET Nat
        BY <1>3 DEF Now, Due
    <2>3. r \in Ticks /\ r.rows = Due(now) /\ r.todo = Due(now) /\ r.done = {}
        BY <2>2 DEF NoTick, Ticks
    <2>4. run' = [run EXCEPT ![p] = r] /\ scheds' = scheds
        BY <1>4, <2>1 DEF TickBegin
    <2> HIDE DEF r
    <2> QED BY <1>1, <1>2, <2>2, <2>3, <2>4, KeptRows, TickedRows DEF ScheduleInv
<1>5. CASE TickTake(p)
    <2> DEFINE free == owner \in {None, p}
    <2>1. PICK s \in run[p].todo :
             run' = [run EXCEPT ![p] = [run[p] EXCEPT !.todo = @ \ {s},
                                                      !.done = IF free THEN @ \cup {s} ELSE @]]
        BY <1>5 DEF TickTake
    <2> DEFINE r == [run[p] EXCEPT !.todo = @ \ {s}, !.done = IF free THEN @ \cup {s} ELSE @]
    <2> HIDE DEF free
    <2>2. s \in DOMAIN scheds /\ s \in Nat
        BY <1>3
    <2>3. r \in Ticks /\ r.rows \cup r.todo \cup r.done \subseteq DOMAIN scheds
        BY <1>3, <2>2 DEF Ticks
    <2>4. run' = [run EXCEPT ![p] = r] /\ scheds' = scheds
        BY <1>5, <2>1 DEF TickTake
    <2> HIDE DEF r
    <2> QED BY <1>1, <1>2, <2>3, <2>4, KeptRows, TickedRows DEF ScheduleInv
<1>6. ASSUME run' = [run EXCEPT ![p] = NoTick], DOMAIN scheds' = DOMAIN scheds
      PROVE  TicksAreRight'
    BY <1>6, QuietTyped, TickedRows
<1>7. CASE TickCommit(p)
    <2> DEFINE again(s) == [scheds[s] EXCEPT !.next = NextDue(run[p].now)]
               done == run[p].done
    <2>1. /\ scheds' = [s \in DOMAIN scheds |-> IF s \in done THEN again(s) ELSE scheds[s]]
          /\ run' = [run EXCEPT ![p] = NoTick]
        BY <1>7 DEF TickCommit
    <2>2. NextDue(run[p].now) \in Nat
        BY <1>3 DEF Ticks, Times, NextDue
    <2>3. \A s \in DOMAIN scheds : /\ again(s) \in ScheduleRows
                                   /\ again(s).base = scheds[s].base /\ again(s).on = scheds[s].on
        BY <1>3, <2>2 DEF ScheduleRows
    <2> HIDE DEF again, done
    <2>4. /\ DOMAIN scheds' = DOMAIN scheds
          /\ \A s \in DOMAIN scheds : scheds'[s].base = scheds[s].base /\ scheds'[s].on = scheds[s].on
        BY <2>1, <2>3
    <2>5. scheds' \in Seq(ScheduleRows)
        <3>1. DOMAIN scheds = 1 .. Len(scheds) /\ Len(scheds) \in Nat
            BY <1>3
        <3>2. \A s \in 1 .. Len(scheds) : (IF s \in done THEN again(s) ELSE scheds[s]) \in ScheduleRows
            BY <1>3, <2>3, <3>1
        <3>3. scheds' = [s \in 1 .. Len(scheds) |-> IF s \in done THEN again(s) ELSE scheds[s]]
            BY <2>1, <3>1
        <3>4. scheds' \in [1 .. Len(scheds) -> ScheduleRows]
            BY <3>2, <3>3
        <3> QED BY <3>1, <3>4
    <2>6. SchedsAreRight'
        BY <1>2, <2>4, <2>5 DEF ScheduleInv, SchedsAreRight
    <2> QED BY <1>1, <1>2, <1>6, <2>1, <2>4, <2>6, KeptRows DEF ScheduleInv
<1>8. CASE TickFails(p)
    BY <1>1, <1>2, <1>6, <1>8, KeptRows DEF TickFails, ScheduleInv
<1> QED BY <1>4, <1>5, <1>7, <1>8

LEMMA ScheduleNext == ScheduleInv /\ [NextSchedules]_vars => ScheduleInv'
<1> SUFFICES ASSUME ScheduleInv, [NextSchedules]_vars PROVE ScheduleInv'
    OBVIOUS
<1>1. ASSUME CatalogInv', Grown(bases, bases'), UNCHANGED <<scheds, req, run>>
      PROVE  ScheduleInv'
    BY <1>1, KeptRows DEF ScheduleInv
<1>2. ASSUME CatalogStill, owner' = owner, UNCHANGED <<scheds, req, run>>
      PROVE  ScheduleInv'
    BY <1>1, <1>2, StillInv
<1>3. CASE UNCHANGED vars
    BY <1>2, <1>3 DEF vars, catVars, ownVars, CatalogStill
<1>4. ASSUME NEW p \in Handlers, Ask(p)
      PROVE  ScheduleInv'
    <2>1. CASE CatalogAsk(p) /\ UNCHANGED ownVars
        BY <1>1, <2>1, CatalogAskKeeps DEF ScheduleInv, Grown, ownVars
    <2> QED BY <1>4, <2>1, AskedRows, AskedRequests DEF Ask
<1>5. ASSUME NEW p \in Handlers, Work(p)
      PROVE  ScheduleInv'
    <2>1. CASE CatalogWork(p) /\ UNCHANGED ownVars
        BY <1>1, <2>1, CatalogWorkKeeps DEF ScheduleInv, ownVars
    <2> QED BY <1>5, <2>1, ArchivedRows, AnsweredRows DEF Work
<1>6. ASSUME NEW p \in Handlers \cup Schedulers, Fail(p)
      PROVE  ScheduleInv'
    <2>1. CASE p \in Handlers /\ (ImportFails(p) \/ Crash(p)) /\ UNCHANGED ownVars
        BY <1>1, <2>1, CatalogWorkKeeps DEF ScheduleInv, ownVars
    <2> QED BY <1>6, <2>1, AnsweredRows, TickRows DEF Fail
<1>7. ASSUME NEW p \in Schedulers, TickStep(p)
      PROVE  ScheduleInv'
    BY <1>7, TickRows DEF TickStep
<1>8. CASE Tick \/ \E j \in DOMAIN jobs : JobEnds(j) \/ JobRetried(j)
    BY <1>2, <1>8 DEF Tick, JobEnds, JobRetried
<1> QED BY <1>3, <1>4, <1>5, <1>6, <1>7, <1>8, AbortedRows DEF NextSchedules, Aborts

LEMMA ScheduleIsInv == SchedulesSpec => []ScheduleInv
BY InitSchedule, ScheduleNext, PTL DEF SchedulesSpec

\* A schedule that is on never names a removed base, whatever removals, edits,
\* ticks, deadlocks and deaths come between (product_api.py archive_dataset,
\* scheduling.py update_schedule).
THEOREM EnabledSchedulesHaveBases == SchedulesSpec => []EnabledHasBase
<1>1. ScheduleInv => EnabledHasBase
    BY DEF ScheduleInv, SchedsAreRight, EnabledHasBase
<1> QED BY <1>1, ScheduleIsInv, PTL

\* What the catalog promises holds as well with the schedules and their ticks
\* taking its lock.
THEOREM SchedulesKeepTheCatalog ==
    SchedulesSpec => [](IdentitiesFollowRule /\ GeneralHoldsAll /\ BaseHasItsFile)
<1>1. ScheduleInv => IdentitiesFollowRule /\ GeneralHoldsAll /\ BaseHasItsFile
    BY InvFollowsRule, InvHoldsAll DEF ScheduleInv, CatalogInv
<1> QED BY <1>1, ScheduleIsInv, PTL


-----------------------------------------------------------------------------
(* The bound on the bases *)

\* There are no more bases than the bound, and the request that holds the
\* catalog will not open one too many.
Bounded ==
    /\ Len(bases) <= MaxBases
    /\ \A p \in Handlers :
          /\ Holds(p, "import") => Fits(WithActive(bases, tx[p].type))
          /\ Holds(p, "edit") =>
                Fits([bases EXCEPT ![tx[p].base] = [@ EXCEPT !.type = tx[p].type]])

LEMMA InitBounded == Init => Bounded
<1> SUFFICES ASSUME Init PROVE Bounded
    OBVIOUS
<1>1. owner = None /\ (bases = <<>> \/ bases = <<LegacyBase(Rows)>>)
    BY DEF Init
<1>2. Len(bases) <= MaxBases
    <2> DEFINE x == LegacyBase(Rows)
    <2>1. bases = <<>> \/ bases = <<x>>
        BY <1>1
    <2> HIDE DEF x
    <2>2. MaxBases \in Nat /\ MaxBases # 0
        BY SchedulesAssumption
    <2>3. CASE bases = <<>>
        BY <2>2, <2>3
    <2>4. CASE bases = <<x>>
        <3>1. Len(bases) = 1
            BY <2>4
        <3> QED BY <2>2, <3>1
    <2> QED BY <2>1, <2>3, <2>4
<1> QED BY <1>1, <1>2, NoneAssumption DEF Bounded, Holds

\* The bases stay, and who has the catalog had it before with the same request.
LEMMA BoundedStays ==
    ASSUME Bounded, bases' = bases,
           \A q \in Handlers : owner' = q => owner = q /\ tx'[q] = tx[q]
    PROVE  Bounded'
BY DEF Bounded, Holds

\* A request that held the catalog has been answered.
LEMMA BoundedAnswers ==
    ASSUME CatalogInv, NEW p \in Handlers, Answered(p), owner = p, Len(bases') <= MaxBases
    PROVE  Bounded'
<1>1. owner' = None
    BY AnsweredRequest
<1> QED BY <1>1, NoneAssumption DEF Bounded, Holds

LEMMA NoLonger ==
    ASSUME NEW S, NEW s \in Seq(S), NEW T, NEW u \in Seq(T), DOMAIN s \subseteq DOMAIN u
    PROVE  Len(s) <= Len(u)
<1>1. Len(s) \in Nat /\ Len(u) \in Nat /\ DOMAIN s = 1 .. Len(s) /\ DOMAIN u = 1 .. Len(u)
    OBVIOUS
<1>2. CASE Len(s) = 0
    BY <1>1, <1>2
<1>3. CASE Len(s) # 0
    <2>1. Len(s) \in DOMAIN s
        BY <1>1, <1>3
    <2> QED BY <1>1, <2>1
<1> QED BY <1>2, <1>3

LEMMA BoundedAsk ==
    ASSUME CatalogInv, Bounded, NEW p \in Handlers, CatalogAsk(p)
    PROVE  Bounded'
<1>1. tx \in [Handlers -> Requests] /\ bases' = bases
    BY CatalogAskKeeps DEF CatalogInv, CatalogTypes
<1>2. CASE ImportRead(p)
    <2>1. tx[p] = Idle /\ owner' = owner /\ owner # p
        BY <1>2, IdleTyped DEF ImportRead, CatalogInv, OwnerWorks
    <2>2. \A q \in Handlers : q # p => tx'[q] = tx[q]
        BY <1>1, <1>2 DEF ImportRead
    <2> QED BY <1>1, <2>1, <2>2, BoundedStays
<1>3. CASE EditLock(p)
    <2>1. PICK b \in DOMAIN bases, t \in Types :
             /\ Fits([bases EXCEPT ![b] = [@ EXCEPT !.type = t]])
             /\ Locks(p, [Idle EXCEPT !.op = "edit", !.base = b, !.type = t])
        BY <1>3 DEF EditLock
    <2> DEFINE r == [Idle EXCEPT !.op = "edit", !.base = b, !.type = t]
    <2>2. r.op = "edit" /\ r.base = b /\ r.type = t
        BY DEF Idle
    <2>3. owner' = p /\ tx' = [tx EXCEPT ![p] = r]
        BY <2>1 DEF Locks, TakesCatalog
    <2> HIDE DEF r
    <2>4. tx'[p] = r
        BY <1>1, <2>3
    <2> QED BY <1>1, <2>1, <2>2, <2>3, <2>4 DEF Bounded, Holds
<1>4. CASE ArchiveLock(p) \/ RulesLock(p)
    <2>1. \A b, k : /\ [Idle EXCEPT !.op = "archive", !.base = b].op = "archive"
                    /\ [Idle EXCEPT !.op = "rules", !.rule = k].op = "rules"
        BY DEF Idle
    <2>2. \E r : Locks(p, r) /\ r.op \in {"archive", "rules"}
        BY <1>4, <2>1 DEF ArchiveLock, RulesLock
    <2>3. PICK r : Locks(p, r) /\ r.op \in {"archive", "rules"}
        BY <2>2
    <2>4. owner' = p /\ tx'[p] = r
        BY <1>1, <2>3 DEF Locks, TakesCatalog
    <2> QED BY <1>1, <2>3, <2>4 DEF Bounded, Holds
<1> QED BY <1>2, <1>3, <1>4 DEF CatalogAsk

\* A retyped base leaves room for the General it asks for.
LEMMA BoundedEdit ==
    ASSUME CatalogInv, Bounded, NEW p \in Handlers, Edit(p)
    PROVE  Len(bases') <= MaxBases
<1> DEFINE b == tx[p].base
           t == tx[p].type
           typed == [bases EXCEPT ![b] = [@ EXCEPT !.type = t]]
<1>0. Fits(typed) /\ Len(bases) <= MaxBases
    <2>1. Holds(p, "edit")
        BY DEF Edit
    <2> QED BY <2>1 DEF Bounded
<1>1. /\ bases \in Seq(BaseStates) /\ b \in DOMAIN bases /\ t \in Types
      /\ Len(bases) <= MaxBases /\ \A c \in DOMAIN bases : bases[c] \in BaseStates
    <2>1. bases \in Seq(BaseStates) /\ RequestsMakeSense
        BY DEF CatalogInv, CatalogTypes
    <2>2. tx[p].op = "edit"
        BY DEF Edit, Holds
    <2>3. tx[p].base \in DOMAIN bases /\ tx[p].type \in Types
        BY <2>1, <2>2 DEF RequestsMakeSense
    <2> QED BY <1>0, <2>1, <2>3
<1>2. CASE bases' = bases
    BY <1>1, <1>2
<1>3. CASE bases' # bases
    <2>1. /\ bases[b].status = "ready" /\ t # bases[b].type /\ ActiveOf(bases, t) = {}
          /\ Retyped(b, t)
        BY <1>3 DEF Edit
    <2> HIDE DEF b, t
    <2>2. /\ bases' \in Seq(BaseStates)
          /\ \/ DOMAIN bases' = DOMAIN bases
             \/ /\ \A c \in ActiveOf(bases, "geral") : c = b
                /\ t # "geral" /\ Len(bases') = Len(bases) + 1
        BY <1>1, <2>1, RetypedBases DEF CatalogInv
    <2>3. CASE DOMAIN bases' = DOMAIN bases
        BY <1>1, <2>2, <2>3, NoLonger, SchedulesAssumption
    <2>4. CASE /\ \A c \in ActiveOf(bases, "geral") : c = b
               /\ t # "geral" /\ Len(bases') = Len(bases) + 1
        <3>1. [bases[b] EXCEPT !.type = t] \in BaseStates /\ [bases[b] EXCEPT !.type = t].type = t
            BY <1>1 DEF BaseStates
        <3> DEFINE x == [bases[b] EXCEPT !.type = t]
        <3>2. typed = [bases EXCEPT ![b] = x]
            BY <1>1
        <3> HIDE DEF x
        <3>3. /\ typed \in Seq(BaseStates) /\ DOMAIN typed = DOMAIN bases /\ Len(typed) = Len(bases)
              /\ typed[b] = x /\ x.type = t /\ \A c \in DOMAIN bases : c # b => typed[c] = bases[c]
            BY <1>1, <3>1, <3>2 DEF x
        <3> HIDE DEF typed
        <3>4. ActiveOf(typed, "geral") = {}
            BY <2>4, <3>3 DEF ActiveOf
        <3>5. Len(WithActive(typed, "geral")) = Len(bases) + 1
            BY <3>3, <3>4 DEF WithActive
        <3> QED BY <1>0, <2>4, <3>5 DEF Fits
    <2> QED BY <2>2, <2>3, <2>4
<1> QED BY <1>2, <1>3

LEMMA BoundedImport ==
    ASSUME CatalogInv, Bounded, NEW p \in Handlers, ImportCommit(p)
    PROVE  Len(bases') <= MaxBases
<1> DEFINE r == tx[p]
           opened == WithActive(WithActive(bases, r.type), "geral")
<1>1. /\ r.op = "import" /\ owner = p /\ r \in Requests /\ rule \in Rules
      /\ bases \in Seq(BaseStates) /\ GoodBases(bases, rule)
    BY DEF ImportCommit, Holds, CatalogInv, CatalogTypes
<1>2. r.type \in Types /\ Distinct(rule, r.rows) /\ Fits(WithActive(bases, r.type))
    <2>1. r.rule = rule
        BY <1>1 DEF CatalogInv, ImportIsCurrent, Holds
    <2>2. r.type \in Types /\ Distinct(r.rule, r.rows)
        BY <1>1 DEF CatalogInv, RequestsMakeSense, Distinct
    <2>3. Fits(WithActive(bases, r.type))
        BY <1>1 DEF Bounded, Holds
    <2> HIDE DEF r
    <2> QED BY <2>1, <2>2, <2>3
<1>3. r.rows \in SUBSET Rows /\ r.file \in Uploads \cup {None}
    BY <1>1 DEF Requests
<1> HIDE DEF r
<1>4. bases' = Imported(bases, rule, r.type, r.rows, r.file)
    BY DEF ImportCommit, Imported, r
<1>5. bases' \in Seq(BaseStates) /\ DOMAIN bases' = DOMAIN opened
    BY <1>1, <1>2, <1>3, <1>4, ImportedBases
<1>6. opened \in Seq(BaseStates)
    <2>1. "geral" \in Types /\ \A u \in Types : \A a, b \in ActiveOf(bases, u) : a = b
        BY <1>1 DEF Types, GoodBases
    <2>2. /\ WithActive(bases, r.type) \in Seq(BaseStates)
          /\ \A u \in Types : \A a, b \in ActiveOf(WithActive(bases, r.type), u) : a = b
        BY <1>1, <1>2, <2>1, OpenedBase
    <2> QED BY <2>1, <2>2, OpenedBase
<1>7. Len(opened) <= MaxBases
    BY <1>2 DEF Fits
<1> HIDE DEF opened
<1>8. Len(bases') <= Len(opened)
    BY <1>5, <1>6, NoLonger
<1>9. Len(bases') \in Nat /\ Len(opened) \in Nat
    BY <1>5, <1>6
<1> QED BY <1>7, <1>8, <1>9, SchedulesAssumption

LEMMA BoundedWork ==
    ASSUME CatalogInv, Bounded, NEW p \in Handlers,
           CatalogWork(p) \/ Archive(p) \/ ImportFails(p) \/ Crash(p)
    PROVE  Bounded'
<1>1. tx \in [Handlers -> Requests] /\ bases \in Seq(BaseStates) /\ Len(bases) <= MaxBases
    BY DEF CatalogInv, CatalogTypes, Bounded
<1>2. CASE ImportLock(p)
    <2> DEFINE r == [tx[p] EXCEPT !.file = NewFile(tx[p].rows)]
    <2>1. owner' = p /\ tx' = [tx EXCEPT ![p] = r] /\ bases' = bases /\ tx[p] \in Requests
        BY <1>1, <1>2 DEF ImportLock, TakesCatalog
    <2>2. r.op = "import" /\ r.type = tx[p].type
        BY <1>2, <2>1 DEF ImportLock, Requests
    <2> HIDE DEF r
    <2>3. tx'[p] = r
        BY <1>1, <2>1
    <2> QED BY <1>1, <1>2, <2>1, <2>2, <2>3 DEF ImportLock, Bounded, Holds
<1>3. CASE ImportRefused(p) \/ Crash(p) \/ ImportFails(p) \/ ChangeRules(p)
    <2>1. Answered(p) /\ bases' = bases
        BY <1>3 DEF ImportRefused, Crash, ImportFails, ChangeRules
    <2>2. \A q \in Handlers : owner' = q => owner = q /\ tx'[q] = tx[q]
        BY <2>1, AnsweredRequest
    <2> QED BY <2>1, <2>2, BoundedStays
<1>4. CASE ImportCommit(p)
    BY <1>4, BoundedImport, BoundedAnswers DEF ImportCommit, Holds
<1>5. CASE Edit(p)
    BY <1>5, BoundedEdit, BoundedAnswers DEF Edit, Holds
<1>6. CASE Archive(p)
    <2>1. CatalogInv' /\ DOMAIN bases' = DOMAIN bases
        BY <1>6, ArchiveKeeps
    <2>2. bases' \in Seq(BaseStates)
        BY <2>1 DEF CatalogInv, CatalogTypes
    <2>3. Len(bases') <= Len(bases)
        BY <1>1, <2>1, <2>2, NoLonger
    <2>4. Len(bases') <= MaxBases
        BY <1>1, <2>2, <2>3, SchedulesAssumption
    <2> QED BY <1>6, <2>4, BoundedAnswers DEF Archive, Holds
<1> QED BY <1>2, <1>3, <1>4, <1>5, <1>6 DEF CatalogWork

-----------------------------------------------------------------------------
(* Jobs and their triggers *)

JobRows == [base : Nat, trigger : Triggers, active : BOOLEAN]

\* Every job has a trigger of its own, under which it is recorded.
Recorded(js, rq) ==
    /\ js \in Seq(JobRows) /\ rq \in [Triggers -> Nat]
    /\ \A t \in Triggers : rq[t] # 0 => rq[t] \in DOMAIN js /\ js[rq[t]].trigger = t
    /\ \A j \in DOMAIN js : rq[js[j].trigger] = j

\* What JobTriggers sees of a list of jobs.
RunsOf(js) ==
    [t \in Triggers |->
        [i \in 1 .. Cardinality({j \in DOMAIN js : js[j].trigger = t}) |->
            js[CHOOSE j \in {k \in DOMAIN js : js[k].trigger = t} : TRUE].base]]
LiveOf(js) == {js[j].trigger : j \in {i \in DOMAIN js : js[i].active}}

LEMMA Seen == Runs = RunsOf(jobs) /\ Live = LiveOf(jobs)
BY DEF Runs, RunsOf, JobsOf, Live, LiveOf

LEMMA SeenNext == Runs' = RunsOf(jobs') /\ Live' = LiveOf(jobs')
BY DEF Runs, RunsOf, JobsOf, Live, LiveOf

\* The run of a trigger is the one of the job recorded for it, if there is one.
LEMMA RunsAre ==
    ASSUME NEW js, NEW rq, Recorded(js, rq)
    PROVE  RunsOf(js) = [t \in Triggers |-> IF rq[t] = 0 THEN <<>> ELSE <<js[rq[t]].base>>]
<1> SUFFICES ASSUME NEW t \in Triggers
             PROVE  [i \in 1 .. Cardinality({j \in DOMAIN js : js[j].trigger = t}) |->
                        js[CHOOSE j \in {k \in DOMAIN js : js[k].trigger = t} : TRUE].base]
                    = IF rq[t] = 0 THEN <<>> ELSE <<js[rq[t]].base>>
    BY DEF RunsOf
<1> DEFINE mine == {j \in DOMAIN js : js[j].trigger = t}
<1>1. /\ js \in Seq(JobRows)
      /\ rq[t] # 0 => rq[t] \in DOMAIN js /\ js[rq[t]].trigger = t
      /\ \A j \in DOMAIN js : js[j].trigger = t => j = rq[t]
    BY DEF Recorded
<1>2. \A j \in DOMAIN js : j # 0
    BY <1>1
<1>3. CASE rq[t] = 0
    <2>1. mine = {}
        BY <1>1, <1>2, <1>3
    <2> HIDE DEF mine
    <2>2. Cardinality(mine) = 0
        BY <2>1, FS_EmptySet
    <2>3. \A v : [i \in 1 .. 0 |-> v] = <<>>
        OBVIOUS
    <2> QED BY <1>3, <2>2, <2>3 DEF mine
<1>4. CASE rq[t] # 0
    <2>1. mine = {rq[t]}
        <3>1. rq[t] \in mine
            BY <1>1, <1>4
        <3>2. \A j \in mine : j = rq[t]
            BY <1>1
        <3> HIDE DEF mine
        <3> QED BY <3>1, <3>2
    <2>2. (CHOOSE j \in mine : TRUE) = rq[t]
        BY <2>1
    <2> HIDE DEF mine
    <2>3. Cardinality(mine) = 1
        BY <2>1, FS_Singleton
    <2>4. \A v : [i \in 1 .. 1 |-> v] = <<v>>
        OBVIOUS
    <2> QED BY <1>4, <2>2, <2>3, <2>4 DEF mine
<1> QED BY <1>3, <1>4

\* The triggers of jobs that are added.
Started(made) == {made[i].trigger : i \in DOMAIN made}

\* Jobs are added for triggers that have none, and recorded.
Adds(js, rq, made, more, log) ==
    /\ made \in Seq(JobRows)
    /\ \A i \in DOMAIN made : rq[made[i].trigger] = 0 /\ made[i].active
    /\ \A i, k \in DOMAIN made : made[i].trigger = made[k].trigger => i = k
    /\ more = js \o made
    /\ log \in [Triggers -> Nat]
    /\ \A i \in DOMAIN made : log[made[i].trigger] = Len(js) + i
    /\ \A t \in Triggers : t \notin Started(made) => log[t] = rq[t]

LEMMA AddedJobs ==
    ASSUME NEW js, NEW rq, NEW made, NEW more, NEW log, Recorded(js, rq),
           Adds(js, rq, made, more, log)
    PROVE  /\ Recorded(more, log)
           /\ LiveOf(more) = LiveOf(js) \cup Started(made)
           /\ \A j \in DOMAIN js : j \in DOMAIN more /\ more[j] = js[j]
           /\ \A i \in DOMAIN made : more[Len(js) + i] = made[i]
<1>1. /\ js \in Seq(JobRows) /\ made \in Seq(JobRows) /\ more = js \o made
      /\ rq \in [Triggers -> Nat] /\ log \in [Triggers -> Nat]
    BY DEF Recorded, Adds
<1>2. /\ more \in Seq(JobRows) /\ Len(js) \in Nat /\ Len(made) \in Nat
      /\ DOMAIN js = 1 .. Len(js) /\ DOMAIN made = 1 .. Len(made)
      /\ DOMAIN more = 1 .. Len(js) + Len(made)
      /\ \A j \in DOMAIN js : more[j] = js[j]
      /\ \A i \in DOMAIN made : more[Len(js) + i] = made[i]
    BY <1>1
<1>3. \A j \in DOMAIN more : j \in DOMAIN js \/ \E i \in DOMAIN made : j = Len(js) + i
    <2> SUFFICES ASSUME NEW j \in DOMAIN more, j \notin DOMAIN js
                 PROVE  \E i \in DOMAIN made : j = Len(js) + i
        OBVIOUS
    <2>1. j - Len(js) \in DOMAIN made /\ j = Len(js) + (j - Len(js))
        BY <1>2
    <2> QED BY <2>1
<1>4. /\ \A i \in DOMAIN made : Len(js) + i \in DOMAIN more /\ made[i].trigger \in Triggers
      /\ \A j \in DOMAIN js : j \in DOMAIN more /\ js[j].trigger \in Triggers
    <2>1. /\ \A i \in DOMAIN made : Len(js) + i \in DOMAIN more
          /\ \A j \in DOMAIN js : j \in DOMAIN more
        BY <1>2
    <2>2. (\A i \in DOMAIN made : made[i] \in JobRows) /\ \A j \in DOMAIN js : js[j] \in JobRows
        BY <1>1
    <2>3. \A x \in JobRows : x.trigger \in Triggers
        BY DEF JobRows
    <2> QED BY <2>1, <2>2, <2>3
<1>5. \A t \in Triggers : log[t] # 0 => log[t] \in DOMAIN more /\ more[log[t]].trigger = t
    <2> SUFFICES ASSUME NEW t \in Triggers, log[t] # 0
                 PROVE  log[t] \in DOMAIN more /\ more[log[t]].trigger = t
        OBVIOUS
    <2>1. CASE t \in Started(made)
        <3>1. PICK i \in DOMAIN made : t = made[i].trigger
            BY <2>1 DEF Started
        <3>2. log[t] = Len(js) + i
            BY <3>1 DEF Adds
        <3> QED BY <1>2, <1>4, <3>1, <3>2
    <2>2. CASE t \notin Started(made)
        <3>1. log[t] = rq[t]
            BY <2>2 DEF Adds
        <3> QED BY <1>2, <1>4, <3>1 DEF Recorded
    <2> QED BY <2>1, <2>2
<1>6. \A j \in DOMAIN more : log[more[j].trigger] = j
    <2>1. ASSUME NEW j \in DOMAIN js PROVE log[js[j].trigger] = j
        <3>1. rq[js[j].trigger] = j /\ j # 0
            BY <1>2 DEF Recorded
        <3>2. js[j].trigger \notin Started(made)
            BY <3>1 DEF Started, Adds
        <3> QED BY <1>4, <3>1, <3>2 DEF Adds
    <2>2. ASSUME NEW i \in DOMAIN made PROVE log[made[i].trigger] = Len(js) + i
        BY DEF Adds
    <2> QED BY <1>2, <1>3, <2>1, <2>2
<1>7. LiveOf(more) = LiveOf(js) \cup Started(made)
    <2>1. ASSUME NEW t \in LiveOf(more) PROVE t \in LiveOf(js) \cup Started(made)
        <3>1. PICK j \in DOMAIN more : more[j].active /\ t = more[j].trigger
            BY DEF LiveOf
        <3> QED BY <1>2, <1>3, <3>1 DEF LiveOf, Started
    <2>2. ASSUME NEW t \in LiveOf(js) PROVE t \in LiveOf(more)
        <3>1. PICK j \in DOMAIN js : js[j].active /\ t = js[j].trigger
            BY DEF LiveOf
        <3> QED BY <1>2, <1>4, <3>1 DEF LiveOf
    <2>3. ASSUME NEW t \in Started(made) PROVE t \in LiveOf(more)
        <3>1. PICK i \in DOMAIN made : t = made[i].trigger
            BY DEF Started
        <3>2. made[i].active
            BY DEF Adds
        <3>3. /\ Len(js) + i \in DOMAIN more /\ more[Len(js) + i].active
              /\ more[Len(js) + i].trigger = t
            BY <1>2, <1>4, <3>1, <3>2
        <3> QED BY <3>3 DEF LiveOf
    <2> QED BY <2>1, <2>2, <2>3
<1>8. Recorded(more, log)
    BY <1>1, <1>2, <1>5, <1>6 DEF Recorded
<1> QED BY <1>2, <1>4, <1>7, <1>8

LEMMA SameRuns ==
    ASSUME NEW js, NEW other, NEW rq, Recorded(js, rq), Recorded(other, rq),
           \A t \in Triggers : rq[t] # 0 => other[rq[t]].base = js[rq[t]].base
    PROVE  RunsOf(other) = RunsOf(js)
<1>1. RunsOf(other) = [t \in Triggers |-> IF rq[t] = 0 THEN <<>> ELSE <<other[rq[t]].base>>]
    BY RunsAre
<1>2. RunsOf(js) = [t \in Triggers |-> IF rq[t] = 0 THEN <<>> ELSE <<js[rq[t]].base>>]
    BY RunsAre
<1> QED BY <1>1, <1>2

\* A job ends or is retried: its trigger keeps its run and is live no longer,
\* or again.
LEMMA EndedJob ==
    ASSUME NEW js, NEW rq, Recorded(js, rq), NEW j \in DOMAIN js, NEW x \in JobRows, NEW ended,
           x.trigger = js[j].trigger, x.base = js[j].base,
           ended \in Seq(JobRows), DOMAIN ended = DOMAIN js, ended[j] = x,
           \A k \in DOMAIN js : k # j => ended[k] = js[k]
    PROVE  /\ Recorded(ended, rq)
           /\ RunsOf(ended) = RunsOf(js)
           /\ LiveOf(ended) = IF x.active THEN LiveOf(js) \cup {js[j].trigger}
                              ELSE LiveOf(js) \ {js[j].trigger}
<1>1. \A k \in DOMAIN js : ended[k].trigger = js[k].trigger /\ ended[k].base = js[k].base
    OBVIOUS
<1>2. Recorded(ended, rq)
    BY <1>1 DEF Recorded
<1>3. RunsOf(ended) = RunsOf(js)
    <2>1. \A t \in Triggers : rq[t] # 0 => ended[rq[t]].base = js[rq[t]].base
        BY <1>1 DEF Recorded
    <2> QED BY <1>2, <2>1, SameRuns
<1>4. \A k \in DOMAIN js : js[k].trigger = js[j].trigger => k = j
    BY DEF Recorded
<1>5. LiveOf(ended) \ {js[j].trigger} = LiveOf(js) \ {js[j].trigger}
    <2>1. ASSUME NEW t \in LiveOf(ended), t # js[j].trigger PROVE t \in LiveOf(js)
        <3>1. PICK k \in DOMAIN js : ended[k].active /\ t = ended[k].trigger
            BY DEF LiveOf
        <3>2. k # j
            BY <1>1, <2>1, <3>1
        <3> QED BY <1>1, <3>1, <3>2 DEF LiveOf
    <2>2. ASSUME NEW t \in LiveOf(js), t # js[j].trigger PROVE t \in LiveOf(ended)
        <3>1. PICK k \in DOMAIN js : js[k].active /\ t = js[k].trigger
            BY DEF LiveOf
        <3>2. k # j
            BY <2>2, <3>1
        <3> QED BY <3>1, <3>2 DEF LiveOf
    <2> QED BY <2>1, <2>2
<1>6. js[j].trigger \in LiveOf(ended) <=> x.active
    <2>1. ASSUME x.active PROVE js[j].trigger \in LiveOf(ended)
        BY <1>1, <2>1 DEF LiveOf
    <2>2. ASSUME js[j].trigger \in LiveOf(ended) PROVE x.active
        <3>1. PICK k \in DOMAIN js : ended[k].active /\ js[j].trigger = ended[k].trigger
            BY <2>2 DEF LiveOf
        <3> QED BY <1>1, <1>4, <3>1
    <2> QED BY <2>1, <2>2
<1>7. LiveOf(ended) = IF x.active THEN LiveOf(js) \cup {js[j].trigger}
                      ELSE LiveOf(js) \ {js[j].trigger}
    <2> DEFINE L == LiveOf(ended)
               M == LiveOf(js)
               t == js[j].trigger
    <2>1. L \ {t} = M \ {t} /\ (t \in L <=> x.active)
        BY <1>5, <1>6
    <2> HIDE DEF L, M, t
    <2>2. L = IF x.active THEN M \cup {t} ELSE M \ {t}
        <3>1. x.active => L = M \cup {t}
            BY <2>1
        <3>2. ~x.active => L = M \ {t}
            BY <2>1
        <3> QED BY <3>1, <3>2
    <2> QED BY <2>2 DEF L, M, t
<1> QED BY <1>2, <1>3, <1>7

-----------------------------------------------------------------------------
(* Sets as lists *)

LEMMA ImageIsFinite ==
    ASSUME NEW S, IsFiniteSet(S), NEW f
    PROVE  IsFiniteSet({f[x] : x \in S})
<1> DEFINE T == {f[x] : x \in S}
           g == [x \in S |-> f[x]]
<1>1. g \in Surjection(S, T)
    BY DEF Surjection
<1> HIDE DEF g, T
<1>2. IsFiniteSet(T)
    BY <1>1, FS_Surjection
<1> QED BY <1>2 DEF T

\* A finite set is listed without repetition, and nothing of it is left out.
LEMMA ListedSet ==
    ASSUME NEW S, IsFiniteSet(S)
    PROVE  /\ SetToSeq(S) \in Seq(S)
           /\ \A i, k \in DOMAIN SetToSeq(S) : SetToSeq(S)[i] = SetToSeq(S)[k] => i = k
           /\ \A x \in S : \E i \in DOMAIN SetToSeq(S) : SetToSeq(S)[i] = x
<1> DEFINE n == Cardinality(S)
           f == SetToSeq(S)
<1>1. n \in Nat /\ ExistsBijection(1 .. n, S)
    BY FS_CardinalityType
<1>2. PICK g \in Bijection(1 .. n, S) : TRUE
    BY <1>1 DEF ExistsBijection
<1>3. g \in [1 .. n -> S] /\ IsInjective(g)
    BY <1>2 DEF Bijection, Injection
<1>4. f \in [1 .. n -> S] /\ IsInjective(f)
    BY <1>3 DEF SetToSeq
<1> HIDE DEF f
<1>5. f \in Injection(1 .. n, S)
    BY <1>4 DEF Injection
<1>6. Cardinality(1 .. n) = n
    <2>1. 1 \in Int /\ n \in Int
        BY <1>1
    <2> HIDE DEF n
    <2>2. Cardinality(1 .. n) = IF 1 > n THEN 0 ELSE n - 1 + 1
        BY <2>1, FS_Interval
    <2> QED BY <1>1, <2>2
<1>7. f \in Surjection(1 .. n, S)
    <2> HIDE DEF n
    <2> QED BY <1>5, <1>6, FS_Injection DEF n
<1>8. DOMAIN f = 1 .. n /\ f \in Seq(S)
    BY <1>1, <1>4
<1>9. \A i, k \in DOMAIN f : f[i] = f[k] => i = k
    BY <1>4 DEF IsInjective
<1>10. \A x \in S : \E i \in DOMAIN f : f[i] = x
    BY <1>7, <1>8 DEF Surjection
<1> QED BY <1>8, <1>9, <1>10 DEF f

-----------------------------------------------------------------------------
(* Schedules, keys and occurrences *)

Outcomes == {None, "created", "blocked", "skipped_late", "skipped_overlap"}

\* Every schedule has a due time.
DuesAreRight ==
    /\ Len(scheds) <= NumSchedules
    /\ \A s \in DOMAIN scheds : scheds[s].next \in Dues

\* A key that a request holds has no job, and no other request holds it.
KeysAreFree ==
    \A p \in Handlers : req[p].op = "execute" =>
        /\ requests[req[p].key] = 0
        /\ \A q \in Handlers : req[q].op = "execute" /\ req[q].key = req[p].key => q = p

\* An occurrence without a status has no job.
OccsAreRight ==
    /\ occs \in [Occurrences -> Outcomes]
    /\ \A o \in Occurrences : occs[o] = None => requests[o] = 0

PromiseInv ==
    /\ ScheduleInv
    /\ Bounded
    /\ DuesAreRight
    /\ KeysAreFree
    /\ OccsAreRight
    /\ Recorded(jobs, requests)

LEMMA InitPromise == InitSchedules => PromiseInv
<1> SUFFICES ASSUME InitSchedules PROVE PromiseInv
    OBVIOUS
<1>1. /\ Init /\ scheds = <<>> /\ occs = [o \in Occurrences |-> None] /\ jobs = <<>>
      /\ requests = [t \in Triggers |-> 0] /\ req = [p \in Handlers |-> Quiet]
    BY DEF InitSchedules
<1>2. ScheduleInv /\ Bounded
    BY <1>1, InitSchedule, InitBounded
<1>3. DuesAreRight
    BY <1>1, SchedulesAssumption DEF DuesAreRight
<1>4. KeysAreFree
    BY <1>1, QuietTyped DEF KeysAreFree
<1>5. OccsAreRight
    BY <1>1 DEF OccsAreRight, Outcomes, Triggers
<1>6. Recorded(jobs, requests)
    BY <1>1 DEF Recorded
<1> QED BY <1>2, <1>3, <1>4, <1>5, <1>6 DEF PromiseInv

\* The due time of a schedule is an occurrence, and a schedule's own.
LEMMA DueOccurs ==
    ASSUME ScheduleInv, DuesAreRight
    PROVE  /\ \A s \in DOMAIN scheds : /\ DueOf(s) \in Occurrences /\ DueOf(s)[1] = s
                                       /\ DueOf(s) \in {s} \X Dues
           /\ \A o \in Occurrences : o \in Triggers /\ o \notin Keys /\ o = <<o[1], o[2]>>
<1>1. scheds \in Seq(ScheduleRows)
    BY DEF ScheduleInv, SchedsAreRight
<1>2. \A s \in DOMAIN scheds : s \in 1 .. NumSchedules /\ scheds[s].next \in Dues
    <2>1. Len(scheds) \in Nat /\ DOMAIN scheds = 1 .. Len(scheds) /\ Len(scheds) <= NumSchedules
        BY <1>1 DEF DuesAreRight
    <2> QED BY <2>1, SchedulesAssumption DEF DuesAreRight
<1>3. \A s \in DOMAIN scheds : DueOf(s) \in Occurrences /\ DueOf(s)[1] = s /\ DueOf(s) \in {s} \X Dues
    BY <1>2 DEF DueOf, Occurrences
<1>4. \A o \in Occurrences : o \in Triggers /\ o \notin Keys /\ o = <<o[1], o[2]>>
    BY SchedulesAssumption DEF Occurrences, Triggers, Dues
<1> QED BY <1>3, <1>4

LEMMA LaterDue ==
    ASSUME NEW now \in Times
    PROVE  NextDue(now) \in Dues
BY SchedulesAssumption DEF Times, Dues, NextDue

-----------------------------------------------------------------------------
(* A step that starts jobs *)

\* Jobs are made for triggers that are free, from bases that are there; an
\* occurrence is decided once, and starts no second job of its schedule.
Starts(made) ==
    /\ Adds(jobs, requests, made, jobs', requests')
    /\ bases' = bases
    /\ \A i \in DOMAIN made : /\ made[i].base \in DOMAIN bases
                              /\ bases[made[i].base].status # "archived"
    /\ \A t \in Started(made) \cap Occurrences :
          /\ occs[t] = None /\ occs'[t] = "created"
          /\ \A u \in (Live \cup Started(made)) \cap Occurrences : u[1] = t[1] => u = t
    /\ \A o \in Occurrences : occs[o] # None => occs'[o] = occs[o]

LEMMA NewJobRow ==
    ASSUME NEW b \in Nat, NEW t \in Triggers
    PROVE  /\ NewJob(b, t) \in JobRows /\ NewJob(b, t).base = b /\ NewJob(b, t).trigger = t
           /\ NewJob(b, t).active
BY DEF NewJob, JobRows

\* A base that is given a job is there.
LEMMA ReadyBase ==
    ASSUME ScheduleInv, NEW b \in DOMAIN bases, BaseReady(b)
    PROVE  b \in Nat /\ bases[b].status # "archived"
BY DEF ScheduleInv, CatalogInv, CatalogTypes, BaseReady

LEMMA ExecuteStarts ==
    ASSUME PromiseInv, NEW p \in Handlers, Execute(p), BaseReady(req[p].base)
    PROVE  Starts(<<NewJob(req[p].base, req[p].key)>>)
<1> DEFINE b == req[p].base
           k == req[p].key
           x == NewJob(b, k)
           made == <<x>>
<1>1. /\ jobs' = Append(jobs, x) /\ requests' = [requests EXCEPT ![k] = Len(jobs')]
      /\ bases' = bases /\ occs' = occs /\ req[p].op = "execute"
    BY DEF Execute, CatalogStill
<1>2. b \in DOMAIN bases /\ k \in Keys /\ requests[k] = 0
    BY <1>1 DEF PromiseInv, ScheduleInv, AsksAreRight, KeysAreFree
<1>3. b \in Nat /\ bases[b].status # "archived"
    BY <1>2, ReadyBase DEF PromiseInv
<1>4. k \in Triggers /\ k \notin Occurrences
    BY <1>2, SchedulesAssumption DEF Triggers, Occurrences, Dues
<1>5. x \in JobRows /\ x.base = b /\ x.trigger = k /\ x.active
    BY <1>3, <1>4, NewJobRow
<1>6. jobs \in Seq(JobRows) /\ requests \in [Triggers -> Nat]
    BY DEF PromiseInv, Recorded
<1> HIDE DEF x, b, k
<1>7. /\ made \in Seq(JobRows) /\ DOMAIN made = {1} /\ made[1] = x
      /\ jobs' = jobs \o made /\ Len(jobs') = Len(jobs) + 1 /\ Len(jobs) \in Nat
    BY <1>1, <1>5, <1>6
<1> HIDE DEF made
<1>8. Started(made) = {k}
    BY <1>5, <1>7 DEF Started
<1>9. /\ requests' \in [Triggers -> Nat] /\ requests'[k] = Len(jobs) + 1
      /\ \A t \in Triggers : t # k => requests'[t] = requests[t]
    BY <1>1, <1>4, <1>6, <1>7
<1>10. Adds(jobs, requests, made, jobs', requests')
    BY <1>2, <1>5, <1>7, <1>8, <1>9 DEF Adds
<1>11. Starts(made)
    BY <1>1, <1>2, <1>3, <1>4, <1>5, <1>7, <1>8, <1>10 DEF Starts
<1> QED BY <1>11 DEF made, x, b, k

\* The verdict of a due occurrence is its status, or says that it may start.
LEMMA Verdicts ==
    ASSUME NEW p \in Schedulers, NEW s \in DOMAIN scheds
    PROVE  /\ occs[DueOf(s)] # None => Verdict(p, s) = occs[DueOf(s)]
           /\ occs[DueOf(s)] = None =>
                 Verdict(p, s) \in {"created", "blocked", "skipped_late", "skipped_overlap"}
           /\ occs[DueOf(s)] = None /\ Verdict(p, s) = "created" =>
                 ~Running(s) /\ ~Refused(scheds[s].base, DueOf(s))
<1>1. CASE occs[DueOf(s)] # None
    BY <1>1 DEF Verdict
<1>2. CASE occs[DueOf(s)] = None /\ Late(p, s)
    BY <1>2 DEF Verdict
<1>3. CASE occs[DueOf(s)] = None /\ ~Late(p, s) /\ Running(s)
    BY <1>3 DEF Verdict
<1>4. CASE occs[DueOf(s)] = None /\ ~Late(p, s) /\ ~Running(s)
    <2>1. Verdict(p, s) = IF Refused(scheds[s].base, DueOf(s)) THEN "blocked" ELSE "created"
        BY <1>4 DEF Verdict
    <2> QED BY <1>4, <2>1
<1> QED BY <1>1, <1>2, <1>3, <1>4

LEMMA TickStarts ==
    ASSUME PromiseInv, NEW p \in Schedulers, TickCommit(p)
    PROVE  /\ \E made : Starts(made) /\ Started(made) \subseteq Occurrences
           /\ occs' \in [Occurrences -> Outcomes]
<1> DEFINE done == run[p].done
           starting == {s \in done : /\ occs[DueOf(s)] = None
                                     /\ Verdict(p, s) = "created"
                                     /\ requests[DueOf(s)] = 0}
           job(s) == NewJob(scheds[s].base, DueOf(s))
           S == {job(s) : s \in starting}
           made == SetToSeq(S)
<1>1. /\ occs' = [o \in Occurrences |->
                     IF \E s \in done : o = DueOf(s) THEN Verdict(p, o[1]) ELSE occs[o]]
      /\ jobs' = jobs \o made
      /\ requests' = [t \in Triggers |->
                         IF \E s \in starting : t = DueOf(s)
                         THEN Len(jobs) + CHOOSE i \in DOMAIN made : made[i].trigger = t
                         ELSE requests[t]]
      /\ bases' = bases
    BY DEF TickCommit, CatalogStill
<1>2. done \subseteq DOMAIN scheds /\ starting \subseteq done /\ scheds \in Seq(ScheduleRows)
    BY DEF PromiseInv, ScheduleInv, TicksAreRight, SchedsAreRight
<1>3. /\ \A s \in DOMAIN scheds : DueOf(s) \in Occurrences /\ DueOf(s)[1] = s
      /\ \A s \in DOMAIN scheds : DueOf(s) \in {s} \X Dues
      /\ \A o \in Occurrences : o \in Triggers
    BY DueOccurs DEF PromiseInv
<1>4. /\ jobs \in Seq(JobRows) /\ requests \in [Triggers -> Nat]
      /\ occs \in [Occurrences -> Outcomes]
      /\ \A o \in Occurrences : occs[o] = None => requests[o] = 0
    BY DEF PromiseInv, Recorded, OccsAreRight
<1>5. \A s \in starting : /\ occs[DueOf(s)] = None /\ Verdict(p, s) = "created"
                          /\ requests[DueOf(s)] = 0 /\ s \in DOMAIN scheds
    BY <1>2
<1>6. \A s \in starting : /\ scheds[s].base \in DOMAIN bases /\ scheds[s].base \in Nat
                          /\ bases[scheds[s].base].status # "archived" /\ ~Running(s)
    <2> SUFFICES ASSUME NEW s \in starting
                 PROVE  /\ scheds[s].base \in DOMAIN bases /\ scheds[s].base \in Nat
                        /\ bases[scheds[s].base].status # "archived" /\ ~Running(s)
        OBVIOUS
    <2>1. scheds[s].base \in DOMAIN bases
        BY <1>5 DEF PromiseInv, ScheduleInv, SchedsAreRight
    <2>2. ~Running(s) /\ ~Refused(scheds[s].base, DueOf(s))
        BY <1>5, Verdicts
    <2>3. BaseReady(scheds[s].base)
        BY <1>5, <2>2 DEF Refused
    <2> QED BY <2>1, <2>2, <2>3, ReadyBase DEF PromiseInv
<1>7. \A s \in starting : /\ job(s) \in JobRows /\ job(s).base = scheds[s].base
                          /\ job(s).trigger = DueOf(s) /\ job(s).active
    BY <1>3, <1>5, <1>6, NewJobRow
<1>8. occs' \in [Occurrences -> Outcomes]
    <2>1. ASSUME NEW o \in Occurrences, NEW s \in done, o = DueOf(s)
          PROVE  Verdict(p, o[1]) \in Outcomes
        <3>1. s \in DOMAIN scheds /\ o[1] = s
            BY <1>2, <1>3, <2>1
        <3> HIDE DEF done
        <3>2. Verdict(p, s) \in Outcomes
            BY <1>4, <2>1, <3>1, Verdicts DEF Outcomes
        <3> QED BY <3>1, <3>2
    <2> HIDE DEF done, starting, made
    <2> QED BY <1>1, <1>4, <2>1
<1>9. /\ made \in Seq(S)
      /\ \A i, k \in DOMAIN made : made[i] = made[k] => i = k
      /\ \A x \in S : \E i \in DOMAIN made : made[i] = x
    <2>1. IsFiniteSet(starting)
        <3>1. DOMAIN scheds = 1 .. Len(scheds) /\ Len(scheds) \in Nat
            BY <1>2
        <3>2. IsFiniteSet(DOMAIN scheds)
            BY <3>1, FS_Interval
        <3> HIDE DEF starting, done
        <3> QED BY <1>2, <3>2, FS_Subset
    <2> DEFINE f == [s \in starting |-> job(s)]
    <2>2. S = {f[s] : s \in starting}
        <3> HIDE DEF starting, job
        <3> QED OBVIOUS
    <2> HIDE DEF f, starting, S
    <2>3. IsFiniteSet(S)
        BY <2>1, <2>2, ImageIsFinite
    <2> QED BY <2>3, ListedSet
<1>10. \A i \in DOMAIN made : \E s \in starting : made[i] = job(s)
    <2>1. \A i \in DOMAIN made : made[i] \in S
        <3> HIDE DEF made, S
        <3> QED BY <1>9
    <2> HIDE DEF made, starting, job
    <2> QED BY <2>1 DEF S
<1>11. \A s \in starting : \E i \in DOMAIN made : made[i] = job(s)
    <2>1. \A s \in starting : job(s) \in S
        <3> HIDE DEF starting, job
        <3> QED BY DEF S
    <2> HIDE DEF made, S, starting, job
    <2> QED BY <1>9, <2>1
<1> HIDE DEF made, S, starting, job, done
<1>12. Started(made) = {DueOf(s) : s \in starting}
    <2>1. ASSUME NEW t \in Started(made) PROVE \E s \in starting : t = DueOf(s)
        <3>1. PICK i \in DOMAIN made : t = made[i].trigger
            BY <2>1 DEF Started
        <3> QED BY <1>7, <1>10, <3>1
    <2>2. ASSUME NEW s \in starting PROVE DueOf(s) \in Started(made)
        <3>1. PICK i \in DOMAIN made : made[i] = job(s)
            BY <1>11
        <3> QED BY <1>7, <3>1 DEF Started
    <2> QED BY <2>1, <2>2
<1>13. \A s, u \in starting : DueOf(s) = DueOf(u) => s = u
    BY <1>3, <1>5
<1>14. \A i, k \in DOMAIN made : made[i].trigger = made[k].trigger => i = k
    <2> SUFFICES ASSUME NEW i \in DOMAIN made, NEW k \in DOMAIN made, made[i].trigger = made[k].trigger
                 PROVE  i = k
        OBVIOUS
    <2>1. PICK s \in starting : made[i] = job(s)
        BY <1>10
    <2>2. PICK u \in starting : made[k] = job(u)
        BY <1>10
    <2>3. DueOf(s) = DueOf(u)
        BY <1>7, <2>1, <2>2
    <2>4. s = u
        BY <1>13, <2>3
    <2> QED BY <1>9, <2>1, <2>2, <2>4
<1>15. \A i \in DOMAIN made : /\ requests[made[i].trigger] = 0 /\ made[i].active
                              /\ made[i].base \in DOMAIN bases
                              /\ bases[made[i].base].status # "archived"
                              /\ made[i].trigger \in Triggers
                              /\ requests'[made[i].trigger] = Len(jobs) + i
    <2> SUFFICES ASSUME NEW i \in DOMAIN made
                 PROVE  /\ requests[made[i].trigger] = 0 /\ made[i].active
                        /\ made[i].base \in DOMAIN bases
                        /\ bases[made[i].base].status # "archived"
                        /\ made[i].trigger \in Triggers
                        /\ requests'[made[i].trigger] = Len(jobs) + i
        OBVIOUS
    <2>1. PICK s \in starting : made[i] = job(s)
        BY <1>10
    <2>2. /\ made[i].trigger = DueOf(s) /\ made[i].base = scheds[s].base /\ made[i].active
          /\ DueOf(s) \in Triggers
        BY <1>3, <1>5, <1>7, <2>1
    <2>3. (CHOOSE k \in DOMAIN made : made[k].trigger = DueOf(s)) = i
        BY <1>14, <2>2
    <2>4. requests'[DueOf(s)] = Len(jobs) + CHOOSE k \in DOMAIN made : made[k].trigger = DueOf(s)
        BY <1>1, <2>2
    <2> QED BY <1>5, <1>6, <2>2, <2>3, <2>4
<1>16. made \in Seq(JobRows)
    <2>1. \A i \in DOMAIN made : made[i] \in JobRows
        BY <1>7, <1>10
    <2>2. DOMAIN made = 1 .. Len(made) /\ Len(made) \in Nat /\ made = [i \in 1 .. Len(made) |-> made[i]]
        BY <1>9
    <2> QED BY <2>1, <2>2
<1>17. \A t \in Triggers : t \notin Started(made) => requests'[t] = requests[t]
    BY <1>1, <1>12
<1>18. requests' \in [Triggers -> Nat]
    <2>1. \A t \in Triggers : requests'[t] \in Nat
        <3> SUFFICES ASSUME NEW t \in Triggers PROVE requests'[t] \in Nat
            OBVIOUS
        <3>1. CASE t \in Started(made)
            <4>1. PICK i \in DOMAIN made : t = made[i].trigger
                BY <3>1 DEF Started
            <4>2. requests'[t] = Len(jobs) + i /\ i \in Nat /\ Len(jobs) \in Nat
                BY <1>4, <1>15, <1>16, <4>1
            <4> QED BY <4>2
        <3>2. CASE t \notin Started(made)
            BY <1>4, <1>17, <3>2
        <3> QED BY <3>1, <3>2
    <2>2. requests' = [t \in Triggers |-> requests'[t]]
        BY <1>1
    <2> QED BY <2>1, <2>2
<1>19. Adds(jobs, requests, made, jobs', requests')
    BY <1>1, <1>14, <1>15, <1>16, <1>17, <1>18 DEF Adds
<1>20. \A s \in done : occs'[DueOf(s)] = Verdict(p, s)
    BY <1>1, <1>2, <1>3
<1>21. \A o \in Occurrences : occs[o] # None => occs'[o] = occs[o]
    <2> SUFFICES ASSUME NEW o \in Occurrences, occs[o] # None PROVE occs'[o] = occs[o]
        OBVIOUS
    <2>1. CASE \E s \in done : o = DueOf(s)
        <3>1. PICK s \in done : o = DueOf(s)
            BY <2>1
        <3> QED BY <1>2, <1>20, <3>1, Verdicts
    <2>2. CASE ~\E s \in done : o = DueOf(s)
        BY <1>1, <2>2
    <2> QED BY <2>1, <2>2
<1>22. ASSUME NEW t \in Started(made)
       PROVE  /\ occs[t] = None /\ occs'[t] = "created" /\ t \in Occurrences
              /\ \A u \in (Live \cup Started(made)) \cap Occurrences : u[1] = t[1] => u = t
    <2>1. PICK s \in starting : t = DueOf(s)
        BY <1>12, <1>22
    <2>2. occs[t] = None /\ occs'[t] = "created" /\ t \in Occurrences /\ t[1] = s
        BY <1>2, <1>3, <1>5, <1>20, <2>1
    <2>3. ASSUME NEW u \in Occurrences, u \in Live PROVE u[1] # t[1]
        <3>1. PICK j \in DOMAIN jobs : jobs[j].active /\ u = jobs[j].trigger
            BY <2>3 DEF Live
        <3>2. u \in {u[1]} \X Dues
            BY DEF Occurrences
        <3> QED BY <1>6, <2>1, <2>2, <3>1, <3>2 DEF Running
    <2>4. ASSUME NEW u \in Started(made), u[1] = t[1] PROVE u = t
        <3>1. PICK v \in starting : u = DueOf(v)
            BY <1>12, <2>4
        <3> QED BY <1>3, <1>5, <2>1, <2>2, <2>4, <3>1
    <2> QED BY <2>2, <2>3, <2>4
<1>23. Starts(made) /\ Started(made) \subseteq Occurrences
    BY <1>1, <1>15, <1>19, <1>21, <1>22 DEF Starts
<1> QED BY <1>8, <1>23

-----------------------------------------------------------------------------
(* The invariant of the promise *)

LEMMA StillBounded ==
    ASSUME PromiseInv, CatalogStill, owner' = owner \/ owner' \in Schedulers \cup {None}
    PROVE  Bounded'
<1>1. \A q \in Handlers : owner' = q => owner = q
    BY NoneAssumption, SchedulesAssumption
<1> QED BY <1>1, BoundedStays DEF PromiseInv, CatalogStill

LEMMA KeysKept ==
    ASSUME PromiseInv,
           \A q \in Handlers : req'[q].op = "execute" =>
              req'[q] = req[q] /\ requests'[req[q].key] = requests[req[q].key]
    PROVE  KeysAreFree'
BY DEF PromiseInv, KeysAreFree

\* What a step leaves alone stays right.
LEMMA KeptPromise ==
    ASSUME PromiseInv, UNCHANGED requests
    PROVE  /\ scheds' = scheds => DuesAreRight'
           /\ req' = req => KeysAreFree'
           /\ occs' = occs => OccsAreRight'
           /\ jobs' = jobs => Recorded(jobs, requests)'
<1>1. scheds' = scheds => DuesAreRight'
    BY DEF PromiseInv, DuesAreRight
<1>2. req' = req => KeysAreFree'
    BY DEF PromiseInv, KeysAreFree
<1>3. occs' = occs => OccsAreRight'
    BY DEF PromiseInv, OccsAreRight
<1>4. jobs' = jobs => Recorded(jobs, requests)'
    BY DEF PromiseInv
<1> QED BY <1>1, <1>2, <1>3, <1>4

\* Rows of schedules change, and keep a due time.
LEMMA RowsKeepDues ==
    ASSUME PromiseInv, NEW p \in Handlers,
           CreateSchedule(p) \/ Disable(p) \/ UpdateSchedule(p) \/ ArchiveSteps(p)
    PROVE  DuesAreRight'
<1>1. scheds \in Seq(ScheduleRows) /\ \A s \in DOMAIN scheds : scheds[s] \in ScheduleRows
    BY DEF PromiseInv, ScheduleInv, SchedsAreRight
<1>2. Len(scheds) <= NumSchedules /\ \A s \in DOMAIN scheds : scheds[s].next \in Dues
    BY DEF PromiseInv, DuesAreRight
<1>3. \A now \in Now : NextDue(now) \in Dues /\ NextDue(now) \in Nat
    BY LaterDue DEF Now, Dues
<1>4. CASE CreateSchedule(p)
    <2>1. PICK b \in DOMAIN bases, now \in Now :
             scheds' = Append(scheds, [on |-> TRUE, base |-> b, next |-> NextDue(now)])
        BY <1>4 DEF CreateSchedule
    <2> DEFINE x == [on |-> TRUE, base |-> b, next |-> NextDue(now)]
    <2>2. x.next \in Dues /\ scheds' = Append(scheds, x) /\ Len(scheds) < NumSchedules
        BY <1>3, <1>4, <2>1 DEF CreateSchedule
    <2> HIDE DEF x
    <2>3. /\ Len(scheds') = Len(scheds) + 1 /\ Len(scheds) \in Nat
          /\ \A s \in DOMAIN scheds' : (s \in DOMAIN scheds /\ scheds'[s] = scheds[s]) \/ scheds'[s] = x
        BY <1>1, <2>2
    <2> QED BY <1>2, <2>2, <2>3, SchedulesAssumption DEF DuesAreRight
<1>5. ASSUME NEW s \in DOMAIN scheds, NEW x, x.next \in Dues, scheds' = [scheds EXCEPT ![s] = x]
      PROVE  DuesAreRight'
    <2>1. /\ Len(scheds') = Len(scheds) /\ DOMAIN scheds' = DOMAIN scheds /\ scheds'[s] = x
          /\ \A u \in DOMAIN scheds : u # s => scheds'[u] = scheds[u]
        BY <1>1, <1>5
    <2> QED BY <1>2, <1>5, <2>1 DEF DuesAreRight
<1>6. CASE Disable(p)
    <2>1. PICK s \in DOMAIN scheds : scheds' = [scheds EXCEPT ![s] = [@ EXCEPT !.on = FALSE]]
        BY <1>6 DEF Disable
    <2> DEFINE x == [scheds[s] EXCEPT !.on = FALSE]
    <2>2. x.next = scheds[s].next
        BY <1>1 DEF ScheduleRows
    <2>3. scheds' = [scheds EXCEPT ![s] = x]
        BY <2>1
    <2> HIDE DEF x
    <2> QED BY <1>2, <1>5, <2>2, <2>3
<1>7. CASE UpdateSchedule(p)
    <2>1. CASE scheds' = scheds
        BY <1>2, <2>1 DEF DuesAreRight
    <2>2. CASE scheds' # scheds
        <3> DEFINE s == req[p].sched
        <3>1. PICK now \in Now, on \in BOOLEAN :
                 scheds' = [scheds EXCEPT ![s] = [on |-> on, base |-> req[p].base, next |-> NextDue(now)]]
            BY <1>7, <2>2 DEF UpdateSchedule
        <3>2. s \in DOMAIN scheds
            BY <1>7 DEF UpdateSchedule, PromiseInv, ScheduleInv, AsksAreRight
        <3> DEFINE x == [on |-> on, base |-> req[p].base, next |-> NextDue(now)]
        <3>3. x.next \in Dues /\ scheds' = [scheds EXCEPT ![s] = x]
            BY <1>3, <3>1
        <3> HIDE DEF x, s
        <3> QED BY <1>5, <3>2, <3>3
    <2> QED BY <2>1, <2>2
<1>8. CASE ArchiveSteps(p)
    <2> DEFINE mine == {s \in DOMAIN scheds : scheds[s].base = tx[p].base}
               off(s) == [scheds[s] EXCEPT !.on = FALSE]
    <2>1. \A s \in DOMAIN scheds : off(s).next = scheds[s].next
        BY <1>1 DEF ScheduleRows
    <2>2. \/ scheds' = scheds
          \/ scheds' = [s \in DOMAIN scheds |-> IF s \in mine THEN off(s) ELSE scheds[s]]
        BY <1>8 DEF ArchiveSteps
    <2> HIDE DEF mine, off
    <2>3. DOMAIN scheds' = DOMAIN scheds /\ \A s \in DOMAIN scheds : scheds'[s].next = scheds[s].next
        BY <2>1, <2>2
    <2>4. ScheduleInv'
        BY <1>8, ArchivedRows DEF PromiseInv
    <2>5. scheds' \in Seq(ScheduleRows)
        BY <2>4 DEF ScheduleInv, SchedsAreRight
    <2>6. Len(scheds') <= Len(scheds) /\ Len(scheds) \in Nat /\ Len(scheds') \in Nat
        BY <1>1, <2>3, <2>5, NoLonger
    <2> QED BY <1>2, <2>3, <2>6, SchedulesAssumption DEF DuesAreRight
<1> QED BY <1>4, <1>6, <1>7, <1>8

LEMMA TickKeepsDues ==
    ASSUME PromiseInv, NEW p \in Schedulers, TickCommit(p)
    PROVE  DuesAreRight'
<1> DEFINE done == run[p].done
           again(s) == [scheds[s] EXCEPT !.next = NextDue(run[p].now)]
<1>1. scheds \in Seq(ScheduleRows) /\ run[p] \in Ticks
    BY DEF PromiseInv, ScheduleInv, SchedsAreRight, TicksAreRight
<1>2. Len(scheds) <= NumSchedules /\ \A s \in DOMAIN scheds : scheds[s].next \in Dues
    BY DEF PromiseInv, DuesAreRight
<1>3. NextDue(run[p].now) \in Dues
    BY <1>1, LaterDue DEF Ticks
<1>4. \A s \in DOMAIN scheds : again(s).next = NextDue(run[p].now)
    <2>1. \A s \in DOMAIN scheds : scheds[s] \in ScheduleRows
        BY <1>1
    <2> QED BY <2>1 DEF ScheduleRows
<1>5. scheds' = [s \in DOMAIN scheds |-> IF s \in done THEN again(s) ELSE scheds[s]]
    BY DEF TickCommit
<1> HIDE DEF done, again
<1>6. DOMAIN scheds' = DOMAIN scheds /\ \A s \in DOMAIN scheds : scheds'[s].next \in Dues
    BY <1>2, <1>3, <1>4, <1>5
<1>7. scheds' \in Seq(ScheduleRows)
    BY TickRows DEF PromiseInv, ScheduleInv, SchedsAreRight
<1>8. Len(scheds') <= Len(scheds) /\ Len(scheds) \in Nat /\ Len(scheds') \in Nat
    BY <1>1, <1>6, <1>7, NoLonger
<1> QED BY <1>2, <1>6, <1>8, SchedulesAssumption DEF DuesAreRight

\* Handlers and their keys.
LEMMA AsksKeepKeys ==
    ASSUME PromiseInv, NEW p \in Handlers, PatchAsk(p) \/ ExecuteAsk(p)
    PROVE  KeysAreFree'
<1>1. req \in [Handlers -> ScheduleRequests] /\ requests' = requests
    BY DEF PromiseInv, ScheduleInv, AsksAreRight, PatchAsk, ExecuteAsk
<1>2. CASE PatchAsk(p)
    <2>1. PICK s \in DOMAIN scheds, b \in DOMAIN bases :
             Asks(p, [Quiet EXCEPT !.op = "patch", !.sched = s, !.base = b])
        BY <1>2 DEF PatchAsk
    <2> DEFINE r == [Quiet EXCEPT !.op = "patch", !.sched = s, !.base = b]
    <2>2. r.op = "patch" /\ req' = [req EXCEPT ![p] = r]
        BY <2>1 DEF Quiet, Asks
    <2> HIDE DEF r
    <2>3. \A q \in Handlers : req'[q] = IF q = p THEN r ELSE req[q]
        BY <1>1, <2>2
    <2> QED BY <1>1, <2>2, <2>3, KeysKept
<1>3. CASE ExecuteAsk(p)
    <2>1. PICK k \in Keys, b \in DOMAIN bases :
             /\ ~KeyTaken(k) /\ ~Reused(b, k) /\ ~Refused(b, k)
             /\ Asks(p, [Quiet EXCEPT !.op = "execute", !.key = k, !.base = b])
        BY <1>3 DEF ExecuteAsk
    <2> DEFINE r == [Quiet EXCEPT !.op = "execute", !.key = k, !.base = b]
    <2>2. r.op = "execute" /\ r.key = k /\ req' = [req EXCEPT ![p] = r]
        BY <2>1 DEF Quiet, Asks
    <2> HIDE DEF r
    <2>3. \A q \in Handlers : req'[q] = IF q = p THEN r ELSE req[q]
        BY <1>1, <2>2
    <2>4. requests[k] = 0
        BY <2>1 DEF Reused, Refused
    <2>5. \A q \in Handlers : req[q].op = "execute" => req[q].key # k
        BY <2>1 DEF KeyTaken
    <2> QED BY <1>1, <2>2, <2>3, <2>4, <2>5 DEF PromiseInv, KeysAreFree
<1> QED BY <1>2, <1>3

LEMMA RepliesKeepKeys ==
    ASSUME PromiseInv, NEW p \in Handlers, Replies(p),
           \A k \in Keys : k # req[p].key \/ req[p].op # "execute" => requests'[k] = requests[k]
    PROVE  KeysAreFree'
<1>1. req \in [Handlers -> ScheduleRequests] /\ req' = [req EXCEPT ![p] = Quiet]
    BY DEF PromiseInv, ScheduleInv, AsksAreRight, Replies
<1>2. \A q \in Handlers : req'[q] = IF q = p THEN Quiet ELSE req[q]
    BY <1>1
<1>3. ASSUME NEW q \in Handlers, req'[q].op = "execute"
      PROVE  req'[q] = req[q] /\ requests'[req[q].key] = requests[req[q].key]
    <2>1. q # p /\ req'[q] = req[q] /\ req[q].op = "execute"
        BY <1>2, <1>3, QuietTyped
    <2>2. req[q].key \in Keys
        BY <2>1 DEF PromiseInv, ScheduleInv, AsksAreRight
    <2>3. req[q].key # req[p].key \/ req[p].op # "execute"
        BY <2>1 DEF PromiseInv, KeysAreFree
    <2> QED BY <2>1, <2>2, <2>3
<1> QED BY <1>3, KeysKept

LEMMA StartsKeep ==
    ASSUME PromiseInv, NEW made, Starts(made), occs' \in [Occurrences -> Outcomes]
    PROVE  OccsAreRight' /\ Recorded(jobs, requests)'
<1>1. Adds(jobs, requests, made, jobs', requests') /\ Recorded(jobs, requests)
    BY DEF Starts, PromiseInv
<1>2. Recorded(jobs', requests')
    BY <1>1, AddedJobs
<1>3. ASSUME NEW o \in Occurrences, occs'[o] = None
      PROVE  requests'[o] = 0
    <2>1. occs[o] = None
        BY <1>3 DEF Starts
    <2>2. o \notin Started(made)
        BY <1>3, SchedulesAssumption DEF Starts
    <2>3. requests'[o] = requests[o]
        BY <1>1, <2>2 DEF Adds, Triggers
    <2> QED BY <2>1, <2>3 DEF PromiseInv, OccsAreRight
<1> QED BY <1>2, <1>3 DEF OccsAreRight

\* A job that ends or is retried keeps its row.
LEMMA EndedRow ==
    ASSUME PromiseInv, NEW j \in DOMAIN jobs, JobEnds(j) \/ JobRetried(j)
    PROVE  /\ Recorded(jobs, requests)'
           /\ RunsOf(jobs') = RunsOf(jobs)
           /\ LiveOf(jobs') = IF jobs[j].active THEN LiveOf(jobs) \ {jobs[j].trigger}
                              ELSE LiveOf(jobs) \cup {jobs[j].trigger}
           /\ jobs[j].active <=> jobs[j].trigger \in LiveOf(jobs)
<1> DEFINE x == [jobs[j] EXCEPT !.active = ~jobs[j].active]
<1>1. Recorded(jobs, requests) /\ jobs[j] \in JobRows
    BY DEF PromiseInv, Recorded
<1>2. x \in JobRows /\ x.trigger = jobs[j].trigger /\ x.base = jobs[j].base /\ x.active = ~jobs[j].active
    BY <1>1 DEF JobRows
<1>3. jobs' = [jobs EXCEPT ![j] = x] /\ requests' = requests
    BY DEF JobEnds, JobRetried
<1> HIDE DEF x
<1>4. /\ jobs' \in Seq(JobRows) /\ DOMAIN jobs' = DOMAIN jobs /\ jobs'[j] = x
      /\ \A k \in DOMAIN jobs : k # j => jobs'[k] = jobs[k]
    <2>1. jobs \in Seq(JobRows)
        BY <1>1 DEF Recorded
    <2> QED BY <1>2, <1>3, <2>1
<1>5. /\ Recorded(jobs', requests) /\ RunsOf(jobs') = RunsOf(jobs)
      /\ LiveOf(jobs') = IF x.active THEN LiveOf(jobs) \cup {jobs[j].trigger}
                         ELSE LiveOf(jobs) \ {jobs[j].trigger}
    BY <1>1, <1>2, <1>4, EndedJob
<1>6. Recorded(jobs, requests)'
    BY <1>3, <1>5 DEF Recorded
<1>7. jobs[j].active <=> jobs[j].trigger \in LiveOf(jobs)
    BY <1>1 DEF LiveOf, Recorded
<1> QED BY <1>2, <1>5, <1>6, <1>7

LEMMA PromiseNext == PromiseInv /\ [NextSchedules]_vars => PromiseInv'
<1> SUFFICES ASSUME PromiseInv, [NextSchedules]_vars PROVE PromiseInv'
    OBVIOUS
<1>0. ScheduleInv' /\ CatalogInv /\ Bounded
    BY ScheduleNext DEF PromiseInv, ScheduleInv
<1>1. ASSUME Bounded', UNCHANGED <<scheds, occs, jobs, requests, req>>
      PROVE  PromiseInv'
    BY <1>0, <1>1, KeptPromise DEF PromiseInv
<1>2. CASE UNCHANGED vars
    <2>1. Bounded' /\ UNCHANGED <<scheds, occs, jobs, requests, req>>
        BY <1>0, <1>2, BoundedStays DEF vars, catVars, ownVars
    <2> QED BY <1>1, <2>1
<1>3. ASSUME NEW p \in Handlers, Ask(p)
      PROVE  PromiseInv'
    <2>1. CASE CatalogAsk(p) /\ UNCHANGED ownVars
        BY <1>0, <1>1, <2>1, BoundedAsk DEF ownVars
    <2>2. CASE CreateSchedule(p) \/ Disable(p)
        <3>1. CatalogStill /\ UNCHANGED <<occs, jobs, requests, req, owner>>
            BY <2>2 DEF CreateSchedule, Disable
        <3>2. Bounded' /\ DuesAreRight'
            BY <2>2, <3>1, StillBounded, RowsKeepDues
        <3> QED BY <1>0, <3>1, <3>2, KeptPromise DEF PromiseInv
    <2>3. CASE PatchAsk(p) \/ ExecuteAsk(p)
        <3>1. CatalogStill /\ UNCHANGED <<scheds, occs, jobs, requests, owner>>
            BY <2>3 DEF PatchAsk, ExecuteAsk
        <3>2. Bounded' /\ KeysAreFree'
            BY <2>3, <3>1, StillBounded, AsksKeepKeys
        <3> QED BY <1>0, <3>1, <3>2, KeptPromise DEF PromiseInv
    <2> QED BY <1>3, <2>1, <2>2, <2>3 DEF Ask
<1>4. ASSUME NEW p \in Handlers, Replies(p), CatalogStill, UNCHANGED <<occs, jobs, requests>>,
             DuesAreRight'
      PROVE  PromiseInv'
    <2>1. Bounded' /\ KeysAreFree'
        BY <1>4, StillBounded, RepliesKeepKeys DEF Replies
    <2> QED BY <1>0, <1>4, <2>1, KeptPromise DEF PromiseInv
<1>5. ASSUME NEW p \in Handlers, Work(p)
      PROVE  PromiseInv'
    <2>1. CASE CatalogWork(p) /\ UNCHANGED ownVars
        BY <1>0, <1>1, <2>1, BoundedWork DEF ownVars
    <2>2. CASE ArchiveSteps(p)
        <3>1. Archive(p) /\ UNCHANGED <<occs, jobs, requests, req>>
            BY <2>2 DEF ArchiveSteps
        <3>2. Bounded' /\ DuesAreRight'
            BY <1>0, <2>2, <3>1, BoundedWork, RowsKeepDues
        <3> QED BY <1>0, <3>1, <3>2, KeptPromise DEF PromiseInv
    <2>3. CASE UpdateSchedule(p)
        BY <1>4, <2>3, RowsKeepDues DEF UpdateSchedule
    <2>4. CASE Execute(p) /\ BaseReady(req[p].base)
        <3> DEFINE made == <<NewJob(req[p].base, req[p].key)>>
        <3>1. /\ Replies(p) /\ CatalogStill /\ UNCHANGED <<scheds, occs>>
              /\ requests' = [requests EXCEPT ![req[p].key] = Len(jobs')]
            BY <2>4 DEF Execute
        <3>2. Starts(made)
            BY <2>4, ExecuteStarts
        <3> HIDE DEF made
        <3>3. OccsAreRight' /\ Recorded(jobs, requests)'
            BY <3>1, <3>2, StartsKeep DEF PromiseInv, OccsAreRight
        <3>4. requests \in [Triggers -> Nat]
            BY DEF PromiseInv, Recorded
        <3>5. \A k \in Keys : k # req[p].key \/ req[p].op # "execute" => requests'[k] = requests[k]
            BY <2>4, <3>1, <3>4 DEF Execute, Triggers
        <3>6. Bounded' /\ KeysAreFree'
            BY <3>1, <3>5, StillBounded, RepliesKeepKeys DEF Replies
        <3>7. DuesAreRight'
            BY <3>1 DEF PromiseInv, DuesAreRight
        <3> QED BY <1>0, <3>3, <3>6, <3>7 DEF PromiseInv
    <2>5. CASE Execute(p) /\ ~BaseReady(req[p].base)
        <3>1. Replies(p) /\ CatalogStill /\ UNCHANGED <<scheds, occs, jobs, requests>>
            BY <2>5 DEF Execute
        <3> QED BY <1>4, <3>1, KeptPromise
    <2> QED BY <1>5, <2>1, <2>2, <2>3, <2>4, <2>5 DEF Work
<1>6. ASSUME NEW p \in Schedulers, TickBegin(p) \/ TickTake(p) \/ TickFails(p)
      PROVE  PromiseInv'
    <2>1. /\ CatalogStill /\ owner' \in {owner, None, p}
          /\ UNCHANGED <<scheds, occs, jobs, requests, req>>
        BY <1>6 DEF TickBegin, TickTake, TickFails
    <2> QED BY <1>1, <2>1, StillBounded
<1>7. ASSUME NEW p \in Schedulers, TickCommit(p)
      PROVE  PromiseInv'
    <2>1. CatalogStill /\ owner' \in {owner, None} /\ req' = req
        BY <1>7 DEF TickCommit
    <2>2. PICK made : Starts(made) /\ Started(made) \subseteq Occurrences
        BY <1>7, TickStarts
    <2>3. occs' \in [Occurrences -> Outcomes]
        BY <1>7, TickStarts
    <2>4. OccsAreRight' /\ Recorded(jobs, requests)'
        BY <2>2, <2>3, StartsKeep
    <2>5. Bounded' /\ DuesAreRight'
        BY <1>7, <2>1, StillBounded, TickKeepsDues
    <2>6. \A k \in Keys : requests'[k] = requests[k]
        BY <2>2, SchedulesAssumption DEF Starts, Adds, Triggers, Occurrences, Dues
    <2>7. KeysAreFree'
        <3>1. \A q \in Handlers : req[q].op = "execute" => req[q].key \in Keys
            BY DEF PromiseInv, ScheduleInv, AsksAreRight
        <3> QED BY <2>1, <2>6, <3>1, KeysKept
    <2> QED BY <1>0, <2>4, <2>5, <2>7 DEF PromiseInv
<1>8. ASSUME NEW p \in Handlers \cup Schedulers, Fail(p)
      PROVE  PromiseInv'
    <2>1. CASE p \in Handlers /\ (ImportFails(p) \/ Crash(p)) /\ UNCHANGED ownVars
        BY <1>0, <1>1, <2>1, BoundedWork DEF ownVars
    <2>2. CASE p \in Handlers /\ RequestDies(p)
        <3>1. Replies(p) /\ CatalogStill /\ UNCHANGED <<scheds, occs, jobs, requests>>
            BY <2>2 DEF RequestDies
        <3> QED BY <1>4, <2>2, <3>1, KeptPromise
    <2> QED BY <1>6, <1>8, <2>1, <2>2 DEF Fail
<1>9. CASE DeadlockAborts
    <2>1. PICK p \in Handlers, q \in Handlers :
             (Answered(p) /\ UNCHANGED req) \/ (Replies(q) /\ UNCHANGED tx)
        BY <1>9 DEF DeadlockAborts
    <2>2. UNCHANGED <<rule, bases, files, scheds, occs, jobs, requests>>
        BY <1>9 DEF DeadlockAborts
    <2>3. CASE Answered(p) /\ UNCHANGED req
        <3>1. \A r \in Handlers : owner' = r => owner = r /\ tx'[r] = tx[r]
            BY <1>0, <2>3, AnsweredRequest
        <3>2. Bounded'
            BY <1>0, <2>2, <3>1, BoundedStays
        <3> QED BY <1>1, <2>2, <2>3, <3>2
    <2>4. CASE Replies(q) /\ UNCHANGED tx
        <3>1. CatalogStill /\ DuesAreRight'
            BY <2>2, <2>4, KeptPromise DEF CatalogStill
        <3> QED BY <1>4, <2>2, <2>4, <3>1
    <2> QED BY <2>1, <2>3, <2>4
<1>10. CASE Tick
    <2>1. CatalogStill /\ owner' = owner /\ UNCHANGED <<scheds, occs, jobs, requests, req>>
        BY <1>10 DEF Tick
    <2> QED BY <1>1, <2>1, StillBounded
<1>11. ASSUME NEW j \in DOMAIN jobs, JobEnds(j) \/ JobRetried(j)
       PROVE  PromiseInv'
    <2>1. CatalogStill /\ owner' = owner /\ UNCHANGED <<scheds, occs, requests, req>>
        BY <1>11 DEF JobEnds, JobRetried
    <2>2. Bounded' /\ Recorded(jobs, requests)'
        BY <1>11, <2>1, StillBounded, EndedRow
    <2> QED BY <1>0, <2>1, <2>2, KeptPromise DEF PromiseInv
<1> QED BY <1>2, <1>3, <1>5, <1>6, <1>7, <1>8, <1>9, <1>10, <1>11
        DEF NextSchedules, TickStep, Aborts

LEMMA PromiseIsInv == SchedulesSpec => []PromiseInv
BY InitPromise, PromiseNext, PTL DEF SchedulesSpec

-----------------------------------------------------------------------------
(* The promise is kept *)

LEMMA InitMapped == InitSchedules => Promise!Init
<1> SUFFICES ASSUME InitSchedules PROVE Promise!Init
    OBVIOUS
<1>1. /\ jobs = <<>> /\ occs = [o \in Occurrences |-> None]
      /\ requests = [t \in Triggers |-> 0] /\ Recorded(jobs, requests)
      /\ bases \in {<<>>, <<LegacyBase(Rows)>>}
    BY InitPromise DEF InitSchedules, Init, PromiseInv
<1>2. Runs = [t \in Triggers |-> <<>>]
    <2>1. RunsOf(jobs) = [t \in Triggers |-> IF requests[t] = 0 THEN <<>> ELSE <<jobs[requests[t]].base>>]
        BY <1>1, RunsAre
    <2>2. \A t \in Triggers : requests[t] = 0
        BY <1>1
    <2> QED BY <2>1, <2>2, Seen
<1>3. Skipped = {}
    BY <1>1 DEF Skipped
<1>4. Live = {}
    BY <1>1 DEF Live
<1>5. Removed = {}
    <2> DEFINE x == LegacyBase(Rows)
    <2>1. x.status = "ready"
        BY DEF LegacyBase
    <2>2. bases = <<>> \/ bases = <<x>>
        BY <1>1
    <2> HIDE DEF x
    <2>3. \A b \in DOMAIN bases : bases[b].status = "ready"
        BY <2>1, <2>2
    <2> QED BY <2>3 DEF Removed
<1> QED BY <1>2, <1>3, <1>4, <1>5 DEF Promise!Init

\* Jobs, occurrences and removals stay: so does what the triggers see.
LEMMA SameSeen ==
    ASSUME UNCHANGED <<jobs, occs>>, Grown(bases, bases')
    PROVE  UNCHANGED Promise!vars
<1>1. Runs' = Runs /\ Live' = Live
    BY DEF Runs, JobsOf, Live
<1>2. Skipped' = Skipped
    BY DEF Skipped
<1>3. Removed' = Removed
    BY DEF Removed, Grown
<1> QED BY <1>1, <1>2, <1>3 DEF Promise!vars

LEMMA RemovalMapped ==
    ASSUME PromiseInv, NEW p \in Handlers, Archive(p), UNCHANGED <<jobs, occs>>
    PROVE  Promise!Next \/ UNCHANGED Promise!vars
<1> DEFINE b == tx[p].base
<1>1. /\ b \in DOMAIN bases /\ bases \in Seq(BaseStates) /\ Len(bases) <= MaxBases
    BY ArchiveKeeps DEF PromiseInv, ScheduleInv, CatalogInv, CatalogTypes, Bounded
<1>2. CASE ~MayArchive(b)
    <2>1. bases' = bases
        BY <1>2 DEF Archive
    <2> QED BY <2>1, SameSeen DEF Grown
<1>3. CASE MayArchive(b)
    <2> DEFINE x == [bases[b] EXCEPT !.status = "archived"]
    <2>1. bases' = [bases EXCEPT ![b] = x]
        BY <1>3 DEF Archive
    <2>2. x.status = "archived"
        <3>1. bases[b] \in BaseStates
            BY <1>1
        <3> QED BY <3>1 DEF BaseStates
    <2>3. b \in 1 .. MaxBases
        BY <1>1, SchedulesAssumption
    <2> HIDE DEF x, b
    <2>4. /\ DOMAIN bases' = DOMAIN bases /\ bases'[b] = x
          /\ \A c \in DOMAIN bases : c # b => bases'[c] = bases[c]
        BY <1>1, <2>1
    <2>5. Removed' = Removed \cup {b}
        BY <1>1, <2>2, <2>4 DEF Removed
    <2>6. Runs' = Runs /\ Live' = Live /\ Skipped' = Skipped
        BY DEF Runs, JobsOf, Live, Skipped
    <2>7. Promise!Remove(b)
        BY <2>5, <2>6 DEF Promise!Remove
    <2> QED BY <2>3, <2>7 DEF Promise!Next
<1> QED BY <1>2, <1>3

LEMMA EndMapped ==
    ASSUME PromiseInv, NEW j \in DOMAIN jobs, JobEnds(j) \/ JobRetried(j)
    PROVE  Promise!Next
<1> DEFINE t == jobs[j].trigger
<1>1. /\ Runs' = Runs
      /\ Live' = IF jobs[j].active THEN Live \ {t} ELSE Live \cup {t}
      /\ jobs[j].active <=> t \in Live
    BY EndedRow, Seen, SeenNext
<1>2. occs' = occs /\ bases' = bases
    BY DEF JobEnds, JobRetried, CatalogStill
<1>3. Skipped' = Skipped /\ Removed' = Removed
    BY <1>2 DEF Skipped, Removed
<1>4. CASE jobs[j].active
    <2>1. Promise!Finish(t)
        BY <1>1, <1>3, <1>4 DEF Promise!Finish
    <2> QED BY <1>1, <1>4, <2>1 DEF Promise!Next
<1>5. CASE ~jobs[j].active
    <2>1. Recorded(jobs, requests)
        BY DEF PromiseInv
    <2>2. t \in Triggers /\ requests[t] # 0
        <3>1. jobs \in Seq(JobRows) /\ requests[t] = j
            BY <2>1 DEF Recorded
        <3>2. jobs[j] \in JobRows /\ j # 0
            BY <3>1
        <3> QED BY <3>1, <3>2 DEF JobRows
    <2>3. Runs = [u \in Triggers |-> IF requests[u] = 0 THEN <<>> ELSE <<jobs[requests[u]].base>>]
        BY <2>1, RunsAre, Seen
    <2>4. Runs[t] # <<>>
        <3>1. \A v : <<v>> # <<>>
            OBVIOUS
        <3> QED BY <2>2, <2>3, <3>1
    <2>5. Promise!Retry(t)
        BY <1>1, <1>3, <1>5, <2>4 DEF Promise!Retry
    <2> QED BY <1>1, <1>5, <2>2, <2>5 DEF Promise!Next
<1> QED BY <1>4, <1>5

LEMMA StartMapped ==
    ASSUME PromiseInv, NEW made, Starts(made), PromiseInv'
    PROVE  Promise!Next
<1> DEFINE started == Started(made)
           refused == Skipped' \ Skipped
<1>1. /\ Adds(jobs, requests, made, jobs', requests') /\ Recorded(jobs, requests)
      /\ Recorded(jobs', requests') /\ bases' = bases
    BY AddedJobs DEF Starts, PromiseInv
<1>2. /\ Runs = [t \in Triggers |-> IF requests[t] = 0 THEN <<>> ELSE <<jobs[requests[t]].base>>]
      /\ Runs' = [t \in Triggers |-> IF requests'[t] = 0 THEN <<>> ELSE <<jobs'[requests'[t]].base>>]
    <2>1. RunsOf(jobs) = [t \in Triggers |-> IF requests[t] = 0 THEN <<>> ELSE <<jobs[requests[t]].base>>]
        BY <1>1, RunsAre
    <2>2. RunsOf(jobs') = [t \in Triggers |-> IF requests'[t] = 0 THEN <<>> ELSE <<jobs'[requests'[t]].base>>]
        BY <1>1, RunsAre
    <2> QED BY <2>1, <2>2, Seen, SeenNext
<1>3. /\ LiveOf(jobs') = LiveOf(jobs) \cup started
      /\ \A j \in DOMAIN jobs : j \in DOMAIN jobs' /\ jobs'[j] = jobs[j]
      /\ \A i \in DOMAIN made : jobs'[Len(jobs) + i] = made[i]
    BY <1>1, AddedJobs
<1>4. Live' = Live \cup started
    BY <1>3, Seen, SeenNext
<1>5. \A i \in DOMAIN made : made[i].trigger \in Triggers
    <2>1. made \in Seq(JobRows)
        BY <1>1 DEF Adds
    <2>2. \A i \in DOMAIN made : made[i] \in JobRows
        BY <2>1
    <2> QED BY <2>2 DEF JobRows
<1>6. \A t \in started : t \in Triggers /\ requests[t] = 0 /\ Runs[t] = <<>>
    BY <1>1, <1>2, <1>5 DEF Started, Adds
<1>7. Removed' = Removed
    BY <1>1 DEF Removed
<1>8. ASSUME NEW t \in Triggers
      PROVE  IF t \in started THEN \E b \in (1 .. MaxBases) \ Removed : Runs'[t] = <<b>>
                              ELSE Runs'[t] = Runs[t]
    <2>1. CASE t \in started
        <3>1. PICK i \in DOMAIN made : t = made[i].trigger
            BY <2>1 DEF Started
        <3>2. requests'[t] = Len(jobs) + i /\ jobs'[Len(jobs) + i] = made[i]
            BY <1>1, <1>3, <3>1 DEF Adds
        <3>3. Len(jobs) + i # 0
            <4>1. jobs \in Seq(JobRows) /\ made \in Seq(JobRows)
                BY <1>1 DEF Recorded, Adds
            <4>2. Len(jobs) \in Nat /\ i \in Nat /\ i # 0
                BY <4>1
            <4> QED BY <4>2
        <3>4. Runs'[t] = <<made[i].base>>
            BY <1>2, <3>2, <3>3
        <3>5. made[i].base \in DOMAIN bases /\ bases[made[i].base].status # "archived"
            BY DEF Starts
        <3>6. made[i].base \in (1 .. MaxBases) \ Removed
            <4>1. bases \in Seq(BaseStates) /\ Len(bases) <= MaxBases
                BY DEF PromiseInv, ScheduleInv, CatalogInv, CatalogTypes, Bounded
            <4>2. DOMAIN bases \subseteq 1 .. MaxBases
                BY <4>1, SchedulesAssumption
            <4> QED BY <3>5, <4>2 DEF Removed
        <3> QED BY <2>1, <3>4, <3>6
    <2>2. CASE t \notin started
        <3>1. requests'[t] = requests[t]
            BY <1>1, <2>2 DEF Adds
        <3>2. requests[t] # 0 => jobs'[requests[t]] = jobs[requests[t]]
            BY <1>1, <1>3 DEF Recorded
        <3> QED BY <1>2, <2>2, <3>1, <3>2
    <2> QED BY <2>1, <2>2
<1>9. ASSUME NEW t \in started, NEW u \in started \cup Live, t # u
      PROVE  ~Promise!Related(t, u)
    <2>1. CASE t \in Occurrences /\ u \in Occurrences
        <3>1. u[1] # t[1]
            BY <1>9, <2>1 DEF Starts
        <3> QED BY <2>1, <3>1 DEF Promise!Related, SchedulesOf
    <2>2. CASE t \notin Occurrences \/ u \notin Occurrences
        BY <2>2 DEF Promise!Related, SchedulesOf
    <2> QED BY <2>1, <2>2
<1>10. \A o \in Occurrences : occs[o] # None => occs'[o] = occs[o]
    BY DEF Starts
<1>11. Skipped' = Skipped \cup refused
    BY <1>10 DEF Skipped
<1>12. ASSUME NEW o \in refused
       PROVE  o \in Triggers /\ Runs[o] = <<>> /\ o \notin Skipped /\ o \notin started
    <2>1. o \in Occurrences /\ occs'[o] # occs[o] /\ occs'[o] # "created"
        BY <1>12 DEF Skipped
    <2>2. occs[o] = None
        BY <1>10, <2>1
    <2>3. requests[o] = 0
        BY <2>1, <2>2 DEF PromiseInv, OccsAreRight
    <2>4. o \notin started
        BY <2>1 DEF Starts
    <2> QED BY <1>2, <1>12, <2>1, <2>3, <2>4 DEF Triggers
<1>13. \A t \in started : t \notin Skipped
    BY DEF Starts, Skipped
<1>14. started \in SUBSET Promise!Undecided /\ refused \in SUBSET (Promise!Undecided \ started)
    BY <1>6, <1>12, <1>13 DEF Promise!Undecided
<1>15. DOMAIN Runs' = Triggers
    BY <1>2
<1> HIDE DEF started, refused
<1>16. Promise!Decide(started, refused)
    BY <1>4, <1>7, <1>8, <1>9, <1>11, <1>15 DEF Promise!Decide
<1> QED BY <1>14, <1>16 DEF Promise!Next

LEMMA StepMapped == PromiseInv /\ [NextSchedules]_vars => [Promise!Next]_(Promise!vars)
<1> SUFFICES ASSUME PromiseInv, [NextSchedules]_vars
             PROVE  Promise!Next \/ UNCHANGED Promise!vars
    OBVIOUS
<1>0. PromiseInv' /\ CatalogInv
    BY PromiseNext DEF PromiseInv, ScheduleInv
<1>1. ASSUME UNCHANGED <<jobs, occs>>, bases' = bases
      PROVE  UNCHANGED Promise!vars
    BY <1>1, SameSeen DEF Grown
<1>2. CASE UNCHANGED vars
    BY <1>1, <1>2 DEF vars, catVars, ownVars
<1>3. ASSUME NEW p \in Handlers, Ask(p)
      PROVE  UNCHANGED Promise!vars
    <2>1. CASE CatalogAsk(p) /\ UNCHANGED ownVars
        BY <1>0, <1>1, <2>1, CatalogAskKeeps DEF ownVars
    <2>2. CASE CreateSchedule(p) \/ Disable(p) \/ PatchAsk(p) \/ ExecuteAsk(p)
        <3>1. CatalogStill /\ UNCHANGED <<jobs, occs>>
            BY <2>2 DEF CreateSchedule, Disable, PatchAsk, ExecuteAsk
        <3> QED BY <1>1, <3>1 DEF CatalogStill
    <2> QED BY <1>3, <2>1, <2>2 DEF Ask
<1>4. ASSUME NEW p \in Handlers, CatalogWork(p) \/ ImportFails(p) \/ Crash(p), UNCHANGED ownVars
      PROVE  UNCHANGED Promise!vars
    BY <1>0, <1>4, CatalogWorkKeeps, SameSeen DEF ownVars
<1>5. ASSUME NEW p \in Handlers, Work(p)
      PROVE  Promise!Next \/ UNCHANGED Promise!vars
    <2>1. CASE ArchiveSteps(p)
        BY <2>1, RemovalMapped DEF ArchiveSteps
    <2>2. CASE Execute(p) /\ BaseReady(req[p].base)
        BY <1>0, <2>2, ExecuteStarts, StartMapped
    <2>3. CASE UpdateSchedule(p) \/ (Execute(p) /\ ~BaseReady(req[p].base))
        <3>1. CatalogStill /\ UNCHANGED <<jobs, occs>>
            BY <2>3 DEF UpdateSchedule, Execute
        <3> QED BY <1>1, <3>1 DEF CatalogStill
    <2> QED BY <1>4, <1>5, <2>1, <2>2, <2>3 DEF Work
<1>6. ASSUME NEW p \in Schedulers, TickBegin(p) \/ TickTake(p) \/ TickFails(p)
      PROVE  UNCHANGED Promise!vars
    <2>1. CatalogStill /\ UNCHANGED <<jobs, occs>>
        BY <1>6 DEF TickBegin, TickTake, TickFails
    <2> QED BY <1>1, <2>1 DEF CatalogStill
<1>7. ASSUME NEW p \in Schedulers, TickCommit(p)
      PROVE  Promise!Next
    BY <1>0, <1>7, TickStarts, StartMapped
<1>8. ASSUME NEW p \in Handlers \cup Schedulers, Fail(p)
      PROVE  UNCHANGED Promise!vars
    <2>1. CASE p \in Handlers /\ RequestDies(p)
        <3>1. CatalogStill /\ UNCHANGED <<jobs, occs>>
            BY <2>1 DEF RequestDies
        <3> QED BY <1>1, <3>1 DEF CatalogStill
    <2> QED BY <1>4, <1>6, <1>8, <2>1 DEF Fail
<1>9. CASE DeadlockAborts \/ Tick
    <2>1. bases' = bases /\ UNCHANGED <<jobs, occs>>
        BY <1>9 DEF DeadlockAborts, Tick, CatalogStill
    <2> QED BY <1>1, <2>1
<1>10. ASSUME NEW j \in DOMAIN jobs, JobEnds(j) \/ JobRetried(j)
       PROVE  Promise!Next
    BY <1>10, EndMapped
<1> QED BY <1>2, <1>3, <1>5, <1>6, <1>7, <1>8, <1>9, <1>10
        DEF NextSchedules, TickStep, Aborts

\* Whatever replicas, clocks, deadlocks, removals and operators who retry ended
\* jobs do, keys and occurrences start at most one job each, none starts beside
\* an unfinished job of its schedule or from a removed base: the schedules
\* implement the triggers (create_execution, process_due_schedules,
\* archive_dataset, control_job).
THEOREM SchedulesImplementTriggers == SchedulesSpec => KeepsPromise
<1>1. InitSchedules => Promise!Init
    BY InitMapped
<1>2. PromiseInv /\ [NextSchedules]_vars => [Promise!Next]_(Promise!vars)
    BY StepMapped
<1> QED BY <1>1, <1>2, PromiseIsInv, PTL DEF KeepsPromise, Promise!Spec, SchedulesSpec

LEMMA TriggersKeepApart ==
    Promise!Spec => []Promise!OneRunPerTrigger /\ Promise!StartsAlone
<1>1. Promise!Init => Promise!OneRunPerTrigger
    <2> SUFFICES ASSUME Promise!Init PROVE Promise!OneRunPerTrigger
        OBVIOUS
    <2>1. Len(<<>>) <= 1
        OBVIOUS
    <2> QED BY <2>1 DEF Promise!Init, Promise!OneRunPerTrigger
<1> DEFINE alone ==
        \A t \in Triggers, u \in Live' : Runs[t] = <<>> /\ Runs'[t] # <<>> /\ t # u => ~Promise!Related(t, u)
<1>2. ASSUME Promise!OneRunPerTrigger, [Promise!Next]_(Promise!vars)
      PROVE  Promise!OneRunPerTrigger' /\ [alone]_(Promise!vars)
    <2>1. CASE Runs' = Runs
        BY <1>2, <2>1 DEF Promise!OneRunPerTrigger
    <2>2. ASSUME NEW started \in SUBSET Promise!Undecided, NEW refused, Promise!Decide(started, refused)
          PROVE  Promise!OneRunPerTrigger' /\ alone
        <3>1. ASSUME NEW t \in Triggers PROVE Len(Runs'[t]) <= 1
            <4>1. Runs'[t] = Runs[t] \/ \E b \in (1 .. MaxBases) \ Removed : Runs'[t] = <<b>>
                BY <2>2 DEF Promise!Decide
            <4>2. CASE Runs'[t] = Runs[t]
                BY <1>2, <4>2 DEF Promise!OneRunPerTrigger
            <4>3. ASSUME NEW b, Runs'[t] = <<b>> PROVE Len(Runs'[t]) <= 1
                <5>1. Len(<<b>>) = 1
                    OBVIOUS
                <5> QED BY <4>3, <5>1
            <4> QED BY <4>1, <4>2, <4>3
        <3>2. /\ Live' = Live \cup started
              /\ \A t \in started, u \in started \cup Live : t # u => ~Promise!Related(t, u)
              /\ \A t \in Triggers : t \notin started => Runs'[t] = Runs[t]
            BY <2>2 DEF Promise!Decide
        <3> QED BY <3>1, <3>2 DEF Promise!OneRunPerTrigger, Promise!Related
    <2>3. CASE Promise!Next /\ Runs' # Runs
        <3>1. PICK started \in SUBSET Promise!Undecided :
                  \E refused \in SUBSET (Promise!Undecided \ started) : Promise!Decide(started, refused)
            BY <2>3 DEF Promise!Next, Promise!Finish, Promise!Retry, Promise!Remove
        <3> QED BY <2>2, <3>1
    <2> QED BY <1>2, <2>1, <2>3 DEF Promise!vars
<1> HIDE DEF alone
<1>3. Promise!Spec => []Promise!OneRunPerTrigger /\ [][alone]_(Promise!vars)
    BY <1>1, <1>2, PTL DEF Promise!Spec
<1>4. [][alone]_(Promise!vars) => Promise!StartsAlone
    BY DEF alone, Promise!StartsAlone
<1> QED BY <1>3, <1>4, PTL

\* What the promise is for: no key and no occurrence ever has a second job, and
\* none starts beside an unfinished job of its schedule (the unique rows and
\* locks that create_execution and process_due_schedules rely on).
THEOREM OneJobPerTrigger ==
    SchedulesSpec => []Promise!OneRunPerTrigger /\ Promise!StartsAlone
BY SchedulesImplementTriggers, TriggersKeepApart, PTL DEF KeepsPromise
=============================================================================
