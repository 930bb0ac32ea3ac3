------------------------- MODULE PortalAdaptersProofs -------------------------
(***************************************************************************)
(* What an adapter reports is true, for any number of sessions and items,  *)
(* any employees and any order of answers.                                 *)
(***************************************************************************)
EXTENDS PortalAdapters, TLAPS

Docs == {"blank", "login", "home", "form", "card", "odd"}
Changes == {"none", "part", "full"}
Pages == [doc : Docs, cpf : Cpfs \cup {None}, filled : Cpfs \cup {None},
          panel : portal.known \cup {None}, rows : SUBSET portal.known,
          text : BOOLEAN, change : Changes]
Queries == [what : {"fields", "employee"}, cpf : Cpfs \cup {None},
            reg : Regs \cup {None}, fields : Cpfs \cup {None}]

\* The page shows employees of the portal only.
PagesOK ==
    /\ portal.platform \in Platforms /\ portal.known \subseteq Records
    /\ portal.asks \in BOOLEAN /\ portal.accepts \in BOOLEAN
    /\ page \in Pages /\ seen \in Pages
    /\ item \in WorkItems
    /\ flight \subseteq Queries

\* While an item is being consulted there is no verdict on it.
Busy == {"renew", "form", "armed", "asked", "listed", "again", "chosen"}
NoVerdictYet == pc \in Busy => outcome.kind = "none"

\* RF1, unless it forfeits: either nothing changed since the probe, or the
\* fields are this item's and negative evidence on it is true.
RF1Undisturbed ==
    /\ pc = "asked" =>
        /\ \A q \in flight : q.what = "fields" /\ q.cpf = item.cpf
        /\ \/ page.change = "none" /\ page.filled = seen.filled /\ page.text = seen.text
           \/ page.filled \in {None, item.cpf} /\ (page.text => Hits(item) = {})
    /\ pc = "listed" =>
        /\ \A q \in flight : q.cpf = item.cpf /\ q.fields = item.cpf
        /\ page.text => Hits(item) = {}

RF1Inv ==
    On("rf1") =>
        /\ pc = "armed" /\ page.doc = "form" /\ page.change = "none" =>
                page.filled = seen.filled
        /\ seen.change = "none" => RF1Undisturbed

\* ConsigX and FacilConsig: a fresh page is asked about this item only.
CxInv ==
    On("consiglog") =>
        /\ pc \in {"renew", "form"} => flight = {} /\ ~page.text
        /\ pc = "asked" =>
            /\ \A q \in flight : q.cpf = item.cpf
            /\ page.text => Hits(item) = {}

FcReg == IF portal.asks THEN item.reg ELSE None
FcInv ==
    On("facil") =>
        /\ pc \in {"renew", "again"} => flight = {} /\ ~page.text
        /\ pc = "asked" =>
            /\ \A q \in flight : q.cpf = item.cpf /\ q.reg = FcReg
            /\ page.text => Exact([cpf |-> item.cpf, reg |-> FcReg]) = {}

\* SAFE: once nothing is under way, the page has the answer to the search.
SfInv ==
    On("safeconsig") =>
        /\ pc \in {"form", "asked"} => item.reg # None
        /\ pc = "form" => flight = {}
        /\ pc = "asked" =>
            /\ \A q \in flight : q.cpf = item.cpf /\ q.reg = item.reg
            /\ flight = {} =>
                \/ page.doc # "form" \/ page.panel # None
                \/ Exact(item) \subseteq page.rows
        /\ pc = "chosen" => flight = {} /\ page.panel # None

Truthful == FoundIsTheirs /\ NotFoundIsTrue

AdaptersInv ==
    /\ PagesOK /\ NoVerdictYet
    /\ RF1Inv /\ CxInv /\ FcInv /\ SfInv
    /\ Truthful

-----------------------------------------------------------------------------
(***************************************************************************)
(* Ways for a step to end outside a consultation.                          *)
(***************************************************************************)

\* Every page the portal serves is one the adapters can see.
LEMMA PagesOfThePortal ==
    ASSUME NEW doc \in Docs, NEW b \in BOOLEAN
    PROVE  /\ Blank(doc) \in Pages
           /\ Blank(doc).doc = doc /\ Blank(doc).filled = None
           /\ Blank(doc).panel = None /\ ~Blank(doc).text
           /\ [Blank(doc) EXCEPT !.text = b] \in Pages
           /\ [Blank(doc) EXCEPT !.text = b].panel = None
BY DEF Blank, Pages, Changes

\* goto and reload drop what was under way; only SAFE's form has the sentence.
LEMMA LoadStartsAfresh ==
    ASSUME PagesOK, UNCHANGED portal, Load
    PROVE  /\ page' \in Pages /\ flight' = {} /\ page'.panel = None
           /\ On("safeconsig") \/ ~page'.text
<1>1. CASE Navigate(Blank("odd"))
    BY <1>1, PagesOfThePortal DEF Navigate, Docs
<1>2. CASE Navigate(Form) /\ server
    <2>1. CASE On("safeconsig")
        <3>1. Form = [Blank("form") EXCEPT !.text = TRUE]
            BY <1>2, <2>1 DEF Form, On
        <3> QED BY <1>2, <2>1, <3>1, PagesOfThePortal DEF Navigate, Docs
    <2>2. CASE ~On("safeconsig")
        <3>1. Form = [Blank("form") EXCEPT !.text = FALSE]
            BY <1>2, <2>2 DEF Form, On
        <3>2. ~Form.text
            BY <3>1 DEF Blank
        <3> QED BY <1>2, <3>1, <3>2, PagesOfThePortal DEF Navigate, Docs
    <2> QED BY <2>1, <2>2
<1>3. CASE Navigate(Form) /\ ~server
    BY <1>3, PagesOfThePortal DEF Navigate, Form, Docs
<1> QED BY <1>1, <1>2, <1>3 DEF Load

\* What the adapters see stays of the portal if each part of it does.
LEMMA StillPages ==
    ASSUME PagesOK, UNCHANGED portal, item' \in WorkItems,
           page' \in Pages, seen' \in Pages, flight' \subseteq Queries
    PROVE  PagesOK'
BY DEF PagesOK, Pages

\* A verdict that reports nothing on the employee.
LEMMA Settles ==
    ASSUME AdaptersInv, UNCHANGED portal, PagesOK', NEW v, Settle(v),
           v.kind \notin {"found", "not_found"}
    PROVE  AdaptersInv'
<1>1. pc' \notin Busy
    BY DEF Settle, After, Busy
<1>2. Truthful'
    BY DEF Settle, Truthful, FoundIsTheirs, NotFoundIsTrue, On
<1> QED BY <1>1, <1>2
   DEF AdaptersInv, NoVerdictYet, RF1Inv, RF1Undisturbed, CxInv, FcInv, SfInv, Busy

\* A verdict on the employee that the page bears out.
Borne(v) ==
    /\ v.kind = "found" =>
        /\ v.shown \in portal.known /\ v.shown.cpf = item.cpf
        /\ portal.asks => item.reg \in {None, v.shown.reg}
    /\ v.kind = "not_found" =>
        \/ Hits(item) = {}
        \/ On("rf1") /\ seen.change # "none"
        \/ On("facil") /\ portal.asks /\ Exact(item) = {}
        \/ On("safeconsig") /\ Exact(item) = {}
    /\ v.kind # "credential_error"

LEMMA Reports ==
    ASSUME AdaptersInv, UNCHANGED <<portal, item, page, seen, flight>>,
           NEW v, Settle(v), Borne(v)
    PROVE  AdaptersInv'
<1>1. pc' \notin Busy
    BY DEF Settle, After, Busy
<1>2. PagesOK'
    BY StillPages DEF AdaptersInv, PagesOK
<1>3. Truthful'
    BY DEF Settle, Borne, Truthful, FoundIsTheirs, NotFoundIsTrue,
           On, Hits, Exact
<1> QED BY <1>1, <1>2, <1>3
   DEF AdaptersInv, NoVerdictYet, RF1Inv, RF1Undisturbed, CxInv, FcInv, SfInv, Busy

\* A step between consultations keeps the last verdict.
LEMMA Rests ==
    ASSUME AdaptersInv, UNCHANGED <<portal, item, seen, outcome>>,
           page' \in Pages, flight' \subseteq Queries, pc' \notin Busy
    PROVE  AdaptersInv'
<1>1. PagesOK'
    BY StillPages DEF AdaptersInv, PagesOK
<1>2. Truthful'
    BY
       DEF AdaptersInv, Truthful, FoundIsTheirs, NotFoundIsTrue, On, Hits, Exact
<1> QED BY <1>1, <1>2
   DEF AdaptersInv, NoVerdictYet, RF1Inv, RF1Undisturbed, CxInv, FcInv, SfInv, Busy

\* A step that leaves no verdict needs its own portal's invariant only.
LEMMA GoesOn ==
    ASSUME AdaptersInv, UNCHANGED portal, outcome'.kind = "none", PagesOK',
           On("rf1") => RF1Inv', On("consiglog") => CxInv',
           On("facil") => FcInv', On("safeconsig") => SfInv'
    PROVE  AdaptersInv'
<1>1. RF1Inv' /\ CxInv' /\ FcInv' /\ SfInv'
    BY DEF RF1Inv, RF1Undisturbed, CxInv, FcInv, SfInv, On
<1>2. NoVerdictYet' /\ Truthful'
    BY DEF NoVerdictYet, Truthful, FoundIsTheirs, NotFoundIsTrue
<1> QED BY <1>1, <1>2 DEF AdaptersInv

\* A search is for the item, and leaves what the page shows.
LEMMA AsksOf ==
    ASSUME PagesOK, UNCHANGED <<portal, item>>, NEW reg \in Regs \cup {None},
           NEW next, Ask(Employee(reg), next)
    PROVE  /\ PagesOK'
           /\ \A q \in flight' : q.cpf = item.cpf /\ q.reg = reg
           /\ flight' # {} /\ page'.text = page.text
<1>1. page' \in Pages /\ page'.text = page.text
    BY DEF Ask, PagesOK, Pages, Changes, WorkItems
<1>2. Employee(reg) \in Queries /\ Employee(reg).cpf = item.cpf /\ Employee(reg).reg = reg
    BY DEF Employee, Queries, PagesOK, Pages, WorkItems
<1>3. flight' = {Employee(reg)} /\ seen' = page
    BY DEF Ask
<1>4. PagesOK'
    BY <1>1, <1>2, <1>3, StillPages DEF PagesOK
<1> QED BY <1>1, <1>2, <1>3, <1>4

-----------------------------------------------------------------------------
(***************************************************************************)
(* RF1.                                                                    *)
(***************************************************************************)
LEMMA RF1Kinds ==
    ASSUME NEW stage
    PROVE  /\ \A what \in {"invalid", "mismatch", "timeout", "unconfirmed", "conflict",
                           "error", "captcha", "playwright"} :
                RF1Verdict(what, stage).kind
                    \notin {"found", "not_found", "credential_error"}
           /\ RF1Verdict("refused", stage).kind = "credential_error"
           /\ RF1Verdict("not_found", stage).kind = "not_found"
BY DEF RF1Verdict, V

LEMMA RF1LoginKeeps ==
    ASSUME AdaptersInv, On("rf1"), UNCHANGED <<portal, item, seen>>,
           NEW stage \in {"login", "consultation"},
           pc = IF stage = "login" THEN "login" ELSE "renew", RF1Login(stage)
    PROVE  AdaptersInv'
<1>1. PICK shows \in LoginShows :
        IF shows = "home"
        THEN \/ Navigate(Blank("form")) /\ GoOn(IF stage = "login" THEN "ready" ELSE "form")
             \/ Navigate(Blank("odd")) /\ Settle(RF1Verdict("timeout", stage))
        ELSE /\ Settle(RF1Verdict(RF1Unshown(shows), stage))
             /\ UNCHANGED <<page, flight>>
    BY DEF RF1Login
<1>2. CASE shows = "home"
    <2>1. page' \in Pages /\ flight' \subseteq Queries
        BY <1>1, <1>2, PagesOfThePortal DEF Navigate, Docs
    <2>2. PagesOK'
        BY <2>1, StillPages DEF AdaptersInv, PagesOK
    <2>3. CASE GoOn("ready")
        BY <2>1, <2>3, Rests DEF GoOn, Busy
    <2>4. CASE GoOn("form") /\ stage = "consultation"
        <3>1. outcome'.kind = "none" /\ RF1Inv'
            BY <2>4 DEF GoOn, AdaptersInv, NoVerdictYet, Busy, RF1Inv, RF1Undisturbed
        <3> QED BY <2>2, <3>1, GoesOn DEF On
    <2>5. CASE Settle(RF1Verdict("timeout", stage))
        BY <2>2, <2>5, Settles, RF1Kinds
    <2> QED BY <1>1, <1>2, <2>3, <2>4, <2>5
<1>3. CASE shows # "home"
    <2>1. PagesOK'
        BY <1>1, <1>3, StillPages DEF AdaptersInv, PagesOK
    <2>2. RF1Unshown(shows) \in {"captcha", "conflict", "refused", "unconfirmed"}
        BY <1>3 DEF LoginShows, RF1Unshown, On
    <2> QED BY <1>1, <1>3, <2>1, <2>2, Settles, RF1Kinds
<1> QED BY <1>2, <1>3

\* Any verdict of RF1's but a negative one, while the employee is looked up.
LEMMA RF1Raises ==
    ASSUME AdaptersInv, UNCHANGED portal, PagesOK',
           NEW what \in {"invalid", "mismatch", "timeout", "unconfirmed", "error", "playwright"},
           RF1Raise(what)
    PROVE  AdaptersInv'
BY Settles, RF1Kinds DEF RF1Raise

\* Fields that resolve, and negative evidence that counts, are of this item.
LEMMA RF1FieldsAreTheirs ==
    ASSUME AdaptersInv, On("rf1"), pc = "asked", seen.change = "none",
           NEW differs \in Differs
    PROVE  /\ Resolved(differs) => page.filled = item.cpf /\ (page.text => Hits(item) = {})
           /\ Proven(differs) => Hits(item) = {}
<1>1. CASE page.change = "none" /\ page.filled = seen.filled /\ page.text = seen.text
    BY <1>1 DEF Differs, Resolved, Proven, Postback
<1>2. CASE page.filled \in {None, item.cpf} /\ (page.text => Hits(item) = {})
    BY <1>2 DEF Resolved, Proven
<1> QED BY <1>1, <1>2 DEF AdaptersInv, RF1Inv, RF1Undisturbed

LEMMA RF1Keeps ==
    ASSUME AdaptersInv, RF1Step
    PROVE  AdaptersInv'
<1> USE DEF On
<1>1. CASE RF1Open
    <2>1. CASE RF1Login("login")
        BY <1>1, <2>1, RF1LoginKeeps DEF RF1Open
    <2>2. CASE Unselected \/ (Settle(RF1Verdict("playwright", "login"))
                               /\ UNCHANGED <<server, page, flight>>)
        <3>1. PagesOK'
            BY <1>1, <2>2, StillPages DEF RF1Open, Unselected, AdaptersInv, PagesOK
        <3> QED BY <1>1, <2>2, <3>1, Settles, RF1Kinds DEF RF1Open, Unselected
    <2> QED BY <1>1, <2>1, <2>2 DEF RF1Open
<1>2. CASE \E i \in WorkItems : RF1Begin(i)
    <2>1. PagesOK'
        BY <1>2, StillPages DEF RF1Begin, Take, AdaptersInv, PagesOK
    <2>2. outcome'.kind = "none" /\ pc' \in {"form", "renew"} /\ UNCHANGED portal
        BY <1>2 DEF RF1Begin, Start, V
    <2>3. RF1Inv'
        BY <2>2 DEF RF1Inv, RF1Undisturbed
    <2> QED BY <1>2, <2>1, <2>2, <2>3, GoesOn DEF RF1Begin
<1>3. CASE RF1Renew
    <2>1. CASE RF1Login("consultation")
        BY <1>3, <2>1, RF1LoginKeeps DEF RF1Renew
    <2>2. CASE Load /\ ~RF1Login("consultation")
        <3>1. PagesOK'
            BY <1>3, <2>2, LoadStartsAfresh, StillPages DEF RF1Renew, AdaptersInv, PagesOK
        <3>2. CASE GoOn("form")
            <4>1. outcome'.kind = "none" /\ RF1Inv'
                BY <1>3, <3>2
                   DEF RF1Renew, GoOn, AdaptersInv, NoVerdictYet, Busy, RF1Inv, RF1Undisturbed
            <4> QED BY <1>3, <3>1, <4>1, GoesOn DEF RF1Renew
        <3>3. CASE RF1Raise("unconfirmed") \/ RF1Raise("timeout")
            BY <1>3, <3>1, <3>3, RF1Raises DEF RF1Renew
        <3> QED BY <1>3, <2>2, <3>2, <3>3 DEF RF1Renew
    <2> QED BY <1>3, <2>1, <2>2 DEF RF1Renew
<1>4. CASE RF1Probe
    <2>1. page' \in Pages /\ seen' \in Pages
        BY <1>4 DEF RF1Probe, AdaptersInv, PagesOK, Pages, Changes
    <2>2. PagesOK'
        BY <1>4, <2>1, StillPages DEF RF1Probe, AdaptersInv, PagesOK
    <2>3. CASE GoOn("armed")
        <3>1. outcome'.kind = "none"
            BY <1>4, <2>3 DEF RF1Probe, GoOn, AdaptersInv, NoVerdictYet, Busy
        <3>2. seen' = page'
            BY <1>4, <2>3 DEF RF1Probe, RF1Raise, Settle, GoOn, After, RF1Verdict, V
        <3>3. RF1Inv'
            BY <2>3, <3>2 DEF GoOn, RF1Inv, RF1Undisturbed
        <3> QED BY <1>4, <2>2, <3>1, <3>3, GoesOn DEF RF1Probe
    <2>4. CASE RF1Raise("invalid") \/ RF1Raise("timeout")
        BY <1>4, <2>2, <2>4, RF1Raises DEF RF1Probe
    <2> QED BY <1>4, <2>3, <2>4 DEF RF1Probe
<1>5. CASE RF1Type
    <2>1. CASE page.doc # "form"
        <3>1. PagesOK'
            BY <1>5, <2>1, StillPages DEF RF1Type, AdaptersInv, PagesOK
        <3> QED BY <1>5, <2>1, <3>1, RF1Raises DEF RF1Type
    <2>2. CASE page.doc = "form"
        <3>1. page' \in Pages
            BY <1>5, <2>2 DEF RF1Type, AdaptersInv, PagesOK, Pages, WorkItems
        <3>. seen' \in Pages
            BY <1>5, <2>2 DEF RF1Type, AdaptersInv, PagesOK, Pages
        <3>. flight' \subseteq Queries
            BY <1>5, <2>2 DEF RF1Type, AdaptersInv, PagesOK, Queries, WorkItems
        <3>2. PagesOK'
            BY <1>5, <3>1, StillPages DEF RF1Type, AdaptersInv, PagesOK
        <3>3. outcome'.kind = "none"
            BY <1>5, <2>2 DEF RF1Type, GoOn, AdaptersInv, NoVerdictYet, Busy
        <3>4. /\ page'.change = page.change /\ page'.filled = page.filled
              /\ page'.text = page.text
              /\ seen'.change = page.change /\ seen'.filled = seen.filled
              /\ seen'.text = page.text
            BY <1>5, <2>2 DEF RF1Type, AdaptersInv, PagesOK, Pages
        <3>5. page.change = "none" => page.filled = seen.filled
            BY <1>5, <2>2 DEF RF1Type, AdaptersInv, RF1Inv
        <3>6. /\ pc' = "asked"
              /\ \A q \in flight' : q.what = "fields" /\ q.cpf = item'.cpf
            <4>1. pc' = "asked"
                BY <1>5, <2>2 DEF RF1Type, GoOn
            <4>2. flight' = {[what |-> "fields", cpf |-> item.cpf, reg |-> None,
                              fields |-> None]}
                BY <1>5, <2>2 DEF RF1Type
            <4>3. UNCHANGED item
                BY <1>5 DEF RF1Type
            <4> QED BY <4>1, <4>2, <4>3
        <3>7. RF1Inv'
            BY <3>4, <3>5, <3>6 DEF RF1Inv, RF1Undisturbed
        <3> QED BY <1>5, <3>2, <3>3, <3>7, GoesOn DEF RF1Type
    <2> QED BY <2>1, <2>2
<1>6. CASE RF1Search
    <2>1. page' \in Pages /\ seen' \in Pages /\ flight' \subseteq Queries
        BY <1>6
           DEF RF1Search, Employee, AdaptersInv, PagesOK, Pages, Queries, Changes, WorkItems
    <2>2. PagesOK'
        BY <1>6, <2>1, StillPages DEF RF1Search, AdaptersInv, PagesOK
    <2>3. outcome'.kind = "none"
        BY <1>6 DEF RF1Search, GoOn, AdaptersInv, NoVerdictYet, Busy
    <2>4. seen.change = "none" => page.filled = item.cpf /\ (page.text => Hits(item) = {})
        BY <1>6, RF1FieldsAreTheirs DEF RF1Search
    <2>5. RF1Inv'
        BY <1>6, <2>4
           DEF RF1Search, Employee, GoOn, RF1Inv, RF1Undisturbed, AdaptersInv, PagesOK, Pages, Hits
    <2> QED BY <1>6, <2>2, <2>3, <2>5, GoesOn DEF RF1Search
<1>7. CASE RF1Unresolved
    <2>1. PICK differs \in Differs :
            \/ Proven(differs) /\ RF1Raise("not_found") /\ UNCHANGED <<page, flight>>
            \/ RF1Raise("timeout") /\ UNCHANGED <<page, flight>>
            \/ Load /\ GoOn("form")
        BY <1>7 DEF RF1Unresolved
    <2>2. CASE Proven(differs) /\ RF1Raise("not_found") /\ UNCHANGED <<page, flight>>
        <3>1. Borne(RF1Verdict("not_found", "consultation"))
            BY <1>7, <2>2, RF1Kinds, RF1FieldsAreTheirs DEF RF1Unresolved, Borne
        <3> QED BY <1>7, <2>2, <3>1, Reports DEF RF1Unresolved, RF1Raise
    <2>3. CASE RF1Raise("timeout") /\ UNCHANGED <<page, flight>>
        <3>1. PagesOK'
            BY <1>7, <2>3, StillPages DEF RF1Unresolved, AdaptersInv, PagesOK
        <3> QED BY <1>7, <2>3, <3>1, RF1Raises DEF RF1Unresolved
    <2>4. CASE Load /\ GoOn("form")
        <3>1. PagesOK'
            BY <1>7, <2>4, LoadStartsAfresh, StillPages
               DEF RF1Unresolved, AdaptersInv, PagesOK
        <3>2. outcome'.kind = "none" /\ RF1Inv'
            BY <1>7, <2>4
               DEF RF1Unresolved, GoOn, AdaptersInv, NoVerdictYet, Busy, RF1Inv, RF1Undisturbed
        <3> QED BY <1>7, <3>1, <3>2, GoesOn DEF RF1Unresolved
    <2> QED BY <2>1, <2>2, <2>3, <2>4
<1>8. CASE RF1Read
    <2>1. CASE RF1Raise("timeout")
        <3>1. PagesOK'
            BY <1>8, StillPages DEF RF1Read, AdaptersInv, PagesOK
        <3> QED BY <1>8, <2>1, <3>1, RF1Raises DEF RF1Read
    <2>2. CASE Settle(RF1Checked(page.panel))
        <3>1. Borne(RF1Checked(page.panel))
            BY <1>8, RF1Kinds
               DEF RF1Read, Shows, RF1Checked, Found, Borne, AdaptersInv, PagesOK, Pages
        <3> QED BY <1>8, <2>2, <3>1, Reports DEF RF1Read
    <2> QED BY <1>8, <2>1, <2>2 DEF RF1Read
<1>9. CASE RF1Unread
    <2>1. PICK differs \in Differs :
            RF1Raise(IF Proven(differs) THEN "not_found" ELSE "timeout")
        BY <1>9 DEF RF1Unread
    <2>2. CASE Proven(differs)
        <3>1. Borne(RF1Verdict("not_found", "consultation"))
            BY <1>9, <2>2, RF1Kinds
               DEF RF1Unread, Proven, Borne, AdaptersInv, RF1Inv, RF1Undisturbed
        <3> QED BY <1>9, <2>1, <2>2, <3>1, Reports DEF RF1Unread, RF1Raise
    <2>3. CASE ~Proven(differs)
        <3>1. PagesOK'
            BY <1>9, StillPages DEF RF1Unread, AdaptersInv, PagesOK
        <3> QED BY <1>9, <2>1, <2>3, <3>1, RF1Raises DEF RF1Unread
    <2> QED BY <2>2, <2>3
<1>10. CASE RF1Broken
    <2>1. PagesOK'
        BY <1>10, StillPages DEF RF1Broken, AdaptersInv, PagesOK
    <2> QED BY <1>10, <2>1, RF1Raises DEF RF1Broken
<1> QED BY <1>1, <1>2, <1>3, <1>4, <1>5, <1>6, <1>7, <1>8, <1>9, <1>10 DEF RF1Step

-----------------------------------------------------------------------------
(***************************************************************************)
(* ConsigX.                                                                *)
(***************************************************************************)
LEMMA CxKinds ==
    ASSUME NEW stage
    PROVE  /\ \A what \in {"invalid", "mismatch", "timeout", "unconfirmed", "error",
                           "unavailable"} :
                CxVerdict(what, stage).kind \notin {"found", "not_found"}
           /\ \A what \in {"mismatch", "unconfirmed"} :
                CxVerdict(what, stage).kind # "credential_error"
           /\ CxVerdict("not_found", stage).kind = "not_found"
BY DEF CxVerdict, V

\* Any verdict of ConsigX's but a negative one; its refusals are not claimed.
LEMMA CxSettles ==
    ASSUME AdaptersInv, On("consiglog"), UNCHANGED portal, PagesOK', NEW stage,
           NEW what \in {"invalid", "mismatch", "timeout", "unconfirmed", "error", "unavailable"},
           Settle(CxVerdict(what, stage))
    PROVE  AdaptersInv'
BY Settles, CxKinds

LEMMA CxLoginKeeps ==
    ASSUME AdaptersInv, On("consiglog"), UNCHANGED <<portal, item, seen>>,
           NEW stage \in {"login", "consultation"},
           pc = IF stage = "login" THEN "login" ELSE "renew",
           CxLogin(stage) \/ Profileless(stage)
    PROVE  AdaptersInv'
<1>1. \/ Navigate(Blank("form")) /\ GoOn(IF stage = "login" THEN "ready" ELSE "form")
      \/ Navigate(Blank("odd")) /\ Settle(CxVerdict("timeout", stage))
      \/ /\ \E what \in {"unavailable", "error", "timeout"} : Settle(CxVerdict(what, stage))
         /\ UNCHANGED <<page, flight>>
    BY DEF CxLogin, Profileless
<1>2. CASE Navigate(Blank("form")) /\ GoOn(IF stage = "login" THEN "ready" ELSE "form")
    <2>1. page' = Blank("form") /\ page' \in Pages /\ flight' = {} /\ ~page'.text
        BY <1>2, PagesOfThePortal DEF Navigate, Docs
    <2>2. PagesOK'
        BY <2>1, StillPages DEF AdaptersInv, PagesOK
    <2>3. CASE stage = "login"
        BY <1>2, <2>1, <2>3, Rests DEF GoOn, Busy
    <2>4. CASE stage = "consultation"
        <3>1. outcome'.kind = "none" /\ CxInv'
            BY <1>2, <2>1, <2>4 DEF GoOn, AdaptersInv, NoVerdictYet, Busy, CxInv
        <3> QED BY <2>2, <3>1, GoesOn DEF On
    <2> QED BY <2>3, <2>4
<1>3. CASE Navigate(Blank("odd")) /\ Settle(CxVerdict("timeout", stage))
    <2>1. page' \in Pages /\ flight' = {}
        BY <1>3, PagesOfThePortal DEF Navigate, Docs
    <2>2. PagesOK'
        BY <2>1, StillPages DEF AdaptersInv, PagesOK
    <2> QED BY <1>3, <2>2, CxSettles
<1>4. CASE /\ \E what \in {"unavailable", "error", "timeout"} : Settle(CxVerdict(what, stage))
           /\ UNCHANGED <<page, flight>>
    <2>1. PagesOK'
        BY <1>4, StillPages DEF AdaptersInv, PagesOK
    <2> QED BY <1>4, <2>1, CxSettles
<1> QED BY <1>1, <1>2, <1>3, <1>4

LEMMA CxKeeps ==
    ASSUME AdaptersInv, CxStep
    PROVE  AdaptersInv'
<1> USE DEF On
<1>1. CASE CxOpen
    BY <1>1, CxLoginKeeps DEF CxOpen
<1>2. ASSUME NEW i \in WorkItems, CxBegin(i) PROVE AdaptersInv'
    <2>1. CASE i.cpf = None
        <3>1. PagesOK'
            BY <1>2, <2>1, StillPages DEF CxBegin, Take, AdaptersInv, PagesOK
        <3> QED BY <1>2, <2>1, <3>1, CxSettles DEF CxBegin, CxRaise
    <2>2. CASE i.cpf # None
        <3>1. PagesOK' /\ flight' = {} /\ ~page'.text
            BY <1>2, <2>2, LoadStartsAfresh, StillPages DEF CxBegin, Take, AdaptersInv, PagesOK
        <3>2. outcome'.kind = "none" /\ pc' = "renew"
            BY <1>2, <2>2 DEF CxBegin, Start, V
        <3>3. CxInv'
            BY <3>1, <3>2 DEF CxInv
        <3> QED BY <1>2, <3>1, <3>2, <3>3, GoesOn DEF CxBegin
    <2> QED BY <2>1, <2>2
<1>3. CASE CxRenew
    <2>1. CASE page.doc = "login"
        BY <1>3, <2>1, CxLoginKeeps DEF CxRenew
    <2>2. CASE page.doc # "login"
        <3>1. PagesOK'
            BY <1>3, <2>2, StillPages DEF CxRenew, AdaptersInv, PagesOK
        <3>2. CASE GoOn("form")
            <4>1. outcome'.kind = "none" /\ CxInv'
                BY <1>3, <2>2, <3>2 DEF CxRenew, GoOn, AdaptersInv, NoVerdictYet, Busy, CxInv
            <4> QED BY <1>3, <3>1, <4>1, GoesOn DEF CxRenew
        <3>3. CASE CxRaise("timeout")
            BY <1>3, <3>1, <3>3, CxSettles DEF CxRenew, CxRaise
        <3> QED BY <1>3, <2>2, <3>2, <3>3 DEF CxRenew
    <2> QED BY <2>1, <2>2
<1>4. CASE CxSearch
    <2>1. CASE Serviceless
        <3>1. PagesOK'
            BY <1>4, <2>1, StillPages DEF CxSearch, Serviceless, AdaptersInv, PagesOK
        <3> QED BY <1>4, <2>1, <3>1, CxSettles DEF CxSearch, Serviceless, CxRaise
    <2>2. CASE Ask(Employee(None), "asked")
        <3>1. PagesOK'
            BY <1>4, <2>2, AsksOf DEF CxSearch, AdaptersInv
        <3>2. outcome'.kind = "none"
            BY <1>4, <2>2 DEF CxSearch, Ask, GoOn, AdaptersInv, NoVerdictYet, Busy
        <3>3. CxInv'
            BY <1>4, <2>2, AsksOf DEF CxSearch, Ask, GoOn, AdaptersInv, CxInv
        <3> QED BY <1>4, <3>1, <3>2, <3>3, GoesOn DEF CxSearch
    <2> QED BY <1>4, <2>1, <2>2 DEF CxSearch
<1>5. CASE CxRead
    <2>1. CASE page.text /\ CxRaise("not_found")
        <3>1. Borne(CxVerdict("not_found", "consultation"))
            BY <1>5, <2>1, CxKinds DEF CxRead, Borne, AdaptersInv, CxInv
        <3> QED BY <1>5, <2>1, <3>1, Reports DEF CxRead, CxRaise
    <2>2. CASE ~page.text
        <3>1. PICK p \in Readings :
                Settle(IF Confirmed(p) THEN CxChecked(p) ELSE CxVerdict("unconfirmed", ""))
            BY <1>5, <2>2 DEF CxRead
        <3>2. CASE ~Confirmed(p)
            <4>1. Borne(CxVerdict("unconfirmed", ""))
                BY CxKinds DEF Borne
            <4> QED BY <1>5, <3>1, <3>2, <4>1, Reports DEF CxRead
        <3>3. CASE Confirmed(p)
            <4>1. p \in portal.known /\ p.cpf = item.cpf
                BY <1>5, <3>3 DEF Confirmed, Readings, AdaptersInv, PagesOK, Pages
            <4>2. Borne(CxChecked(p))
                BY <1>5, <4>1, CxKinds DEF CxChecked, Found, Borne
            <4> QED BY <1>5, <3>1, <3>3, <4>2, Reports DEF CxRead
        <3> QED BY <3>2, <3>3
    <2> QED BY <1>5, <2>1, <2>2 DEF CxRead
<1>6. CASE CxUnread \/ CxBroken
    <2>1. PagesOK'
        BY <1>6, StillPages DEF CxUnread, CxBroken, AdaptersInv, PagesOK
    <2> QED BY <1>6, <2>1, CxSettles DEF CxUnread, CxBroken, CxRaise
<1> QED BY <1>1, <1>2, <1>3, <1>4, <1>5, <1>6 DEF CxStep

-----------------------------------------------------------------------------
(***************************************************************************)
(* FacilConsig.                                                            *)
(***************************************************************************)
LEMMA FcKinds ==
    ASSUME NEW stage
    PROVE  /\ \A what \in {"mismatch", "form", "timeout", "unconfirmed", "captcha",
                           "playwright"} :
                FcVerdict(what, stage).kind
                    \notin {"found", "not_found", "credential_error"}
           /\ FcVerdict("refused", stage).kind = "credential_error"
           /\ FcVerdict("not_found", stage).kind = "not_found"
BY DEF FcVerdict, V

LEMMA FcRaises ==
    ASSUME AdaptersInv, UNCHANGED portal, PagesOK',
           NEW what \in {"form", "timeout", "captcha", "playwright"}, FcRaise(what)
    PROVE  AdaptersInv'
BY Settles, FcKinds DEF FcRaise

LEMMA FcKeeps ==
    ASSUME AdaptersInv, FcStep
    PROVE  AdaptersInv'
<1> USE DEF On
<1>1. CASE FcOpen
    <2>1. PICK shows \in LoginShows \cup {"playwright"} :
            IF shows = "home"
            THEN Navigate(Blank("home")) /\ GoOn("ready")
            ELSE /\ \/ Settle(FcVerdict(IF shows = "silent" THEN "unconfirmed" ELSE shows, "login"))
                    \/ shows = "silent" /\ Settle(FcVerdict("timeout", "login"))
                 /\ UNCHANGED <<page, flight>>
        BY <1>1 DEF FcOpen, FcLogin
    <2>2. CASE shows = "home"
        <3>1. page' \in Pages /\ flight' = {}
            BY <2>1, <2>2, PagesOfThePortal DEF Navigate, Docs
        <3> QED BY <1>1, <2>1, <2>2, <3>1, Rests DEF FcOpen, GoOn, Busy
    <2>3. CASE shows # "home"
        <3>1. PagesOK'
            BY <1>1, <2>1, <2>3, StillPages DEF FcOpen, AdaptersInv, PagesOK
        <3>2. PICK what \in {"captcha", "refused", "playwright", "unconfirmed", "timeout"} :
                Settle(FcVerdict(what, "login"))
            BY <1>1, <2>1, <2>3 DEF FcOpen, LoginShows
        <3> QED BY <1>1, <3>1, <3>2, Settles, FcKinds DEF FcOpen
    <2> QED BY <2>2, <2>3
<1>2. CASE \E i \in WorkItems : FcBegin(i)
    <2>1. PagesOK' /\ flight' = {} /\ ~page'.text
        BY <1>2, LoadStartsAfresh, StillPages DEF FcBegin, Take, AdaptersInv, PagesOK
    <2>2. outcome'.kind = "none" /\ pc' = "renew"
        BY <1>2 DEF FcBegin, Start, V
    <2>3. FcInv'
        BY <2>1, <2>2 DEF FcInv
    <2> QED BY <1>2, <2>1, <2>2, <2>3, GoesOn DEF FcBegin
<1>3. CASE FcReload
    <2>1. CASE Load /\ GoOn("renew")
        <3>1. PagesOK' /\ flight' = {} /\ ~page'.text
            BY <1>3, <2>1, LoadStartsAfresh, StillPages DEF FcReload, AdaptersInv, PagesOK
        <3>2. outcome'.kind = "none" /\ pc' = "renew"
            BY <1>3, <2>1 DEF FcReload, GoOn, AdaptersInv, NoVerdictYet, Busy
        <3>3. FcInv'
            BY <3>1, <3>2 DEF FcInv
        <3> QED BY <1>3, <3>1, <3>2, <3>3, GoesOn DEF FcReload
    <2>2. CASE FcRaise("form") /\ UNCHANGED <<page, flight>>
        <3>1. PagesOK'
            BY <1>3, <2>2, StillPages DEF FcReload, AdaptersInv, PagesOK
        <3> QED BY <1>3, <2>2, <3>1, FcRaises DEF FcReload
    <2> QED BY <1>3, <2>1, <2>2 DEF FcReload
<1>4. CASE FcSearch
    <2>1. CASE Ask(Employee(FcReg), "asked")
        <3>1. FcReg \in Regs \cup {None} /\ PagesOK
            BY DEF FcReg, AdaptersInv, PagesOK, WorkItems
        <3>2. /\ PagesOK' /\ page'.text = page.text
              /\ \A q \in flight' : q.cpf = item.cpf /\ q.reg = FcReg
            BY <1>4, <2>1, <3>1, AsksOf DEF FcSearch
        <3>3. outcome'.kind = "none" /\ pc' = "asked"
            BY <1>4, <2>1 DEF FcSearch, Ask, GoOn, AdaptersInv, NoVerdictYet, Busy
        <3>4. ~page.text /\ UNCHANGED <<portal, item>>
            BY <1>4 DEF FcSearch, AdaptersInv, FcInv
        <3>5. FcInv'
            BY <3>2, <3>3, <3>4 DEF FcInv, FcReg
        <3> QED BY <1>4, <3>2, <3>3, <3>5, GoesOn DEF FcSearch
    <2>2. CASE FcRaise("captcha") /\ UNCHANGED <<seen, page, flight>>
        <3>1. PagesOK'
            BY <1>4, <2>2, StillPages DEF FcSearch, AdaptersInv, PagesOK
        <3> QED BY <1>4, <2>2, <3>1, FcRaises DEF FcSearch
    <2> QED BY <1>4, <2>1, <2>2 DEF FcSearch, FcReg
<1>5. CASE FcRead
    <2>1. CASE Follow /\ GoOn("chosen")
        <3>1. page' \in Pages /\ flight' = {}
            <4>1. CASE Navigate(Blank("odd"))
                BY <4>1, PagesOfThePortal DEF Navigate, Docs
            <4>2. ASSUME NEW r \in page.rows, Navigate([Blank("card") EXCEPT !.panel = r])
                  PROVE  page' \in Pages /\ flight' = {}
                <5>1. r \in portal.known
                    BY DEF AdaptersInv, PagesOK, Pages
                <5> QED BY <4>2, <5>1 DEF Navigate, Blank, Pages, Docs, Changes
            <4> QED BY <2>1, <4>1, <4>2 DEF Follow
        <3>2. PagesOK'
            BY <1>5, <3>1, StillPages DEF FcRead, AdaptersInv, PagesOK
        <3>3. outcome'.kind = "none" /\ FcInv'
            BY <1>5, <2>1 DEF FcRead, GoOn, AdaptersInv, NoVerdictYet, Busy, FcInv
        <3> QED BY <1>5, <3>2, <3>3, GoesOn DEF FcRead
    <2>2. CASE page.text /\ FcRaise("not_found") /\ UNCHANGED <<page, flight>>
        <3>1. Exact([cpf |-> item.cpf, reg |-> FcReg]) = {}
            BY <1>5, <2>2 DEF FcRead, AdaptersInv, FcInv
        <3>2. Hits(item) = {} \/ (portal.asks /\ Exact(item) = {})
            BY <3>1 DEF FcReg, Exact, Hits
        <3>3. Borne(FcVerdict("not_found", "consultation"))
            BY <1>5, <3>2, FcKinds DEF FcRead, Borne
        <3> QED BY <1>5, <2>2, <3>3, Reports DEF FcRead, FcRaise
    <2>3. CASE Load /\ (FcRaise("timeout") \/ GoOn("again") \/ FcRaise("form"))
        <3>1. PagesOK' /\ flight' = {} /\ ~page'.text
            BY <1>5, <2>3, LoadStartsAfresh, StillPages DEF FcRead, AdaptersInv, PagesOK
        <3>2. CASE GoOn("again")
            <4>1. outcome'.kind = "none" /\ FcInv'
                BY <1>5, <3>1, <3>2 DEF FcRead, GoOn, AdaptersInv, NoVerdictYet, Busy, FcInv
            <4> QED BY <1>5, <3>1, <4>1, GoesOn DEF FcRead
        <3>3. CASE FcRaise("timeout") \/ FcRaise("form")
            BY <1>5, <3>1, <3>3, FcRaises DEF FcRead
        <3> QED BY <2>3, <3>2, <3>3
    <2> QED BY <1>5, <2>1, <2>2, <2>3 DEF FcRead
<1>6. CASE FcCard
    <2> DEFINE asked == IF Unasked THEN [item EXCEPT !.reg = None] ELSE item
    <2>1. asked.cpf = item.cpf /\ (portal.asks => asked = item)
        BY DEF Unasked, AdaptersInv, PagesOK, WorkItems
    <2>2. page.panel \in portal.known \cup {None} /\ Settle(FcChecked(asked, page.panel))
        BY <1>6 DEF FcCard, AdaptersInv, PagesOK, Pages
    <2> HIDE DEF asked
    <2>3. Borne(FcChecked(asked, page.panel))
        BY <2>1, <2>2, FcKinds DEF FcChecked, Found, Borne
    <2> QED BY <1>6, <2>2, <2>3, Reports DEF FcCard
<1>7. CASE FcBroken
    <2>1. PagesOK'
        BY <1>7, StillPages DEF FcBroken, AdaptersInv, PagesOK
    <2> QED BY <1>7, <2>1, FcRaises DEF FcBroken
<1> QED BY <1>1, <1>2, <1>3, <1>4, <1>5, <1>6, <1>7 DEF FcStep

-----------------------------------------------------------------------------
(***************************************************************************)
(* SAFE.                                                                   *)
(***************************************************************************)
LEMMA SfKinds ==
    ASSUME NEW stage
    PROVE  /\ \A what \in {"invalid", "mismatch", "timeout", "unconfirmed", "expired",
                           "captcha", "unavailable"} :
                SfVerdict(what, stage).kind
                    \notin {"found", "not_found", "credential_error"}
           /\ SfVerdict("refused", stage).kind = "credential_error"
           /\ SfVerdict("not_found", stage).kind = "not_found"
BY DEF SfVerdict, V

LEMMA SfRaises ==
    ASSUME AdaptersInv, UNCHANGED portal, PagesOK',
           NEW what \in {"invalid", "timeout", "unconfirmed", "expired", "captcha",
                         "unavailable"},
           SfRaise(what)
    PROVE  AdaptersInv'
BY Settles, SfKinds DEF SfRaise

\* Either login of SAFE's: alone, or with the solver's answer.
LEMMA SfLoginKeeps ==
    ASSUME AdaptersInv, On("safeconsig"), UNCHANGED <<portal, item, seen>>,
           NEW shows \in LoginShows \cup {"unavailable"}, SfSubmitted(shows)
    PROVE  AdaptersInv'
<1>1. CASE shows = "home"
    <2>1. page' \in Pages /\ flight' = {}
        BY <1>1, PagesOfThePortal DEF SfSubmitted, Navigate, Docs
    <2>2. PagesOK'
        BY <2>1, StillPages DEF AdaptersInv, PagesOK
    <2>3. CASE GoOn("ready")
        BY <2>1, <2>3, Rests DEF GoOn, Busy
    <2>4. CASE Settle(SfVerdict("unconfirmed", "login"))
        BY <2>2, <2>4, Settles, SfKinds
    <2> QED BY <1>1, <2>3, <2>4 DEF SfSubmitted
<1>2. CASE shows # "home"
    <2>1. PagesOK'
        BY <1>2, StillPages DEF SfSubmitted, AdaptersInv, PagesOK
    <2>2. PICK what \in {"captcha", "refused", "unavailable", "expired", "timeout"} :
            Settle(SfVerdict(what, "login"))
        BY <1>2 DEF SfSubmitted, LoginShows, On
    <2> QED BY <2>1, <2>2, Settles, SfKinds
<1> QED BY <1>1, <1>2

LEMMA SfKeeps ==
    ASSUME AdaptersInv, SfStep
    PROVE  AdaptersInv'
<1> USE DEF On
<1>1. CASE SfOpen \/ SfAssist
    <2>1. CASE GoOn("assist") /\ UNCHANGED <<server, page, flight>>
        BY <1>1, <2>1, Rests DEF SfOpen, SfAssist, GoOn, Busy, AdaptersInv, PagesOK
    <2>2. CASE \E shows \in LoginShows \cup {"unavailable"} : SfSubmitted(shows)
        BY <1>1, <2>2, SfLoginKeeps DEF SfOpen, SfAssist
    <2> QED BY <1>1, <2>1, <2>2 DEF SfOpen, SfAssist
<1>2. ASSUME NEW i \in WorkItems, SfBegin(i) PROVE AdaptersInv'
    <2>1. CASE None \in {i.cpf, i.reg}
        <3>1. PagesOK'
            BY <1>2, <2>1, StillPages DEF SfBegin, Take, AdaptersInv, PagesOK
        <3> QED BY <1>2, <2>1, <3>1, SfRaises DEF SfBegin
    <2>2. CASE None \notin {i.cpf, i.reg}
        <3>1. PagesOK' /\ flight' = {}
            BY <1>2, <2>2, LoadStartsAfresh, StillPages DEF SfBegin, Take, AdaptersInv, PagesOK
        <3>2. outcome'.kind = "none" /\ pc' = "form" /\ item'.reg # None
            BY <1>2, <2>2 DEF SfBegin, Take, Start, V
        <3>3. SfInv'
            BY <3>1, <3>2 DEF SfInv
        <3> QED BY <1>2, <3>1, <3>2, <3>3, GoesOn DEF SfBegin
    <2> QED BY <2>1, <2>2
<1>3. CASE SfSearch
    <2>1. CASE SfUnformed
        <3>1. PagesOK'
            BY <1>3, <2>1, StillPages DEF SfSearch, SfUnformed, AdaptersInv, PagesOK
        <3> QED BY <1>3, <2>1, <3>1, SfRaises DEF SfSearch, SfUnformed
    <2>2. CASE Ask(Employee(item.reg), "asked")
        <3>1. item.reg \in Regs \cup {None} /\ PagesOK
            BY DEF AdaptersInv, PagesOK, WorkItems
        <3>2. /\ PagesOK' /\ flight' # {}
              /\ \A q \in flight' : q.cpf = item.cpf /\ q.reg = item.reg
            BY <1>3, <2>2, <3>1, AsksOf DEF SfSearch
        <3>3. outcome'.kind = "none" /\ pc' = "asked"
            BY <1>3, <2>2 DEF SfSearch, Ask, GoOn, AdaptersInv, NoVerdictYet, Busy
        <3>4. item.reg # None /\ UNCHANGED item
            BY <1>3 DEF SfSearch, AdaptersInv, SfInv
        <3>5. SfInv'
            BY <3>2, <3>3, <3>4 DEF SfInv
        <3> QED BY <1>3, <3>2, <3>3, <3>5, GoesOn DEF SfSearch
    <2> QED BY <1>3, <2>1, <2>2 DEF SfSearch
<1>4. CASE SfRead
    <2>1. CASE SearchState = "detail" /\ GoOn("chosen") /\ UNCHANGED <<page, flight>>
        <3>1. PagesOK'
            BY <1>4, <2>1, StillPages DEF SfRead, AdaptersInv, PagesOK
        <3>2. outcome'.kind = "none"
            BY <1>4, <2>1 DEF SfRead, GoOn, AdaptersInv, NoVerdictYet, Busy
        <3>3. SfInv'
            BY <1>4, <2>1 DEF SfRead, GoOn, SfInv, Idle, SearchState
        <3> QED BY <1>4, <3>1, <3>2, <3>3, GoesOn DEF SfRead
    <2>2. ASSUME NEW r \in Selected, Navigate([page EXCEPT !.panel = r]), GoOn("chosen")
          PROVE  AdaptersInv'
        <3>1. r \in portal.known /\ r # None
            BY PortalPageAssumption DEF Selected, AdaptersInv, PagesOK, Pages, Records
        <3>2. page' \in Pages /\ page'.panel = r /\ flight' = {}
            BY <2>2, <3>1 DEF Navigate, AdaptersInv, PagesOK, Pages
        <3>3. PagesOK'
            BY <1>4, <3>2, StillPages DEF SfRead, AdaptersInv, PagesOK
        <3>4. outcome'.kind = "none"
            BY <1>4, <2>2 DEF SfRead, GoOn, AdaptersInv, NoVerdictYet, Busy
        <3>5. SfInv'
            BY <2>2, <3>1, <3>2 DEF GoOn, SfInv
        <3> QED BY <1>4, <3>3, <3>4, <3>5, GoesOn DEF SfRead
    <2>3. CASE /\ SearchState = "not_found" \/ (SearchState = "table" /\ Selected = {})
               /\ SfRaise("not_found") /\ UNCHANGED <<page, flight>>
        <3>1. Exact(item) \subseteq page.rows /\ item.reg # None
            BY <1>4, <2>3 DEF SfRead, Idle, SearchState, AdaptersInv, SfInv
        <3>2. Exact(item) = {}
            BY <2>3, <3>1 DEF SearchState, Selected, Exact
        <3>3. Borne(SfVerdict("not_found", "consultation"))
            BY <1>4, <3>2, SfKinds DEF SfRead, Borne
        <3> QED BY <1>4, <2>3, <3>3, Reports DEF SfRead, SfRaise
    <2> QED BY <1>4, <2>1, <2>2, <2>3 DEF SfRead
<1>5. CASE SfUnread \/ SfBroken
    <2>1. PagesOK'
        BY <1>5, StillPages DEF SfUnread, SfBroken, AdaptersInv, PagesOK
    <2> QED BY <1>5, <2>1, SfRaises DEF SfUnread, SfBroken
<1>6. CASE SfCard
    <2>1. CASE SfRaise("unconfirmed")
        <3>1. PagesOK'
            BY <1>6, StillPages DEF SfCard, AdaptersInv, PagesOK
        <3> QED BY <1>6, <2>1, <3>1, SfRaises DEF SfCard
    <2>2. CASE Settle(SfChecked(page.panel))
        <3>1. page.panel \in portal.known
            BY <1>6 DEF SfCard, AdaptersInv, SfInv, PagesOK, Pages
        <3>2. Borne(SfChecked(page.panel))
            BY <1>6, <3>1, SfKinds DEF SfCard, SfChecked, Found, Borne
        <3> QED BY <1>6, <2>2, <3>2, Reports DEF SfCard
    <2> QED BY <1>6, <2>1, <2>2 DEF SfCard
<1> QED BY <1>1, <1>2, <1>3, <1>4, <1>5, <1>6 DEF SfStep

-----------------------------------------------------------------------------
(***************************************************************************)
(* The portal and the worker.                                              *)
(***************************************************************************)

\* What an answer of RF1's may change, and what it must.
LEMMA RF1AnswersShow ==
    ASSUME PagesOK, NEW q \in Queries, NEW p \in RF1Answers(q)
    PROVE  /\ p \in Pages /\ p.change # "none"
           /\ p.filled \in RF1Fills(q) /\ p.text \in RF1Denies(q)
<1>1. PICK a \in RF1Replies(q) :
        p = [page EXCEPT !.filled = a.fields, !.text = a.text, !.panel = a.shown,
                !.cpf = IF a.how = "full" THEN q.cpf ELSE page.cpf,
                !.change = IF page.change = "full" THEN page.change ELSE a.how]
    BY DEF RF1Answers
<1>2. /\ a.fields \in Cpfs \cup {None} /\ a.fields \in RF1Fills(q)
      /\ a.text \in BOOLEAN /\ a.text \in RF1Denies(q)
      /\ a.shown \in portal.known \cup {None} /\ a.how \in {"part", "full"}
    BY DEF RF1Replies, RF1Fills, RF1Denies, RF1Shows, Hits, PagesOK, Pages, Queries
<1>3. PICK cpf \in Cpfs \cup {None}, change \in {"part", "full"} :
        p = [page EXCEPT !.filled = a.fields, !.text = a.text, !.panel = a.shown,
                !.cpf = cpf, !.change = change]
    BY <1>1, <1>2 DEF PagesOK, Pages, Queries
<1>4. /\ p \in Pages /\ p.change = change
      /\ p.filled = a.fields /\ p.text = a.text
    BY <1>2, <1>3 DEF PagesOK, Pages, Changes
<1> QED BY <1>2, <1>4

LEMMA RF1AnswerKeeps ==
    ASSUME AdaptersInv, On("rf1"), NEW q \in flight, flight' = flight \ {q},
           page' \in RF1Answers(q),
           UNCHANGED <<portal, pc, item, seen, outcome>>
    PROVE  RF1Inv'
<1>1. q \in Queries /\ PagesOK
    BY DEF AdaptersInv, PagesOK
<1>2. page'.change # "none" /\ page'.filled \in RF1Fills(q) /\ page'.text \in RF1Denies(q)
    BY <1>1, RF1AnswersShow
<1>3. ASSUME seen.change = "none", pc = "asked"
      PROVE  page'.filled \in {None, item.cpf} /\ (page'.text => Hits(item) = {})
    <2>1. q.what = "fields" /\ q.cpf = item.cpf
        BY <1>3 DEF AdaptersInv, RF1Inv, RF1Undisturbed
    <2>2. page'.filled \in {None, q.cpf} /\ page'.text \in {FALSE, Hits(q) = {}}
        BY <1>2, <2>1 DEF RF1Fills, RF1Denies
    <2> QED BY <2>1, <2>2 DEF Hits
<1>4. ASSUME seen.change = "none", pc = "listed"
      PROVE  page'.text => Hits(item) = {}
    <2>1. q.fields = item.cpf /\ q.cpf = item.cpf
        BY <1>4 DEF AdaptersInv, RF1Inv, RF1Undisturbed
    <2>2. page'.text \in {FALSE, Hits(q) = {}}
        BY <1>2, <2>1 DEF RF1Denies
    <2> QED BY <2>1, <2>2 DEF Hits
<1> QED BY <1>2, <1>3, <1>4 DEF AdaptersInv, RF1Inv, RF1Undisturbed, On, Hits

\* The same of the other portals' answers.
LEMMA ConsigxAnswersShow ==
    ASSUME PagesOK, NEW q \in Queries, NEW p \in ConsigxAnswers(q)
    PROVE  p \in Pages /\ (p.text => Hits(q) = {})
<1>1. PICK shown \in IF Hits(q) = {} THEN {None} ELSE Hits(q) :
        p = [page EXCEPT !.panel = shown, !.text = (Hits(q) = {}), !.change = "full"]
    BY DEF ConsigxAnswers
<1>2. shown \in portal.known \cup {None}
    BY DEF Hits
<1>3. PICK text \in BOOLEAN : text = (Hits(q) = {})
    OBVIOUS
<1> QED BY <1>1, <1>2, <1>3 DEF PagesOK, Pages, Changes

LEMMA ListAnswersShow ==
    ASSUME PagesOK, NEW q \in Queries, NEW p \in ListAnswers(q)
    PROVE  /\ p \in Pages /\ p.panel = page.panel
           /\ Exact(q) \subseteq p.rows /\ (p.text => p.rows = {})
<1>1. PICK rows \in SUBSET Hits(q) :
        /\ Exact(q) \subseteq rows
        /\ p = [page EXCEPT !.rows = rows, !.text = (rows = {}), !.change = "full"]
    BY DEF ListAnswers
<1>2. rows \in SUBSET portal.known
    BY DEF Hits
<1>3. PICK text \in BOOLEAN : text = (rows = {})
    OBVIOUS
<1> QED BY <1>1, <1>2, <1>3 DEF PagesOK, Pages, Changes

\* Any page an answer puts in the place of the one shown.
LEMMA AnswerKeeps ==
    ASSUME AdaptersInv, Answer
    PROVE  AdaptersInv'
<1>1. PICK q \in flight :
        /\ flight' = flight \ {q}
        /\ page' \in Answers(q) \/ page' = Blank("odd") \/ page' = Blank("login")
    BY DEF Answer
<1>2. UNCHANGED <<portal, pc, item, seen, outcome>>
    BY DEF Answer
<1>3. q \in Queries /\ PagesOK
    BY DEF AdaptersInv, PagesOK
<1>4. CASE page' = Blank("odd") \/ page' = Blank("login")
    <2>1. page' \in Pages /\ ~page'.text /\ page'.filled = None /\ page'.doc # "form"
        BY <1>4, PagesOfThePortal DEF Docs
    <2>2. PagesOK'
        BY <1>1, <1>2, <1>3, <2>1, StillPages DEF PagesOK
    <2>3. RF1Inv'
        BY <1>1, <1>2, <2>1 DEF AdaptersInv, RF1Inv, RF1Undisturbed, On
    <2>4. CxInv' /\ FcInv' /\ SfInv'
        BY <1>1, <1>2, <2>1 DEF AdaptersInv, CxInv, FcInv, SfInv, FcReg, On
    <2>5. NoVerdictYet' /\ Truthful'
        BY <1>2 DEF AdaptersInv, NoVerdictYet, Truthful, FoundIsTheirs, NotFoundIsTrue, On, Hits, Exact
    <2> QED BY <2>2, <2>3, <2>4, <2>5 DEF AdaptersInv
<1>5. CASE page' \in Answers(q)
    <2>1. On("rf1") => page' \in Pages /\ RF1Inv'
        <3>1. On("rf1") => page' \in RF1Answers(q)
            BY <1>5 DEF Answers, On
        <3> QED BY <1>1, <1>2, <1>3, <3>1, RF1AnswersShow, RF1AnswerKeeps
    <2>2. On("consiglog") => page' \in Pages /\ CxInv'
        <3>1. On("consiglog") => page' \in ConsigxAnswers(q)
            BY <1>5 DEF Answers, On
        <3>2. On("consiglog") => page' \in Pages /\ (page'.text => Hits(q) = {})
            BY <1>3, <3>1, ConsigxAnswersShow
        <3> QED BY <1>1, <1>2, <3>2 DEF AdaptersInv, CxInv, Hits, On
    <2>3. On("facil") => page' \in Pages /\ FcInv'
        <3>1. On("facil") =>
                page' \in ListAnswers(q) \/ page' = [page EXCEPT !.change = "full"]
            BY <1>5 DEF Answers, On
        <3>2. ASSUME On("facil"), page' \in ListAnswers(q) PROVE page' \in Pages /\ FcInv'
            <4>1. page' \in Pages /\ (page'.text => Exact(q) = {})
                BY <1>3, <3>2, ListAnswersShow
            <4>2. pc = "asked" => Exact(q) = Exact([cpf |-> item.cpf, reg |-> FcReg])
                BY <3>2 DEF AdaptersInv, FcInv, Exact, Hits
            <4> QED BY <1>1, <1>2, <3>2, <4>1, <4>2
                    DEF AdaptersInv, FcInv, FcReg, Exact, Hits, On
        <3>3. ASSUME On("facil"), page' = [page EXCEPT !.change = "full"]
              PROVE  page' \in Pages /\ FcInv'
            <4>1. page' \in Pages /\ page'.text = page.text
                BY <1>3, <3>3 DEF PagesOK, Pages, Changes
            <4> QED BY <1>1, <1>2, <4>1 DEF AdaptersInv, FcInv, FcReg, Exact, Hits, On
        <3> QED BY <3>1, <3>2, <3>3
    <2>4. On("safeconsig") => page' \in Pages /\ SfInv'
        <3>1. On("safeconsig") =>
                \/ page' \in ListAnswers(q)
                \/ \E r \in Exact(q) :
                    page' = [page EXCEPT !.panel = r, !.text = FALSE, !.change = "full"]
            BY <1>5 DEF Answers, On
        <3>2. ASSUME On("safeconsig"), page' \in ListAnswers(q)
              PROVE  page' \in Pages /\ Exact(q) \subseteq page'.rows
            BY <1>3, <3>2, ListAnswersShow
        <3>3. ASSUME On("safeconsig"), NEW r \in Exact(q),
                     page' = [page EXCEPT !.panel = r, !.text = FALSE, !.change = "full"]
              PROVE  page' \in Pages /\ page'.panel # None
            <4>1. r \in portal.known /\ r # None
                BY <1>3, PortalPageAssumption DEF Exact, Hits, PagesOK, Records
            <4> QED BY <1>3, <3>3, <4>1 DEF PagesOK, Pages, Changes
        <3>4. On("safeconsig") /\ pc = "asked" => Exact(q) = Exact(item)
            BY DEF AdaptersInv, SfInv, Exact, Hits
        <3> QED BY <1>1, <1>2, <3>1, <3>2, <3>3, <3>4 DEF AdaptersInv, SfInv, Exact, Hits, On
    <2>5. page' \in Pages
        BY <1>3, <2>1, <2>2, <2>3, <2>4, PortalPageAssumption DEF PagesOK, On
    <2>6. PagesOK'
        BY <1>1, <1>2, <1>3, <2>5, StillPages DEF PagesOK
    <2>7. RF1Inv' /\ CxInv' /\ FcInv' /\ SfInv'
        BY <1>2, <2>1, <2>2, <2>3, <2>4 DEF RF1Inv, CxInv, FcInv, SfInv, On
    <2>8. NoVerdictYet' /\ Truthful'
        BY <1>2 DEF AdaptersInv, NoVerdictYet, Truthful, FoundIsTheirs, NotFoundIsTrue, On, Hits, Exact
    <2> QED BY <2>6, <2>7, <2>8 DEF AdaptersInv
<1> QED BY <1>1, <1>4, <1>5

LEMMA ExpireKeeps ==
    ASSUME AdaptersInv, Expire
    PROVE  AdaptersInv'
<1>1. UNCHANGED <<portal, pc, item, page, seen, flight, outcome>>
    BY DEF Expire
<1>2. PagesOK'
    BY <1>1, StillPages DEF AdaptersInv, PagesOK
<1>3. RF1Inv' /\ CxInv' /\ FcInv' /\ SfInv'
    BY <1>1 DEF AdaptersInv, RF1Inv, RF1Undisturbed, CxInv, FcInv, FcReg, SfInv, On, Hits, Exact
<1>4. NoVerdictYet' /\ Truthful'
    BY <1>1 DEF AdaptersInv, NoVerdictYet, Truthful, FoundIsTheirs, NotFoundIsTrue, On, Hits, Exact
<1> QED BY <1>2, <1>3, <1>4 DEF AdaptersInv

\* The worker opens, recovers and closes a session between consultations; a
\* verdict of its own reports nothing on the employee.
LEMMA WorkerKeeps ==
    ASSUME AdaptersInv, Worker
    PROVE  AdaptersInv'
<1>1. UNCHANGED <<portal, item, seen>> /\ pc' \notin Busy
    BY DEF Worker, Launch, Recover, Close, Leave, GoOn, Busy
<1>2. \/ UNCHANGED <<page, flight>>
      \/ Navigate(Blank("blank"))
      \/ Load
    BY DEF Worker, Launch, Recover, Close, Leave
<1>3. page' \in Pages /\ flight' \subseteq Queries
    BY <1>1, <1>2, LoadStartsAfresh, PagesOfThePortal
       DEF Navigate, Docs, AdaptersInv, PagesOK
<1>4. CASE UNCHANGED outcome
    BY <1>1, <1>3, <1>4, Rests
<1>5. CASE outcome'.kind \in {"portal_unavailable", "retryable_error"}
    <2>1. PagesOK'
        BY <1>1, <1>3, StillPages DEF AdaptersInv, PagesOK
    <2>2. Truthful'
        BY <1>5 DEF Truthful, FoundIsTheirs, NotFoundIsTrue
    <2> QED BY <1>1, <2>1, <2>2
            DEF AdaptersInv, NoVerdictYet, RF1Inv, RF1Undisturbed, CxInv, FcInv, SfInv, Busy
<1> QED BY <1>4, <1>5 DEF Worker, Launch, Recover, Close, Leave, GoOn, V

LEMMA StutterKeeps ==
    ASSUME AdaptersInv, UNCHANGED vars
    PROVE  AdaptersInv'
BY DEF AdaptersInv, PagesOK, Pages, NoVerdictYet, RF1Inv, RF1Undisturbed, CxInv, FcInv, FcReg,
       SfInv, Truthful, FoundIsTheirs, NotFoundIsTrue, On, Hits, Exact, vars

LEMMA AdaptersInit ==
    ASSUME Init
    PROVE  AdaptersInv
<1>1. /\ pc = "closed" /\ outcome.kind = "none"
      /\ page = Blank("blank") /\ seen = Blank("blank") /\ flight = {}
    BY DEF Init, PageInit, V
<1>2. /\ portal.platform \in Platforms /\ portal.known \subseteq Records
      /\ portal.asks \in BOOLEAN /\ portal.accepts \in BOOLEAN
    BY DEF Init, PageInit
<1>3. item \in WorkItems
    BY DEF Init, PageInit, NoItem, WorkItems
<1>4. PagesOK
    BY <1>1, <1>2, <1>3, PagesOfThePortal DEF PagesOK, Docs
<1>5. NoVerdictYet /\ Truthful
    BY <1>1 DEF NoVerdictYet, Truthful, FoundIsTheirs, NotFoundIsTrue
<1>6. RF1Inv /\ CxInv /\ FcInv /\ SfInv
    BY <1>1 DEF RF1Inv, RF1Undisturbed, CxInv, FcInv, SfInv
<1> QED BY <1>4, <1>5, <1>6 DEF AdaptersInv

-----------------------------------------------------------------------------
(***************************************************************************)
(* The theorems.                                                           *)
(***************************************************************************)

\* Whatever the portal does between two reads of an adapter, what the adapter
\* has seen of an item stays attributable to that item or is recognised as
\* something else's (the waits of rf1.py, consiglog.py, facil.py and
\* safeconsig.py, and the worker's use of them).
THEOREM AdaptersKeepTrack == Spec => []AdaptersInv
<1>1. AdaptersInv /\ [Next]_vars => AdaptersInv'
    BY WorkerKeeps, AnswerKeeps, ExpireKeeps, RF1Keeps, CxKeeps, FcKeeps, SfKeeps, StutterKeeps
       DEF Next
<1> QED BY <1>1, AdaptersInit, PTL DEF Spec

\* A consultation that reports an employee reports the one asked for: CPF,
\* and registration where the portal takes one (ExecutionOutcome.found and the
\* checks of each adapter before it).
THEOREM ResultsAreTheirs == Spec => []FoundIsTheirs
<1>1. AdaptersInv => FoundIsTheirs
    BY DEF AdaptersInv, Truthful
<1> QED BY <1>1, AdaptersKeepTrack, PTL

\* A negative result is true of the portal, whatever earlier items left on
\* the page, except where RF1 forfeits it.
THEOREM NegativesAreTrue == Spec => []NotFoundIsTrue
<1>1. AdaptersInv => NotFoundIsTrue
    BY DEF AdaptersInv, Truthful
<1> QED BY <1>1, AdaptersKeepTrack, PTL
=============================================================================
