------------------------------ MODULE PortalPage ------------------------------
(***************************************************************************)
(* What the four portal adapters share: one browser page on an             *)
(* asynchronous portal, and the part of GenericWorker that opens a         *)
(* session, consults items one at a time, recovers the page and closes.    *)
(*                                                                         *)
(* The portal is outside the repository: it is modelled from what the      *)
(* adapters wait for.  It answers a query when it likes, or never; its     *)
(* answer changes whatever document is still shown; a new query or a       *)
(* navigation takes the place of the one that was under way, as postbacks  *)
(* of one document do.                                                     *)
(***************************************************************************)
EXTENDS Naturals

CONSTANTS
    None,
    Cpfs,       \* the CPFs a base may ask for
    Regs,       \* registrations of their owners
    Platforms,  \* the portals of this instance
    MaxTurns    \* bound: sessions opened and items consulted

ASSUME PortalPageAssumption ==
    /\ None \notin Cpfs \cup Regs \cup [cpf : Cpfs, reg : Regs]
    /\ Platforms \subseteq {"rf1", "consiglog", "facil", "safeconsig"}
    /\ MaxTurns \in Nat

VARIABLES
    portal,   \* platform, its employees, whether its form asks the
              \* registration, whether it accepts the access: its password
              \* right and in force, the access neither blocked nor withdrawn
    pc,       \* where the adapter is
    item,     \* the item being consulted
    tries,    \* attempts or searches spent on it
    page,     \* the document shown
    seen,     \* what the adapter noted of it before its last query
    flight,   \* the query of this document that is not answered, if any
    server,   \* the portal holds a session of this account
    open,     \* local resources held
    outcome,  \* the last verdict
    turns

vars == <<portal, pc, item, tries, page, seen, flight, server, open, outcome, turns>>

Records == [cpf : Cpfs, reg : Regs]

\* A CPF that has not eleven digits is None; a base may carry no registration.
WorkItems == [cpf : Cpfs \cup {None}, reg : Regs \cup {None}]

NoItem == [cpf |-> None, reg |-> None]

\* cpf: the form's field; filled: the CPF from which the portal derived other
\* fields; panel, rows: the employee or the list shown; text: negative evidence
\* is shown; change: what happened to the document since the last probe.
Blank(doc) == [doc |-> doc, cpf |-> None, filled |-> None, panel |-> None,
               rows |-> {}, text |-> FALSE, change |-> "none"]

\* The query page as the portal serves it.  SAFE's empty table already has
\* the negative sentence; without a session the portal serves its login.
Form == IF server
        THEN [Blank("form") EXCEPT !.text = (portal.platform = "safeconsig")]
        ELSE Blank("login")

On(p) == portal.platform = p

\* Who the portal would show for the form's fields.
Hits(q) == {r \in portal.known : r.cpf = q.cpf}
Exact(q) == {r \in Hits(q) : q.reg = None \/ r.reg = q.reg}

V(kind, end) == [kind |-> kind, end |-> end, shown |-> None]

PageInit ==
    /\ portal \in [platform : Platforms, known : SUBSET Records,
                   asks : BOOLEAN, accepts : BOOLEAN]
    /\ ~On("facil") => portal.asks
    /\ pc = "closed" /\ item = NoItem /\ tries = 0
    /\ page = Blank("blank") /\ seen = Blank("blank") /\ flight = {}
    /\ server = FALSE /\ open = {} /\ turns = 0
    /\ outcome = V("none", FALSE)

-----------------------------------------------------------------------------
(***************************************************************************)
(* Verdicts.  Each adapter's classify_exception is a table from what went  *)
(* wrong to a kind and whether the session must end.                       *)
(***************************************************************************)
\* ExecutionOutcome.found refuses a result that is not of the item; the
\* refusal is an exception no adapter names.
Found(asked, shown, other) ==
    IF asked.cpf = shown.cpf /\ asked.reg \in {None, shown.reg}
    THEN [kind |-> "found", end |-> FALSE, shown |-> shown] ELSE other

\* _consume_job: what follows a verdict.
After(v) ==
    IF v.kind \in {"found", "not_found", "permanent_error"} THEN "ready"
    ELSE IF v.kind = "retryable_error" /\ ~v.end THEN "recovering" ELSE "closing"

Settle(v) == outcome' = v /\ pc' = After(v)

\* The adapter takes up an item, and goes on with it.
Start(next) == outcome' = V("none", FALSE) /\ pc' = next
GoOn(next) == pc' = next /\ UNCHANGED outcome

Navigate(doc) == page' = doc /\ flight' = {}

\* goto, reload: the form, the login, or a page that never gets there.
Load == Navigate(Form) \/ Navigate(Blank("odd"))

\* A search for the item, with the fields the form has.
Employee(reg) == [what |-> "employee", cpf |-> item.cpf, reg |-> reg, fields |-> page.filled]

Ask(q, next) ==
    /\ seen' = page
    /\ page' = [page EXCEPT !.cpf = item.cpf, !.change = "none"]
    /\ flight' = {q}
    /\ GoOn(next)

-----------------------------------------------------------------------------
(***************************************************************************)
(* The portal.                                                             *)
(***************************************************************************)
\* What a login may show.  "refused" are words of a refusal that the adapter
\* knows; "silent" is a wrong captcha, no answer in time or other words.
LoginShows ==
    {"silent"} \cup (IF On("consiglog") THEN {} ELSE {"captcha"})
        \cup (IF portal.accepts THEN IF On("rf1") /\ server THEN {"conflict"} ELSE {"home"}
              ELSE {"refused"})

\* RF1 derives fields from a CPF; a search that brings those of another CPF
\* may be told anything, any other only the truth or nothing.
RF1Fills(q) == IF q.what = "employee" THEN {q.fields}
               ELSE IF Hits(q) = {} THEN {None, q.cpf} ELSE {q.cpf}
RF1Denies(q) == IF q.what = "employee" /\ q.fields # q.cpf THEN BOOLEAN ELSE {FALSE, Hits(q) = {}}
RF1Shows(q) == IF q.what = "fields" THEN {page.panel, None} ELSE Hits(q) \cup {None}
RF1Replies(q) == [how : {"part", "full"}, fields : RF1Fills(q),
                  text : RF1Denies(q), shown : RF1Shows(q)]

\* An answer redraws the message area and changes the form at once, wholly or
\* in part; the panel of an earlier result may stay until the employee comes.
RF1Answers(q) ==
    {[page EXCEPT !.filled = a.fields, !.text = a.text, !.panel = a.shown,
        !.cpf = IF a.how = "full" THEN q.cpf ELSE @,
        !.change = IF @ = "full" THEN @ ELSE a.how] : a \in RF1Replies(q)}

\* ConsigX shows the employee or a dialogue.
ConsigxAnswers(q) ==
    {[page EXCEPT !.panel = shown, !.text = (Hits(q) = {}), !.change = "full"] :
        shown \in IF Hits(q) = {} THEN {None} ELSE Hits(q)}

\* FacilConsig and SAFE list employees of the CPF, at least those asked for.
\* FacilConsig shows nothing for a wrong captcha, SAFE may open the employee.
ListAnswers(q) ==
    {[page EXCEPT !.rows = rows, !.text = (rows = {}), !.change = "full"] :
        rows \in {R \in SUBSET Hits(q) : Exact(q) \subseteq R}}

Answers(q) ==
    CASE On("rf1") -> RF1Answers(q)
      [] On("consiglog") -> ConsigxAnswers(q)
      [] On("facil") -> ListAnswers(q) \cup {[page EXCEPT !.change = "full"]}
      [] On("safeconsig") ->
            ListAnswers(q) \cup {[page EXCEPT !.panel = r, !.text = FALSE, !.change = "full"] :
                                    r \in Exact(q)}

Answer ==
    /\ \E q \in flight :
        /\ flight' = flight \ {q}
        /\ page' \in IF server THEN Answers(q) \cup {Blank("odd")} ELSE {Blank("login")}
    /\ UNCHANGED <<portal, pc, item, tries, seen, server, open, outcome, turns>>

\* The portal ends the session on its side.
Expire ==
    /\ server
    /\ server' = FALSE
    /\ UNCHANGED <<portal, pc, item, tries, page, seen, flight, open, outcome, turns>>

-----------------------------------------------------------------------------
(***************************************************************************)
(* The worker's use of an adapter.                                         *)
(***************************************************************************)
\* The session object's constructor starts a driver, a browser and, for a
\* SAFE proxy, a bridge.  RF1 and ConsigX start theirs before the try that
\* would close them.
Launch ==
    /\ pc = "closed" /\ turns < MaxTurns /\ turns' = turns + 1
    /\ \/ /\ open' = open \cup {"driver", "browser"}
                          \cup (IF On("safeconsig") THEN {"bridge"} ELSE {})
          /\ GoOn("login") /\ Navigate(Blank("blank"))
       \/ /\ open' = open \cup (IF On("rf1") \/ On("consiglog") THEN {"orphan"} ELSE {})
          /\ outcome' = V("portal_unavailable", TRUE)
          /\ UNCHANGED <<pc, page, flight>>
    /\ UNCHANGED <<portal, item, tries, seen, server>>

\* A request for an item of the job; adapters start with Take(i).
Take(i) ==
    /\ pc = "ready" /\ turns < MaxTurns /\ turns' = turns + 1
    /\ item' = i /\ tries' = 0

\* recover() reloads the page: the session and its cookies are kept.
Recover ==
    /\ pc = "recovering"
    /\ \/ Load /\ GoOn("ready")
       \/ outcome' = V("retryable_error", TRUE) /\ pc' = "closing" /\ UNCHANGED <<page, flight>>
    /\ UNCHANGED <<portal, item, tries, seen, server, open, turns>>

\* RF1's link Sair, if the page still shows it and the portal answers; closing
\* the browser alone leaves the session on the portal.
Logout ==
    IF On("rf1") /\ page.doc = "form" THEN server' \in {FALSE, server} ELSE UNCHANGED server

Close ==
    /\ pc = "closing"
    /\ Logout
    /\ open' = open \cap {"orphan"}
    /\ Navigate(Blank("blank")) /\ GoOn("closed")
    /\ UNCHANGED <<portal, item, tries, seen, turns>>

\* The worker drains after an item, or its process dies at any time.
Leave ==
    /\ \/ pc = "ready" /\ GoOn("closing") /\ UNCHANGED <<page, flight, open>>
       \/ /\ pc # "closed" /\ GoOn("closed")
          /\ open' = {} /\ Navigate(Blank("blank"))
    /\ UNCHANGED <<portal, item, tries, seen, server, turns>>

Worker == Launch \/ Recover \/ Close \/ Leave
=============================================================================
