------------------------------ MODULE FacilPortal ------------------------------
(***************************************************************************)
(* The FacilConsig adapter: up to four searches, each with a captcha and a *)
(* fresh form, then the first employee of the list.                        *)
(***************************************************************************)
EXTENDS PortalPage

FcVerdict(what, stage) ==
    [not_found   |-> V("not_found", FALSE),
     mismatch    |-> V("retryable_error", FALSE),
     form        |-> V("retryable_error", stage # "consultation"),
     timeout     |-> V("retryable_error", stage # "consultation"),
     unconfirmed |-> V("retryable_error", TRUE),
     refused     |-> V("credential_error", TRUE),
     captcha     |-> V("integration_unavailable", TRUE),
     playwright  |-> V("portal_unavailable", TRUE)][what]

FcRaise(what) == Settle(FcVerdict(what, "consultation"))

MaxSearches == 4

\* _login_without_side_effects: one paid captcha and one login.
FcLogin ==
    \E shows \in LoginShows \cup {"playwright"} :
        IF shows = "home"
        THEN server' = TRUE /\ Navigate(Blank("home")) /\ GoOn("ready")
        ELSE /\ \/ Settle(FcVerdict(IF shows = "silent" THEN "unconfirmed" ELSE shows, "login"))
                \/ shows = "silent" /\ Settle(FcVerdict("timeout", "login"))
             /\ UNCHANGED <<server, page, flight>>

FcOpen ==
    /\ On("facil") /\ pc = "login"
    /\ FcLogin
    /\ UNCHANGED <<portal, item, tries, seen, open, turns>>

\* _buscar_result opens the form; the item's identity is not checked first.
FcBegin(i) ==
    /\ On("facil") /\ Take(i)
    /\ Start("renew") /\ Load
    /\ UNCHANGED <<portal, seen, server, open>>

\* Without the form: one reload, then the item is put off.
FcReload ==
    /\ On("facil") /\ pc = "renew" /\ page.doc # "form"
    /\ \/ tries = 0 /\ tries' = 1 /\ Load /\ GoOn("renew")
       \/ tries > 0 /\ FcRaise("form") /\ UNCHANGED <<tries, page, flight>>
    /\ UNCHANGED <<portal, item, seen, server, open, turns>>

\* The registration goes only into a form that has its field.
FcSearch ==
    /\ On("facil") /\ pc \in {"renew", "again"} /\ page.doc = "form"
    /\ tries' = IF pc = "renew" THEN 1 ELSE tries + 1
    /\ \/ Ask(Employee(IF portal.asks THEN item.reg ELSE None), "asked")
       \/ FcRaise("captcha") /\ UNCHANGED <<seen, page, flight>>
    /\ UNCHANGED <<portal, item, server, open, turns>>

\* _extrair follows the first link and reads what has arrived by then.
Follow ==
    \/ \E r \in page.rows : Navigate([Blank("card") EXCEPT !.panel = r])
    \/ Navigate(Blank("odd"))

\* The page after a search, whether or not it is the answer yet: a list is
\* followed, the negative sentence believed, anything else asked again.
FcRead ==
    /\ On("facil") /\ pc = "asked"
    /\ CASE page.rows # {} ->
                Follow /\ GoOn("chosen")
         [] page.rows = {} /\ page.text -> FcRaise("not_found") /\ UNCHANGED <<page, flight>>
         [] OTHER -> /\ Load
                     /\ IF page'.doc # "form" THEN FcRaise("timeout")
                        ELSE IF tries < MaxSearches THEN GoOn("again") ELSE FcRaise("form")
    /\ UNCHANGED <<portal, item, tries, seen, server, open, turns>>

Unasked_Always == TRUE

\* SearchResult.registration_required is what the form had.
Unasked == ~portal.asks

\* _consult: the card must carry the CPF, and the registration if asked for.
FcChecked(asked, p) ==
    IF p # None /\ p.cpf = item.cpf /\ asked.reg \in {None, p.reg}
    THEN Found(asked, p, FcVerdict("unconfirmed", "")) ELSE FcVerdict("mismatch", "")

FcCard ==
    /\ On("facil") /\ pc = "chosen"
    /\ Settle(FcChecked(IF Unasked THEN [item EXCEPT !.reg = None] ELSE item, page.panel))
    /\ UNCHANGED <<portal, item, tries, page, seen, flight, server, open, turns>>

FcBroken ==
    /\ On("facil") /\ pc \in {"renew", "again", "asked", "chosen"}
    /\ FcRaise("playwright")
    /\ UNCHANGED <<portal, item, tries, page, seen, flight, server, open, turns>>

FcStep ==
    \/ FcOpen
    \/ \E i \in WorkItems : FcBegin(i)
    \/ FcReload \/ FcSearch \/ FcRead \/ FcCard \/ FcBroken
=============================================================================
