----------------------------- MODULE ConsigxPortal -----------------------------
(***************************************************************************)
(* The ConsigX adapter (consiglog): a fresh query page for every item, and *)
(* a response that must differ from what the page showed before.           *)
(***************************************************************************)
EXTENDS PortalPage

CxVerdict(what, stage) ==
    [not_found   |-> V("not_found", FALSE),
     invalid     |-> V("permanent_error", FALSE),
     mismatch    |-> V("retryable_error", FALSE),
     timeout     |-> V("retryable_error", stage # "consultation"),
     unconfirmed |-> V("retryable_error", TRUE),
     error       |-> V(IF stage = "login" THEN "credential_error" ELSE "retryable_error", TRUE),
     unavailable |-> V("portal_unavailable", TRUE)][what]

CxRaise(what) == Settle(CxVerdict(what, "consultation"))

\* _login types user, profile and password in whatever order they appear, at
\* most five times; a portal that shows anything else has let it in.
CxLogin(stage) ==
    \E shows \in LoginShows \cup {"unreachable"} :
        CASE shows = "home" ->
                /\ server' = TRUE
                /\ \/ Navigate(Blank("form")) /\ GoOn(IF stage = "login" THEN "ready" ELSE "form")
                   \/ Navigate(Blank("odd")) /\ Settle(CxVerdict("timeout", stage))
          [] shows = "unreachable" ->
                Settle(CxVerdict("unavailable", stage)) /\ UNCHANGED <<server, page, flight>>
          [] OTHER ->
                /\ \/ Settle(CxVerdict("error", stage))
                   \/ stage = "consultation" /\ Settle(CxVerdict("timeout", stage))
                /\ UNCHANGED <<server, page, flight>>

\* _choose_profile_index: no profile, or none that is plainly the one set.
Profileless(stage) == Settle(CxVerdict("error", stage)) /\ UNCHANGED <<server, page, flight>>

\* Without the form after a login the constructor blames the credential.
CxOpen ==
    /\ On("consiglog") /\ pc = "login"
    /\ CxLogin("login") \/ Profileless("login")
    /\ UNCHANGED <<portal, item, tries, seen, open, turns>>

CxBegin(i) ==
    /\ On("consiglog") /\ Take(i)
    /\ IF i.cpf = None THEN CxRaise("invalid") /\ UNCHANGED <<page, flight>>
       ELSE Start("renew") /\ Load
    /\ UNCHANGED <<portal, seen, server, open>>

\* _open_query_page: one login if the session is gone.
CxRenew ==
    /\ On("consiglog") /\ pc = "renew"
    /\ CASE page.doc = "login" -> CxLogin("consultation") \/ Profileless("consultation")
         [] page.doc = "form" -> GoOn("form") /\ UNCHANGED <<server, page, flight>>
         [] OTHER -> CxRaise("timeout") /\ UNCHANGED <<server, page, flight>>
    /\ UNCHANGED <<portal, item, tries, seen, open, turns>>

\* _select_configured_service: the form does not offer it, or offers several.
Serviceless == CxRaise("error") /\ UNCHANGED <<seen, page, flight>>

CxSearch ==
    /\ On("consiglog") /\ pc = "form"
    /\ Ask(Employee(None), "asked") \/ Serviceless
    /\ UNCHANGED <<portal, item, tries, server, open, turns>>

\* _wait_for_fresh_response.
Fresh ==
    /\ page.panel # None \/ page.text
    /\ page.panel # seen.panel \/ page.text # seen.text

\* _extract: the record, or one that lacks its CPF, registration or margin.
Readings == {page.panel, None}

\* _validate_confirmed_result: the field of the search confirms nothing.
Confirmed(p) == p # None /\ p.cpf = item.cpf

CxChecked(p) ==
    IF item.reg \in {None, p.reg} THEN Found(item, p, CxVerdict("unconfirmed", ""))
    ELSE CxVerdict("mismatch", "consultation")

\* A dialogue speaks first.
CxRead ==
    /\ On("consiglog") /\ pc = "asked" /\ Fresh
    /\ \/ page.text /\ CxRaise("not_found")
       \/ ~page.text /\ \E p \in Readings :
            Settle(IF Confirmed(p) THEN CxChecked(p) ELSE CxVerdict("unconfirmed", ""))
    /\ UNCHANGED <<portal, item, tries, page, seen, flight, server, open, turns>>

\* Nothing in twenty seconds, or a dialogue that says something else.
CxUnread ==
    /\ On("consiglog") /\ pc = "asked" /\ ~Fresh
    /\ \/ CxRaise("timeout")
       \/ page.doc = "odd" /\ CxRaise("unconfirmed")
    /\ UNCHANGED <<portal, item, tries, page, seen, flight, server, open, turns>>

CxBroken ==
    /\ On("consiglog") /\ pc \in {"renew", "form", "asked"}
    /\ CxRaise("unavailable")
    /\ UNCHANGED <<portal, item, tries, page, seen, flight, server, open, turns>>

CxStep ==
    \/ CxOpen
    \/ \E i \in WorkItems : CxBegin(i)
    \/ CxRenew \/ CxSearch \/ CxRead \/ CxUnread \/ CxBroken
=============================================================================
