------------------------------- MODULE RF1Portal -------------------------------
(***************************************************************************)
(* The RF1 adapter.  Its page is not reloaded between items, so each wait  *)
(* must tell the answer to this item from what an earlier one left behind. *)
(***************************************************************************)
EXTENDS PortalPage

RF1Verdict(what, stage) ==
    [not_found   |-> V("not_found", FALSE),
     invalid     |-> V("permanent_error", FALSE),
     mismatch    |-> V("retryable_error", FALSE),
     timeout     |-> V("retryable_error", stage # "consultation"),
     unconfirmed |-> V("retryable_error", TRUE),
     conflict    |-> V("retryable_error", TRUE),
     error       |-> V("retryable_error", TRUE),
     refused     |-> V("credential_error", TRUE),
     captcha     |-> V("integration_unavailable", TRUE),
     playwright  |-> V("portal_unavailable", TRUE)][what]

RF1Raise(what) == Settle(RF1Verdict(what, "consultation"))

\* _login after its single attempt: the portal's words, else nothing sure.
RF1Unshown(shows) == IF shows = "silent" THEN "unconfirmed" ELSE shows

\* One login: the portal lets the page through, or the session is given up.
RF1Login(stage) ==
    \E shows \in LoginShows :
        IF shows = "home"
        THEN /\ server' = TRUE
             /\ \/ Navigate(Blank("form")) /\ GoOn(IF stage = "login" THEN "ready" ELSE "form")
                \/ Navigate(Blank("odd")) /\ Settle(RF1Verdict("timeout", stage))
        ELSE /\ Settle(RF1Verdict(RF1Unshown(shows), stage))
             /\ UNCHANGED <<server, page, flight>>

\* _select_consignataria: no entity, or more than one and none configured.
Unselected == Settle(RF1Verdict("error", "login")) /\ UNCHANGED <<server, page, flight>>

RF1Open ==
    /\ On("rf1") /\ pc = "login"
    /\ \/ RF1Login("login")
       \/ Unselected
       \/ Settle(RF1Verdict("playwright", "login")) /\ UNCHANGED <<server, page, flight>>
    /\ UNCHANGED <<portal, item, tries, seen, open, turns>>

\* consult, _ensure_query_page: a page that is the query page is kept.
RF1Begin(i) ==
    /\ On("rf1") /\ Take(i)
    /\ Start(IF page.doc = "form" THEN "form" ELSE "renew")
    /\ UNCHANGED <<portal, page, seen, flight, server, open>>

RF1Renew ==
    /\ On("rf1") /\ pc = "renew"
    /\ \/ page.doc = "login" /\ RF1Login("consultation")
       \/ /\ page.doc # "login" /\ Load /\ UNCHANGED server
          /\ CASE page'.doc = "form" -> GoOn("form")
               [] page'.doc = "login" -> RF1Raise("unconfirmed")
               [] OTHER -> RF1Raise("timeout")
    /\ UNCHANGED <<portal, item, tries, seen, open, turns>>

\* _await_cpf_dependencies marks the CPF's input and notes the form ...
RF1Probe ==
    /\ On("rf1") /\ pc = "form"
    /\ IF item.cpf = None \/ page.doc # "form"
       THEN /\ RF1Raise(IF item.cpf = None THEN "invalid" ELSE "timeout")
            /\ UNCHANGED <<seen, page>>
       ELSE /\ seen' = [page EXCEPT !.change = "none"]
            /\ page' = [page EXCEPT !.change = "none"]
            /\ GoOn("armed")
    /\ UNCHANGED <<portal, item, tries, flight, server, open, turns>>

\* ... and then looks for negative evidence and types the CPF.  Whatever the
\* page did in between is kept in seen.change; no guard reads it.
RF1Type ==
    /\ On("rf1") /\ pc = "armed"
    /\ IF page.doc # "form" THEN RF1Raise("timeout") /\ UNCHANGED <<seen, page, flight>>
       ELSE /\ seen' = [seen EXCEPT !.text = page.text, !.change = page.change]
            /\ page' = [page EXCEPT !.cpf = item.cpf]
            /\ flight' = {[what |-> "fields", cpf |-> item.cpf, reg |-> None, fields |-> None]}
            /\ GoOn("asked")
    /\ UNCHANGED <<portal, item, tries, server, open, turns>>

\* Other fields than those noted: two employees may have the same ones.
Differs ==
    IF page.filled = seen.filled THEN {FALSE}
    ELSE IF None \in {page.filled, seen.filled} THEN {TRUE} ELSE BOOLEAN

\* _CPF_DEPENDENCIES_READY: values an earlier item left prove nothing.
Resolved_AnyFields(differs) == page.cpf = item.cpf /\ page.filled # None

Resolved(differs) ==
    /\ page.cpf = item.cpf /\ page.filled # None
    /\ \/ page.change = "full"
       \/ differs
       \/ page.change # "none" /\ seen.cpf = item.cpf

\* _CPF_POSTBACK_OBSERVED: the portal answered since the probe.
Postback(differs) == page.cpf = item.cpf /\ (page.change # "none" \/ differs)

\* Negative evidence counts if it is new, or if a postback was observed.
Proven_AnyText(differs) == page.text

Proven(differs) == page.text /\ (~seen.text \/ Postback(differs))

RF1Search ==
    /\ On("rf1") /\ pc = "asked" /\ \E differs \in Differs : Resolved(differs)
    /\ seen' = [page EXCEPT !.change = seen.change]
    /\ page' = [page EXCEPT !.change = "none"]
    /\ flight' = {Employee(None)}
    /\ GoOn("listed")
    /\ UNCHANGED <<portal, item, tries, server, open, turns>>

\* Fifteen seconds without the fields: one reload, then the item is put off.
RF1Unresolved ==
    /\ On("rf1") /\ pc = "asked"
    /\ \E differs \in Differs :
        /\ ~Resolved(differs)
        /\ \/ Proven(differs) /\ RF1Raise("not_found") /\ UNCHANGED <<tries, page, flight>>
           \/ ~Proven(differs) /\ tries = 1 /\ RF1Raise("timeout")
                /\ UNCHANGED <<tries, page, flight>>
           \/ ~Proven(differs) /\ tries = 0 /\ tries' = 1 /\ Load /\ GoOn("form")
    /\ UNCHANGED <<portal, item, seen, server, open, turns>>

Shows(p) == p # None /\ p.cpf = item.cpf

\* consult checks what _consultar read once more.
RF1Checked(shown) ==
    IF shown.cpf = item.cpf /\ item.reg \in {None, shown.reg}
    THEN Found(item, shown, RF1Verdict("error", "consultation"))
    ELSE RF1Verdict("mismatch", "consultation")

\* The record under the CPF; without a name it is not one.
RF1Read ==
    /\ On("rf1") /\ pc = "listed" /\ Shows(page.panel)
    /\ Settle(RF1Checked(page.panel)) \/ RF1Raise("timeout")
    /\ UNCHANGED <<portal, item, tries, page, seen, flight, server, open, turns>>

\* Fifteen seconds without the employee.
RF1Unread ==
    /\ On("rf1") /\ pc = "listed" /\ ~Shows(page.panel)
    /\ \E differs \in Differs : RF1Raise(IF Proven(differs) THEN "not_found" ELSE "timeout")
    /\ UNCHANGED <<portal, item, tries, page, seen, flight, server, open, turns>>

\* The browser or the connection fails under a consultation.
RF1Broken ==
    /\ On("rf1") /\ pc \in {"renew", "form", "armed", "asked", "listed"}
    /\ RF1Raise("playwright")
    /\ UNCHANGED <<portal, item, tries, page, seen, flight, server, open, turns>>

RF1Step ==
    \/ RF1Open
    \/ \E i \in WorkItems : RF1Begin(i)
    \/ RF1Renew \/ RF1Probe \/ RF1Type \/ RF1Search \/ RF1Unresolved
    \/ RF1Read \/ RF1Unread \/ RF1Broken
=============================================================================
