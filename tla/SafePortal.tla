------------------------------- MODULE SafePortal -------------------------------
(***************************************************************************)
(* The SAFE adapter (safeconsig): a fresh query page for every item whose  *)
(* empty table already shows the negative sentence, so nothing is read     *)
(* until the answer to the search has been applied.                        *)
(***************************************************************************)
EXTENDS PortalPage

SfVerdict(what, stage) ==
    [not_found   |-> V("not_found", FALSE),
     invalid     |-> V("permanent_error", FALSE),
     mismatch    |-> V("retryable_error", TRUE),
     timeout     |-> V("retryable_error", stage # "consultation"),
     unconfirmed |-> V("retryable_error", stage # "consultation"),
     expired     |-> V("retryable_error", TRUE),
     refused     |-> V("credential_error", TRUE),
     captcha     |-> V("integration_unavailable", TRUE),
     unavailable |-> V("portal_unavailable", TRUE)][what]

SfRaise(what) == Settle(SfVerdict(what, "consultation"))

\* After a submission: being off the login form is what confirms it.
SfSubmitted(shows) ==
    CASE shows = "home" ->
            /\ server' = TRUE
            /\ \/ Navigate([Blank("form") EXCEPT !.text = TRUE]) /\ GoOn("ready")
               \/ Navigate(Blank("odd")) /\ Settle(SfVerdict("unconfirmed", "login"))
      [] shows = "silent" ->
            /\ \E e \in {"expired", "timeout"} : Settle(SfVerdict(e, "login"))
            /\ UNCHANGED <<server, page, flight>>
      [] OTHER -> Settle(SfVerdict(shows, "login")) /\ UNCHANGED <<server, page, flight>>

\* _login submits once without help, unless the challenge is plainly open;
\* a challenge that keeps it at the login calls for help, once.
SfOpen ==
    /\ On("safeconsig") /\ pc = "login"
    /\ \/ \E shows \in (LoginShows \ {"captcha"}) \cup {"unavailable"} : SfSubmitted(shows)
       \/ GoOn("assist") /\ UNCHANGED <<server, page, flight>>
    /\ UNCHANGED <<portal, item, tries, seen, open, turns>>

\* _solve_turnstile_and_submit: a context of its own for the solver's agent.
SfAssist ==
    /\ On("safeconsig") /\ pc = "assist"
    /\ \E shows \in LoginShows \cup {"unavailable"} : SfSubmitted(shows)
    /\ UNCHANGED <<portal, item, tries, seen, open, turns>>

SfBegin(i) ==
    /\ On("safeconsig") /\ Take(i)
    /\ IF None \in {i.cpf, i.reg} THEN SfRaise("invalid") /\ UNCHANGED <<page, flight>>
       ELSE Start("form") /\ Load
    /\ UNCHANGED <<portal, seen, server, open>>

\* _open_query_page: an expired session, an error, a challenge, no form.
SfUnformed ==
    /\ page.doc # "form"
    /\ \E e \in IF page.doc = "login" THEN {"expired"}
                ELSE {"unconfirmed", "unavailable", "captcha"} : SfRaise(e)
    /\ UNCHANGED <<seen, page, flight>>

SfSearch ==
    /\ On("safeconsig") /\ pc = "form"
    /\ \/ SfUnformed
       \/ /\ page.doc = "form"
          /\ Ask(Employee(item.reg), "asked")
    /\ UNCHANGED <<portal, item, tries, server, open, turns>>

Idle_Skipped == TRUE

\* _wait_primefaces_idle: any response of the query page's address ends
\* expect_response, but the queue is empty only when the search was applied.
Idle == flight = {}

\* _wait_search_state: the employee, a list, or the negative sentence.
SearchState ==
    CASE page.panel # None -> "detail"
      [] page.panel = None /\ page.rows # {} -> "table"
      [] OTHER -> "not_found"

\* _select_registration: the row of the registration is opened.
Selected == {r \in page.rows : r.reg = item.reg}

SfRead ==
    /\ On("safeconsig") /\ pc = "asked" /\ Idle /\ page.doc = "form"
    /\ \/ SearchState = "detail" /\ GoOn("chosen") /\ UNCHANGED <<page, flight>>
       \/ /\ SearchState = "table"
          /\ \E r \in Selected : Navigate([page EXCEPT !.panel = r])
          /\ GoOn("chosen")
       \/ /\ SearchState = "not_found" \/ (SearchState = "table" /\ Selected = {})
          /\ SfRaise("not_found") /\ UNCHANGED <<page, flight>>
    /\ UNCHANGED <<portal, item, tries, seen, server, open, turns>>

\* No answer, one that is not applied in time, a login page or an error page
\* in its place, a list or an action that cannot be read.
SfUnread ==
    /\ On("safeconsig") /\ pc = "asked"
    /\ \/ ~Idle /\ SfRaise("timeout")
       \/ SfRaise("unconfirmed")
       \/ page.doc = "login" /\ SfRaise("timeout")
       \/ page.doc = "odd" /\ SfRaise("unavailable")
    /\ UNCHANGED <<portal, item, tries, page, seen, flight, server, open, turns>>

\* _found_outcome: CPF and registration, then the margin.
SfChecked(p) ==
    IF p.cpf = item.cpf /\ p.reg = item.reg
    THEN Found(item, p, SfVerdict("expired", "")) ELSE SfVerdict("mismatch", "")

SfCard ==
    /\ On("safeconsig") /\ pc = "chosen"
    /\ Settle(SfChecked(page.panel)) \/ SfRaise("unconfirmed")
    /\ UNCHANGED <<portal, item, tries, page, seen, flight, server, open, turns>>

SfBroken ==
    /\ On("safeconsig") /\ pc \in {"form", "asked", "chosen"}
    /\ SfRaise("unavailable")
    /\ UNCHANGED <<portal, item, tries, page, seen, flight, server, open, turns>>

SfStep ==
    \/ SfOpen \/ SfAssist
    \/ \E i \in WorkItems : SfBegin(i)
    \/ SfSearch \/ SfRead \/ SfUnread \/ SfCard \/ SfBroken
=============================================================================
