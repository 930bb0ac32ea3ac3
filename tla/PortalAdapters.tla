---------------------------- MODULE PortalAdapters ----------------------------
(***************************************************************************)
(* The worker with any of the four portal adapters, and what a verdict of  *)
(* theirs must mean.                                                       *)
(***************************************************************************)
EXTENDS RF1Portal, ConsigxPortal, FacilPortal, SafePortal

Init == PageInit

Next ==
    \/ Worker \/ Answer \/ Expire
    \/ RF1Step \/ CxStep \/ FcStep \/ SfStep

Spec == Init /\ [][Next]_vars

-----------------------------------------------------------------------------
\* A result is the item's: the employee shown has the CPF asked for and, where
\* the portal takes one, the registration, whatever answers to earlier items
\* were still under way and whatever the page kept showing.
FoundIsTheirs ==
    outcome.kind = "found" =>
        /\ outcome.shown \in portal.known
        /\ outcome.shown.cpf = item.cpf
        /\ portal.asks => item.reg \in {None, outcome.shown.reg}

\* An item is reported as not found only if the portal has no such employee:
\* no slow answer, stale sentence, initial page or field that an earlier item
\* left becomes a negative result.  RF1 forfeits this when the answer to an
\* earlier item changes the form after it was marked and before the CPF has
\* been typed and its field left: the fields it brings then pass for this
\* item's.
NotFoundIsTrue ==
    outcome.kind = "not_found" =>
        \/ Hits(item) = {}
        \/ On("rf1") /\ seen.change # "none"
        \/ On("facil") /\ portal.asks /\ Exact(item) = {}
        \/ On("safeconsig") /\ Exact(item) = {}
=============================================================================
