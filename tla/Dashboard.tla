----------------------------- MODULE Dashboard -----------------------------
(***************************************************************************)
(* static/js/app.js: the page in the browser, which asks the plugin and    *)
(* shows what it answers.                                                  *)
(*                                                                         *)
(* Handlers run one at a time; answers arrive in any order, each of them   *)
(* once (the request times out after a minute, which is an error).  The    *)
(* navigation, the choice of site and that of period stay in reach while a *)
(* page loads.  Only requests of the overview are numbered.                *)
(*                                                                         *)
(* The panel has a site throughout: without one the page is empty.         *)
(***************************************************************************)
EXTENDS Naturals

CONSTANTS Sites, FirstSite, (* the site shown when none was chosen *)
          Periods, Modules, (* the pages of loadModule(); of them, "settings"
                               is about no site *)
          None, MaxRequests (* bound *)

ASSUME DashboardAssumption ==
    /\ FirstSite \in Sites /\ None \notin Sites
    /\ Modules \cap {"overview", "sites", "spiders", "repair"} = {}
    /\ MaxRequests \in Nat \ {0}

Pages == {"overview", "sites", "spiders"} \cup Modules
OfSite == Pages \ {"sites", "settings"}
Numbered == {"overview", "sites", "spiders"}   (* what takes a number *)

VARIABLES
    siteId, period, page, loading, dashboardRequest, (* state, by its names *)
    shown,     (* what each page shows: the site and period of its data    *)
    running,   (* state.data says that a history import runs               *)
    repaired,  (* the timer after a repair is set                          *)
    pending,   (* the requests on their way, "repair" among them           *)
    issued,    (* how many were made; each has its place in this order     *)
    wish,      (* history: page, site and period the user asked for last   *)
    moved,     (* history: the page went to the overview since, unasked    *)
    latest,    (* history: the latest request of each page                 *)
    astray     (* history: see Settles                                     *)

state == <<siteId, period, page, loading, dashboardRequest, shown, running,
           repaired>>
vars == <<state, pending, issued, wish, moved, latest, astray>>

Nothing == [site |-> None, period |-> None]

-----------------------------------------------------------------------------
(* One request.  number is the closure's requestId.                        *)
Request(kind, silent, s, d) ==
    /\ issued < MaxRequests
    /\ issued' = issued + 1
    /\ dashboardRequest' =
        IF kind \in Numbered THEN dashboardRequest + 1 ELSE dashboardRequest
    /\ pending' = pending \cup
        {[order |-> issued', kind |-> kind, silent |-> silent, site |-> s,
          period |-> d, number |-> dashboardRequest']}
    /\ latest' = IF kind \in Pages
                  THEN [latest EXCEPT ![kind] = issued'] ELSE latest

(* loadCurrentPage() of page p, with the site and period then set.         *)
LoadPage(p, s, d) ==
    /\ siteId' = s /\ period' = d /\ page' = p
    /\ loading' = TRUE
    /\ Request(p, FALSE, s, d)
    /\ UNCHANGED <<shown, running, repaired, astray>>

Wish(p, s, d) ==
    wish' = [page |-> p, site |-> s, period |-> d] /\ moved' = FALSE

Navigate ==
    \E p \in Pages :
        /\ ~(page = p /\ shown[p] # Nothing)
        /\ LoadPage(p, siteId, period)
        /\ Wish(p, wish.site, wish.period)

ChooseSite ==
    /\ page \in OfSite
    /\ \E s \in Sites : LoadPage(page, s, period) /\ Wish(page, s, wish.period)

OpenSite ==
    /\ page = "sites" /\ ~loading /\ shown["sites"] # Nothing
    /\ \E s \in Sites :
        LoadPage("overview", s, period) /\ Wish("overview", s, wish.period)

ChoosePeriod ==
    \E d \in Periods : LoadPage(page, siteId, d) /\ Wish(page, wish.site, d)

Refresh ==
    /\ ~loading
    /\ LoadPage(page, siteId, period)
    /\ Wish(page, wish.site, wish.period)

(* Mutant: the timer does not look whether a page loads.                   *)
MayPollAnyTime == page = "overview" /\ running

(* Every three seconds while a history import runs.                        *)
MayPoll == page = "overview" /\ running /\ ~loading

Poll ==
    /\ MayPoll
    /\ Request("overview", TRUE, siteId, period)
    /\ UNCHANGED <<siteId, period, page, loading, shown, running, repaired,
                   wish, moved, astray>>

Repair ==
    /\ Request("repair", TRUE, siteId, period)
    /\ UNCHANGED <<siteId, period, page, loading, shown, running, repaired,
                   wish, moved, astray>>

(* loadDashboard() a moment after the repair, whatever page is open: its   *)
(* answer opens the overview, also where the user has gone elsewhere.      *)
AfterRepair ==
    /\ repaired /\ repaired' = FALSE
    /\ loading' = TRUE
    /\ Request("overview", FALSE, siteId, period)
    /\ moved' = (moved \/ wish.page # "overview")
    /\ UNCHANGED <<siteId, period, page, shown, running, wish, astray>>

-----------------------------------------------------------------------------
(* Mutant: the number is not looked at.                                    *)
OutdatedNever(r) == FALSE

Outdated(r) == r.kind = "overview" /\ r.number # dashboardRequest

Selected(r) == IF r.site = None THEN FirstSite ELSE r.site

(* A later request was made, and the number says nothing of it.            *)
Unordered(r) ==
    \E k \in Pages : /\ latest[k] > r.order
                     /\ ~(r.kind = "overview" /\ k \in Numbered)

Ignored(r) == Outdated(r) /\ UNCHANGED <<state, astray>>

Shows(r) ==
    /\ ~Outdated(r)
    /\ loading' = (loading /\ r.silent)
    /\ page' = r.kind
    /\ siteId' = IF r.kind \in OfSite THEN Selected(r) ELSE siteId
    /\ shown' = [shown EXCEPT ![r.kind] =
                    [site |-> IF r.kind \in OfSite THEN Selected(r) ELSE None,
                     period |-> IF r.kind = "settings" THEN None ELSE r.period]]
    /\ running' \in (IF r.kind = "overview" THEN BOOLEAN ELSE {running})
    /\ astray' = (astray \/ Unordered(r))
    /\ UNCHANGED <<period, dashboardRequest, repaired>>

(* An error leaves the page as it is; the pages of all sites and of        *)
(* spiders are opened nevertheless.                                        *)
Fails(r) ==
    /\ ~Outdated(r)
    /\ loading' = (loading /\ r.silent)
    /\ page' = IF r.kind \in {"sites", "spiders"} THEN r.kind ELSE page
    /\ astray' = TRUE
    /\ UNCHANGED <<siteId, period, dashboardRequest, shown, running, repaired>>

Answer ==
    \E r \in pending :
        /\ r.kind # "repair"
        /\ pending' = pending \ {r}
        /\ Ignored(r) \/ Shows(r) \/ Fails(r)
        /\ UNCHANGED <<issued, wish, moved, latest>>

RepairAnswer ==
    \E r \in pending :
        /\ r.kind = "repair"
        /\ pending' = pending \ {r}
        /\ repaired' \in {repaired, TRUE}   (* unchanged: an error *)
        /\ UNCHANGED <<siteId, period, page, loading, dashboardRequest, shown,
                       running, issued, wish, moved, latest, astray>>

-----------------------------------------------------------------------------
(* The page opens on its overview: the first request is already made.      *)
Init ==
    /\ siteId = None /\ period \in Periods /\ page = "overview"
    /\ loading = TRUE /\ dashboardRequest = 1
    /\ shown = [p \in Pages |-> Nothing] /\ running = FALSE /\ repaired = FALSE
    /\ issued = 1
    /\ pending = {[order |-> 1, kind |-> "overview", silent |-> FALSE,
                   site |-> None, period |-> period, number |-> 1]}
    /\ wish = [page |-> "overview", site |-> None, period |-> period]
    /\ latest = [p \in Pages |-> IF p = "overview" THEN 1 ELSE 0]
    /\ moved = FALSE /\ astray = FALSE

Next ==
    \/ Navigate \/ ChooseSite \/ OpenSite \/ ChoosePeriod \/ Refresh
    \/ Poll \/ Repair \/ AfterRepair \/ Answer \/ RepairAnswer

Spec == Init /\ [][Next]_vars

(* Every request is answered, or ends with its timeout.                    *)
FairSpec == Spec /\ WF_vars(Answer)

-----------------------------------------------------------------------------
TypeOK ==
    /\ siteId \in Sites \cup {None} /\ period \in Periods /\ page \in Pages
    /\ {loading, running, repaired, moved, astray} \subseteq BOOLEAN
    /\ issued \in 1 .. MaxRequests /\ dashboardRequest \in 1 .. issued
    /\ shown \in [Pages -> [site : Sites \cup {None},
                           period : Periods \cup {None}]]
    /\ \A r \in pending :
        r.order \in 1 .. issued /\ r.number \in 1 .. dashboardRequest
    /\ latest \in [Pages -> 0 .. issued]

Wanted == IF moved THEN "overview" ELSE wish.page

(* When nothing is on its way, the page shows what the user asked for      *)
(* last, that page, site and period, in whatever order the answers of the  *)
(* overview came and however the timer of the import polled.  The timer of *)
(* a repair does move a user who has gone to another page back to the      *)
(* overview (loadDashboard() and render()); then it shows the overview, of *)
(* the site and period asked for last, until the next click.  What nothing *)
(* numbers is left out (astray): an answer for another page that comes     *)
(* after a later request, and one for the overview after a request of      *)
(* loadModule(); and so is an error.  CHANGELOG.md:116 promises it of the  *)
(* overview.                                                               *)
Settles ==
    (\A r \in pending : r.kind = "repair") /\ ~astray =>
        /\ page = Wanted /\ period = wish.period /\ ~loading
        /\ page \in OfSite =>
            siteId = Selected(wish) /\ shown[page].site = siteId
        /\ page # "settings" => shown[page].period = period

(* Not so, because of that timer.                                          *)
ShowsWish ==
    (\A r \in pending : r.kind = "repair") /\ ~astray => page = wish.page

(* The loading sign, behind which the page is hidden, does not stay: of    *)
(* the requests on their way, one takes it away, although the overview     *)
(* ignores answers and a silent request leaves the sign alone.             *)
LoadingEnds == loading ~> ~loading
=============================================================================
