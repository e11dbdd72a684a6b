-------------------------- MODULE Dashboard_proofs --------------------------
(***************************************************************************)
(* Proofs about Dashboard, for every set of sites, periods and pages and   *)
(* every number of requests.                                               *)
(***************************************************************************)
EXTENDS Dashboard, TLAPS

-----------------------------------------------------------------------------
(* The inductive invariant.                                                *)

USE DEF Wanted

AnyRequest == [order : Nat, kind : Pages \cup {"repair"}, silent : BOOLEAN,
               site : Sites \cup {None}, period : Periods, number : Nat]

StateTypes ==
    /\ siteId \in Sites \cup {None} /\ period \in Periods /\ page \in Pages
    /\ {loading, running, repaired, moved, astray} \subseteq BOOLEAN
    /\ shown \in [Pages -> [site : Sites \cup {None}, period : Periods \cup {None}]]
    /\ wish \in [page : Pages, site : Sites \cup {None}, period : Periods]

RequestTypes ==
    /\ issued \in 1 .. MaxRequests /\ dashboardRequest \in 1 .. issued
    /\ pending \subseteq AnyRequest
    /\ latest \in [Pages -> 0 .. issued]

(* A request has a place of its own in the order; none of a page comes     *)
(* after the latest one of that page.                                      *)
Orders ==
    /\ \A r \in pending : r.order \in 1 .. issued /\ r.number \in 1 .. dashboardRequest
    /\ \A r \in pending : r.kind \in Pages => r.order <= latest[r.kind]
    /\ \A q, r \in pending : q.order = r.order => q = r

(* The overview's request with the current number is the latest one of     *)
(* those that take a number.                                               *)
Numbers ==
    \A r \in pending : r.kind = "overview" /\ ~Outdated(r) =>
        \A k \in Numbered : latest[k] <= r.order

(* r is the latest request of all pages.                                   *)
IsLast(r) == r.kind \in Pages /\ \A k \in Pages : latest[k] <= r.order

SiteOf(s) == IF s = None THEN FirstSite ELSE s

Chosen ==
    /\ period = wish.period
    /\ ~astray => SiteOf(siteId) = SiteOf(wish.site)
    /\ ~astray /\ ~loading => page = Wanted

(* The latest request asks for what the user wants, and takes the loading  *)
(* sign away when it is answered.                                          *)
LastAsks ==
    ~astray => \A r \in pending : IsLast(r) =>
        /\ r.kind = Wanted /\ r.period = wish.period
        /\ SiteOf(r.site) = SiteOf(wish.site)
        /\ r.kind \in Numbered => r.number = dashboardRequest
        /\ loading => ~r.silent

(* Once it is answered, the page shows it.                                 *)
LastShown ==
    ~astray /\ (\A r \in pending : ~IsLast(r)) =>
        /\ page = Wanted /\ ~loading
        /\ page \in OfSite => siteId = SiteOf(wish.site) /\ shown[page].site = siteId
        /\ page # "settings" => shown[page].period = period

DashboardInv ==
    StateTypes /\ RequestTypes /\ Orders /\ Numbers /\ Chosen /\ LastAsks /\ LastShown

-----------------------------------------------------------------------------
(* A step that makes a request of page p: silent for the timer, which only *)
(* asks while nothing loads.                                               *)
Asks(p, silent, s, d) ==
    /\ Request(p, silent, s, d)
    /\ siteId' = s /\ period' = d
    /\ UNCHANGED <<shown, running, astray>>
    /\ repaired' \in BOOLEAN
    /\ IF silent
       THEN /\ p = "overview" /\ page = p /\ ~loading /\ s = siteId /\ d = period
            /\ UNCHANGED <<page, loading, wish, moved>>
       ELSE /\ loading' = TRUE /\ page' \in {p, page}
            /\ Wanted' = p /\ moved' \in BOOLEAN
            /\ \/ \E w : /\ w = s \/ (w = wish.site /\ s = siteId)
                         /\ wish' = [page |-> p, site |-> w, period |-> d]
               \/ wish' = wish /\ s = siteId /\ d = wish.period

LEMMA PageNames ==
    /\ {"overview", "sites", "spiders"} \subseteq Pages /\ "repair" \notin Pages
    /\ Numbered \subseteq Pages /\ OfSite \subseteq Pages
  BY DashboardAssumption DEF Pages, Numbered, OfSite

LEMMA Steps ==
    ASSUME StateTypes, Chosen, [Next]_vars
    PROVE  \/ UNCHANGED vars
           \/ \E p \in Pages, silent \in BOOLEAN, s \in Sites \cup {None}, d \in Periods :
                 Asks(p, silent, s, d)
           \/ Repair \/ Answer \/ RepairAnswer
<1> USE PageNames
<1>1. wish.period = period /\ wish.site \in Sites \cup {None} /\ repaired \in BOOLEAN
        /\ loading \in BOOLEAN /\ moved \in BOOLEAN
  BY DEF StateTypes, Chosen
<1>2. CASE Navigate
  <2>1. PICK p \in Pages : LoadPage(p, siteId, period) /\ Wish(p, wish.site, wish.period)
    BY <1>2 DEF Navigate
  <2>2. Asks(p, FALSE, siteId, period)
    BY <1>1, <2>1 DEF LoadPage, Wish, Asks
  <2> QED BY <2>2 DEF StateTypes
<1>3. CASE ChooseSite
  <2>1. PICK s \in Sites : LoadPage(page, s, period) /\ Wish(page, s, wish.period)
    BY <1>3 DEF ChooseSite
  <2>2. Asks(page, FALSE, s, period)
    BY <1>1, <2>1 DEF LoadPage, Wish, Asks
  <2> QED BY <2>2 DEF StateTypes
<1>4. CASE OpenSite
  <2>1. PICK s \in Sites : LoadPage("overview", s, period) /\ Wish("overview", s, wish.period)
    BY <1>4 DEF OpenSite
  <2>2. Asks("overview", FALSE, s, period)
    BY <1>1, <2>1 DEF LoadPage, Wish, Asks
  <2> QED BY <2>2 DEF StateTypes
<1>5. CASE ChoosePeriod
  <2>1. PICK d \in Periods : LoadPage(page, siteId, d) /\ Wish(page, wish.site, d)
    BY <1>5 DEF ChoosePeriod
  <2>2. Asks(page, FALSE, siteId, d)
    BY <1>1, <2>1 DEF LoadPage, Wish, Asks
  <2> QED BY <2>2 DEF StateTypes
<1>6. CASE Refresh
  <2>1. Asks(page, FALSE, siteId, period)
    BY <1>1, <1>6 DEF Refresh, LoadPage, Wish, Asks
  <2> QED BY <2>1 DEF StateTypes
<1>7. CASE Poll
  <2>1. Asks("overview", TRUE, siteId, period)
    BY <1>1, <1>7 DEF Poll, MayPoll, Asks
  <2> QED BY <2>1 DEF StateTypes
<1>8. CASE AfterRepair
  <2>1. Asks("overview", FALSE, siteId, period)
    BY <1>1, <1>8 DEF AfterRepair, Wish, Asks
  <2> QED BY <2>1 DEF StateTypes
<1> QED BY <1>2, <1>3, <1>4, <1>5, <1>6, <1>7, <1>8 DEF Next

-----------------------------------------------------------------------------
(* What a request changes.                                                 *)
LEMMA Requested ==
    ASSUME RequestTypes, Orders, NEW kind \in Pages \cup {"repair"}, NEW silent \in BOOLEAN,
           NEW s \in Sites \cup {None}, NEW d \in Periods, Request(kind, silent, s, d)
    PROVE  \E new \in AnyRequest :
             /\ new.order = issued' /\ new.kind = kind /\ new.silent = silent
             /\ new.site = s /\ new.period = d /\ new.number = dashboardRequest'
             /\ pending' = pending \cup {new}
             /\ issued' = issued + 1 /\ issued' \in 1 .. MaxRequests
             /\ dashboardRequest' =
                  IF kind \in Numbered THEN dashboardRequest + 1 ELSE dashboardRequest
             /\ dashboardRequest' \in 1 .. issued'
             /\ latest' = IF kind \in Pages THEN [latest EXCEPT ![kind] = issued'] ELSE latest
             /\ latest' \in [Pages -> 0 .. issued']
             /\ \A k \in Pages :
                  latest'[k] = IF k = kind THEN issued + 1 ELSE latest[k]
<1> USE DashboardAssumption, PageNames
<1> DEFINE new == [order |-> issued', kind |-> kind, silent |-> silent, site |-> s,
                   period |-> d, number |-> dashboardRequest']
<1>1. issued' = issued + 1 /\ issued' \in 1 .. MaxRequests /\ issued \in Nat
  BY DEF Request, RequestTypes
<1>2. dashboardRequest' = (IF kind \in Numbered THEN dashboardRequest + 1 ELSE dashboardRequest)
        /\ dashboardRequest' \in 1 .. issued'
  BY <1>1 DEF Request, RequestTypes
<1>3. new \in AnyRequest
  BY <1>1, <1>2 DEF AnyRequest
<1>4. latest' = (IF kind \in Pages THEN [latest EXCEPT ![kind] = issued'] ELSE latest)
  BY DEF Request
<1>5. latest' \in [Pages -> 0 .. issued']
        /\ \A k \in Pages : latest'[k] = IF k = kind THEN issued + 1 ELSE latest[k]
  BY <1>1, <1>4 DEF RequestTypes
<1>6. pending' = pending \cup {new}
  BY DEF Request
<1> QED BY <1>1, <1>2, <1>3, <1>4, <1>5, <1>6

(* A request of a page becomes the last one, and outdates the others.      *)
LEMMA AskStep ==
    ASSUME DashboardInv, NEW p \in Pages, NEW silent \in BOOLEAN,
           NEW s \in Sites \cup {None}, NEW d \in Periods, Asks(p, silent, s, d)
    PROVE  DashboardInv'
<1> USE DashboardAssumption, PageNames
<1>1. StateTypes /\ RequestTypes /\ Orders /\ Numbers /\ Chosen
  BY DEF DashboardInv
<1>2. PICK new \in AnyRequest :
             /\ new.order = issued' /\ new.kind = p /\ new.silent = silent
             /\ new.site = s /\ new.period = d /\ new.number = dashboardRequest'
             /\ pending' = pending \cup {new}
             /\ issued' = issued + 1 /\ issued' \in 1 .. MaxRequests
             /\ dashboardRequest' =
                  IF p \in Numbered THEN dashboardRequest + 1 ELSE dashboardRequest
             /\ dashboardRequest' \in 1 .. issued'
             /\ latest' \in [Pages -> 0 .. issued']
             /\ \A k \in Pages : latest'[k] = IF k = p THEN issued + 1 ELSE latest[k]
  BY <1>1, Requested DEF Asks
<1>3. issued \in Nat /\ dashboardRequest \in Nat /\ \A k \in Pages : latest[k] \in 0 .. issued
  BY <1>1 DEF RequestTypes
<1>4. \A r \in pending : r \in AnyRequest /\ r.order \in 1 .. issued /\ r.order \in Nat
        /\ r.number \in 1 .. dashboardRequest /\ r.kind \in Pages \cup {"repair"}
  BY <1>1, <1>3 DEF RequestTypes, Orders, AnyRequest
<1>5. PICK w \in Sites \cup {None} :
        /\ (w = s \/ (w = wish.site /\ s = siteId))
        /\ wish'.site = w /\ wish'.period = d
        /\ wish' \in [page : Pages, site : Sites \cup {None}, period : Periods]
        /\ (~astray => Wanted' = p)
  <2>0. wish \in [page : Pages, site : Sites \cup {None}, period : Periods]
    BY <1>1 DEF StateTypes
  <2>1. CASE silent
    <3>1. UNCHANGED <<wish, moved>> /\ s = siteId /\ d = period /\ page = p /\ ~loading
      BY <2>1 DEF Asks
    <3>2. wish.site \in Sites \cup {None} /\ wish.period = d
      BY <1>1, <2>0, <3>1 DEF Chosen
    <3>3. ~astray => Wanted = p
      BY <1>1, <3>1 DEF Chosen
    <3> QED BY <2>0, <3>1, <3>2, <3>3
  <2>2. CASE ~silent
    <3>1. Wanted' = p
      BY <2>2 DEF Asks
    <3>2. CASE \E w : /\ w = s \/ (w = wish.site /\ s = siteId)
                      /\ wish' = [page |-> p, site |-> w, period |-> d]
      <4>1. PICK w : /\ w = s \/ (w = wish.site /\ s = siteId)
                     /\ wish' = [page |-> p, site |-> w, period |-> d]
        BY <3>2
      <4>2. w \in Sites \cup {None}
        BY <2>0, <4>1
      <4> QED BY <3>1, <4>1, <4>2
    <3>3. CASE wish' = wish /\ s = siteId /\ d = wish.period
      BY <2>0, <3>1, <3>3
    <3> QED BY <2>2, <3>2, <3>3 DEF Asks
  <2> QED BY <2>1, <2>2
<1>6. StateTypes'
  <2>1. shown' = shown /\ running' = running /\ astray' = astray /\ siteId' = s /\ period' = d
          /\ repaired' \in BOOLEAN /\ moved' \in BOOLEAN
    BY <1>1 DEF Asks, StateTypes
  <2>2. loading' \in BOOLEAN /\ page' \in Pages
    BY <1>1 DEF Asks, StateTypes
  <2> QED BY <1>1, <1>5, <2>1, <2>2 DEF StateTypes
<1>7. RequestTypes'
  BY <1>1, <1>2 DEF RequestTypes
<1>8. Orders'
  <2>1. \A r \in pending' : r.order \in 1 .. issued' /\ r.number \in 1 .. dashboardRequest'
    BY <1>2, <1>3, <1>4
  <2>2. \A r \in pending' : r.kind \in Pages => r.order <= latest'[r.kind]
    <3> SUFFICES ASSUME NEW r \in pending', r.kind \in Pages PROVE r.order <= latest'[r.kind]
      OBVIOUS
    <3>1. CASE r = new
      BY <1>2, <1>3, <3>1
    <3>2. CASE r \in pending
      <4>1. r.order <= latest[r.kind] /\ r.order <= issued /\ r.order \in Nat
        BY <1>1, <1>3, <1>4, <3>2 DEF Orders
      <4> QED BY <1>2, <1>3, <4>1
    <3> QED BY <1>2, <3>1, <3>2
  <2>3. \A q, r \in pending' : q.order = r.order => q = r
    <3>1. \A r \in pending : r.order # new.order
      BY <1>2, <1>3, <1>4
    <3> QED BY <1>1, <1>2, <3>1 DEF Orders
  <2> QED BY <2>1, <2>2, <2>3 DEF Orders
<1>9. Numbers'
  <2> SUFFICES ASSUME NEW r \in pending', r.kind = "overview", r.number = dashboardRequest',
                      NEW k \in Numbered
               PROVE  latest'[k] <= r.order
    BY DEF Numbers, Outdated
  <2>1. CASE r = new
    BY <1>2, <1>3, <2>1
  <2>2. CASE r \in pending
    <3>1. p \notin Numbered /\ dashboardRequest' = dashboardRequest
      BY <1>2, <1>3, <1>4, <2>2
    <3>2. latest[k] <= r.order
      BY <1>1, <2>2, <3>1 DEF Numbers, Outdated
    <3> QED BY <1>2, <3>1, <3>2
  <2> QED BY <1>2, <2>1, <2>2
<1>10. Chosen'
  <2>1. period' = wish'.period /\ siteId' = s /\ astray' = astray
    BY <1>5 DEF Asks
  <2>2. ~astray => SiteOf(s) = SiteOf(w)
    BY <1>1, <1>5 DEF Chosen
  <2>3. ~astray /\ ~loading' => page' = Wanted'
    <3>1. CASE silent
      BY <1>1, <3>1 DEF Asks, Chosen
    <3>2. CASE ~silent
      BY <3>2 DEF Asks
    <3> QED BY <3>1, <3>2
  <2> QED BY <1>5, <2>1, <2>2, <2>3 DEF Chosen, SiteOf
<1>11. \A r \in pending' : IsLast(r)' <=> r = new
  <2>1. IsLast(new)'
    <3>1. \A k \in Pages : latest'[k] <= issued + 1
      BY <1>2, <1>3
    <3> QED BY <1>2, <3>1 DEF IsLast
  <2>2. ASSUME NEW r \in pending PROVE ~IsLast(r)'
    <3>1. r.order < latest'[p]
      BY <1>2, <1>3, <1>4
    <3>2. r.order \in Nat /\ latest'[p] \in Nat
      BY <1>2, <1>3, <1>4
    <3> QED BY <3>1, <3>2 DEF IsLast
  <2>3. new \notin pending
    BY <2>1, <2>2
  <2> QED BY <1>2, <2>1, <2>2
<1>12. LastAsks'
  <2>1. ~astray => SiteOf(new.site) = SiteOf(w)
    BY <1>1, <1>2, <1>5 DEF Chosen
  <2>2. p \in Numbered => new.number = dashboardRequest'
    BY <1>2
  <2>3. loading' => ~new.silent
    BY <1>2 DEF Asks
  <2>4. astray' = astray /\ new.kind = p /\ new.period = d
    BY <1>2 DEF Asks
  <2>5. ASSUME ~astray', NEW r \in pending', IsLast(r)'
        PROVE  /\ r.kind = Wanted' /\ r.period = wish'.period
               /\ SiteOf(r.site) = SiteOf(wish'.site)
               /\ r.kind \in Numbered => r.number = dashboardRequest'
               /\ loading' => ~r.silent
    BY <1>5, <1>11, <2>1, <2>2, <2>3, <2>4, <2>5
  <2> QED BY <2>5 DEF LastAsks, SiteOf
<1>13. LastShown'
  <2>1. new \in pending' /\ IsLast(new)'
    BY <1>2, <1>11
  <2> QED BY <2>1 DEF LastShown
<1> QED BY <1>6, <1>7, <1>8, <1>9, <1>10, <1>12, <1>13 DEF DashboardInv

(* A repair is no page's request.                                          *)
LEMMA RepairStep == DashboardInv /\ Repair => DashboardInv'
<1> SUFFICES ASSUME DashboardInv, Repair PROVE DashboardInv'
  OBVIOUS
<1> USE DashboardAssumption, PageNames
<1>1. StateTypes /\ RequestTypes /\ Orders /\ Numbers /\ Chosen /\ LastAsks /\ LastShown
  BY DEF DashboardInv
<1>2. UNCHANGED <<siteId, period, page, loading, shown, running, repaired, wish, moved, astray>>
        /\ siteId \in Sites \cup {None} /\ period \in Periods /\ "repair" \notin Numbered
        /\ Request("repair", TRUE, siteId, period)
  BY <1>1 DEF Repair, StateTypes, Numbered
<1>3. PICK new \in AnyRequest :
             /\ new.order = issued' /\ new.kind = "repair" /\ new.number = dashboardRequest'
             /\ pending' = pending \cup {new}
             /\ issued' = issued + 1 /\ issued' \in 1 .. MaxRequests
             /\ dashboardRequest' = dashboardRequest
             /\ dashboardRequest' \in 1 .. issued'
             /\ latest' = latest /\ latest' \in [Pages -> 0 .. issued']
  <2> DEFINE new == [order |-> issued', kind |-> "repair", silent |-> TRUE,
                     site |-> siteId, period |-> period, number |-> dashboardRequest']
  <2>1. issued' = issued + 1 /\ issued' \in 1 .. MaxRequests /\ issued \in Nat
    BY <1>1, <1>2 DEF Request, RequestTypes
  <2>2. dashboardRequest' = dashboardRequest /\ dashboardRequest' \in 1 .. issued'
    BY <1>1, <1>2, <2>1 DEF Request, RequestTypes
  <2>3. latest' = latest /\ latest' \in [Pages -> 0 .. issued']
    BY <1>1, <1>2, <2>1 DEF Request, RequestTypes
  <2>4. new \in AnyRequest
    BY <1>2, <2>1, <2>2 DEF AnyRequest
  <2>5. pending' = pending \cup {new}
    BY <1>2 DEF Request
  <2> QED BY <2>1, <2>2, <2>3, <2>4, <2>5
<1>4. issued \in Nat
  BY <1>1 DEF RequestTypes
<1>5. StateTypes'
  BY <1>1, <1>2 DEF StateTypes
<1>6. RequestTypes'
  BY <1>1, <1>3 DEF RequestTypes
<1>7. Orders'
  <2>1. \A r \in pending : r.order \in 1 .. issued /\ r.order # new.order
    BY <1>1, <1>3, <1>4 DEF Orders
  <2>2. \A r \in pending' : r.order \in 1 .. issued' /\ r.number \in 1 .. dashboardRequest'
    BY <1>1, <1>3, <1>4 DEF Orders
  <2>3. \A r \in pending' : r.kind \in Pages => r.order <= latest'[r.kind]
    BY <1>1, <1>3 DEF Orders
  <2> QED BY <1>1, <1>3, <2>1, <2>2, <2>3 DEF Orders
<1>8. Numbers'
  BY <1>1, <1>3 DEF Numbers, Outdated
<1>9. Chosen'
  BY <1>1, <1>2 DEF Chosen, SiteOf
<1>10. \A r \in pending' : IsLast(r)' => r \in pending /\ IsLast(r)
  BY <1>3 DEF IsLast
<1>11. LastAsks'
  BY <1>1, <1>2, <1>3, <1>10 DEF LastAsks, SiteOf
<1>12. LastShown'
  <2>1. (\A r \in pending' : ~IsLast(r)') => \A r \in pending : ~IsLast(r)
    BY <1>3 DEF IsLast
  <2> QED BY <1>1, <1>2, <2>1 DEF LastShown, SiteOf
<1> QED BY <1>5, <1>6, <1>7, <1>8, <1>9, <1>11, <1>12 DEF DashboardInv

(* The answer to a request that is not the last one of all, or that cannot *)
(* be told from an old one, is ignored or counts as astray.                *)
LEMMA Leaves ==
    ASSUME RequestTypes, Orders, Numbers, NEW r \in pending, pending' = pending \ {r},
           UNCHANGED <<issued, latest, dashboardRequest>>
    PROVE  RequestTypes' /\ Orders' /\ Numbers'
<1>1. RequestTypes'
  BY DEF RequestTypes
<1>2. Orders'
  BY DEF Orders
<1>3. Numbers'
  BY DEF Numbers, Outdated
<1> QED BY <1>1, <1>2, <1>3

LEMMA AnswerStep == DashboardInv /\ Answer => DashboardInv'
<1> SUFFICES ASSUME DashboardInv, Answer PROVE DashboardInv'
  OBVIOUS
<1> USE DashboardAssumption, PageNames
<1>1. StateTypes /\ RequestTypes /\ Orders /\ Numbers /\ Chosen /\ LastAsks /\ LastShown
  BY DEF DashboardInv
<1>2. PICK r \in pending :
        /\ r.kind # "repair" /\ pending' = pending \ {r}
        /\ Ignored(r) \/ Shows(r) \/ Fails(r)
        /\ UNCHANGED <<issued, wish, moved, latest>>
  BY DEF Answer
<1>3. r \in AnyRequest /\ r.kind \in Pages /\ dashboardRequest' = dashboardRequest
  BY <1>1, <1>2 DEF RequestTypes, AnyRequest, Ignored, Shows, Fails, state
<1>4. RequestTypes' /\ Orders' /\ Numbers'
  BY <1>1, <1>2, <1>3, Leaves
<1>5. StateTypes'
  <2>1. CASE Ignored(r)
    BY <1>1, <1>2, <2>1 DEF Ignored, state, StateTypes
  <2>2. CASE Fails(r)
    BY <1>1, <1>2, <2>2 DEF Fails, StateTypes
  <2>3. CASE Shows(r)
    <3>1. r.site \in Sites \cup {None} /\ r.period \in Periods /\ r.silent \in BOOLEAN
      BY <1>3 DEF AnyRequest
    <3>2. Selected(r) \in Sites
      BY <3>1 DEF Selected
    <3>3. shown' \in [Pages -> [site : Sites \cup {None}, period : Periods \cup {None}]]
      BY <1>1, <2>3, <3>1, <3>2 DEF Shows, StateTypes
    <3>4. siteId' \in Sites \cup {None} /\ page' \in Pages /\ period' = period
           /\ repaired' = repaired /\ loading' \in BOOLEAN /\ astray' \in BOOLEAN
           /\ wish' = wish /\ moved' = moved
      BY <1>1, <1>2, <1>3, <2>3, <3>2 DEF Shows, StateTypes
    <3>5. running' \in BOOLEAN
      BY <1>1, <2>3 DEF Shows, StateTypes
    <3> QED BY <1>1, <3>3, <3>4, <3>5 DEF StateTypes
  <2> QED BY <1>2, <2>1, <2>2, <2>3
<1>6. \A q \in pending' : q \in pending /\ (IsLast(q)' <=> IsLast(q))
  BY <1>2 DEF IsLast
<1>7. CASE Ignored(r)
  <2>1. UNCHANGED <<siteId, period, page, loading, shown, astray, wish, moved>>
    BY <1>2, <1>7 DEF Ignored, state
  <2>2. Chosen'
    BY <1>1, <2>1 DEF Chosen, SiteOf
  <2>3. LastAsks'
    BY <1>1, <1>3, <1>6, <2>1 DEF LastAsks, SiteOf
  <2>4. ~astray => ~IsLast(r)
    BY <1>1, <1>7 DEF LastAsks, Ignored, Outdated, Numbered
  <2>5. ~astray /\ (\A q \in pending' : ~IsLast(q)') => \A q \in pending : ~IsLast(q)
    BY <1>2, <1>6, <2>4
  <2>6. LastShown'
    BY <1>1, <2>1, <2>5 DEF LastShown, SiteOf
  <2> QED BY <1>4, <1>5, <2>2, <2>3, <2>6 DEF DashboardInv
<1>8. CASE Fails(r)
  <2>1. astray' = TRUE /\ period' = period /\ wish' = wish /\ moved' = moved
    BY <1>2, <1>8 DEF Fails
  <2> QED BY <1>1, <1>4, <1>5, <2>1 DEF DashboardInv, Chosen, LastAsks, LastShown
<1>9. CASE Shows(r)
  <2>1. period' = period /\ wish' = wish /\ moved' = moved
    BY <1>2, <1>9 DEF Shows
  <2>2. CASE astray'
    BY <1>1, <1>4, <1>5, <2>1, <2>2 DEF DashboardInv, Chosen, LastAsks, LastShown
  <2>3. CASE ~astray'
    <3>1. ~astray /\ ~Unordered(r) /\ ~Outdated(r)
      BY <1>9, <2>3 DEF Shows
    <3>2. IsLast(r)
      <4>1. r.order \in Nat /\ \A k \in Pages : latest[k] \in Nat
        BY <1>1, <1>3 DEF RequestTypes, AnyRequest
      <4>2. ASSUME NEW k \in Pages PROVE latest[k] <= r.order
        <5>1. latest[k] <= r.order \/ (r.kind = "overview" /\ k \in Numbered)
          BY <3>1, <4>1 DEF Unordered
        <5> QED BY <1>1, <3>1, <5>1 DEF Numbers
      <4> QED BY <1>3, <4>2 DEF IsLast
    <3>3. /\ r.kind = Wanted /\ r.period = wish.period
          /\ SiteOf(r.site) = SiteOf(wish.site)
          /\ loading => ~r.silent
      BY <1>1, <3>1, <3>2 DEF LastAsks
    <3>4. Selected(r) = SiteOf(wish.site) /\ Selected(r) \in Sites
      BY <1>3, <3>3 DEF Selected, SiteOf, AnyRequest
    <3>5. \A q \in pending' : ~IsLast(q)'
      <4> SUFFICES ASSUME NEW q \in pending, IsLast(q) PROVE q = r
        BY <1>2, <1>6
      <4>1. q.order <= latest[q.kind] /\ q.kind \in Pages /\ r.order <= latest[r.kind]
        BY <1>1, <1>3 DEF Orders, IsLast
      <4>2. latest[q.kind] <= r.order /\ latest[r.kind] <= q.order
        BY <1>3, <3>2, <4>1 DEF IsLast
      <4>3. q.order \in Nat /\ r.order \in Nat /\ latest[q.kind] \in Nat /\ latest[r.kind] \in Nat
        BY <1>1, <1>3, <4>1 DEF RequestTypes, AnyRequest
      <4>4. q.order = r.order
        BY <4>1, <4>2, <4>3
      <4> QED BY <1>1, <4>4 DEF Orders
    <3>6. page' = Wanted /\ ~loading'
            /\ (page' \in OfSite => siteId' = SiteOf(wish.site))
            /\ (page' \notin OfSite => siteId' = siteId)
      BY <1>9, <3>3, <3>4 DEF Shows
    <3>7. (page' \in OfSite => shown'[page'].site = siteId')
            /\ (page' # "settings" => shown'[page'].period = period)
      <4>1. page' = r.kind /\ r.period = period
        BY <1>1, <1>9, <3>3 DEF Shows, Chosen
      <4>2. shown'[r.kind] = [site |-> IF r.kind \in OfSite THEN Selected(r) ELSE None,
                              period |-> IF r.kind = "settings" THEN None ELSE r.period]
        BY <1>1, <1>3, <1>9 DEF Shows, StateTypes
      <4> QED BY <1>9, <4>1, <4>2 DEF Shows
    <3>8. SiteOf(SiteOf(wish.site)) = SiteOf(wish.site)
      BY <3>4 DEF SiteOf
    <3>9. Chosen'
      <4>1. SiteOf(siteId') = SiteOf(wish.site)
        BY <1>1, <3>1, <3>6, <3>8 DEF Chosen
      <4> QED BY <1>1, <2>1, <3>6, <4>1 DEF Chosen, SiteOf
    <3>10. LastAsks'
      BY <3>5 DEF LastAsks
    <3>11. LastShown'
      BY <2>1, <3>6, <3>7 DEF LastShown, SiteOf
    <3> QED BY <1>4, <1>5, <3>9, <3>10, <3>11 DEF DashboardInv
  <2> QED BY <2>2, <2>3
<1> QED BY <1>2, <1>7, <1>8, <1>9

LEMMA RepairAnswerStep == DashboardInv /\ RepairAnswer => DashboardInv'
<1> SUFFICES ASSUME DashboardInv, RepairAnswer PROVE DashboardInv'
  OBVIOUS
<1> USE PageNames
<1>1. StateTypes /\ RequestTypes /\ Orders /\ Numbers /\ Chosen /\ LastAsks /\ LastShown
  BY DEF DashboardInv
<1>2. PICK r \in pending :
        /\ r.kind = "repair" /\ pending' = pending \ {r}
        /\ repaired' \in {repaired, TRUE}
        /\ UNCHANGED <<siteId, period, page, loading, dashboardRequest, shown,
                       running, issued, wish, moved, latest, astray>>
  BY DEF RepairAnswer
<1>3. RequestTypes' /\ Orders' /\ Numbers'
  BY <1>1, <1>2, Leaves
<1>4. StateTypes'
  BY <1>1, <1>2 DEF StateTypes
<1>5. Chosen'
  BY <1>1, <1>2 DEF Chosen, SiteOf
<1>6. ~IsLast(r) /\ \A q \in pending' : q \in pending /\ (IsLast(q)' <=> IsLast(q))
  BY <1>2 DEF IsLast
<1>7. LastAsks'
  BY <1>1, <1>2, <1>6 DEF LastAsks, SiteOf
<1>8. (\A q \in pending' : ~IsLast(q)') => \A q \in pending : ~IsLast(q)
  BY <1>2, <1>6
<1>9. LastShown'
  BY <1>1, <1>2, <1>8 DEF LastShown, SiteOf
<1> QED BY <1>3, <1>4, <1>5, <1>7, <1>9 DEF DashboardInv

LEMMA InitInv == Init => DashboardInv
<1> SUFFICES ASSUME Init PROVE DashboardInv
  OBVIOUS
<1> USE DashboardAssumption, PageNames
<1> DEFINE first == [order |-> 1, kind |-> "overview", silent |-> FALSE,
                     site |-> None, period |-> period, number |-> 1]
<1>1. "overview" \in Pages /\ "overview" \in Numbered /\ period \in Periods
  BY DEF Init, Numbered
<1>2. pending = {first} /\ first \in AnyRequest
  BY <1>1 DEF Init, AnyRequest
<1>3. issued = 1 /\ dashboardRequest = 1
        /\ latest = [p \in Pages |-> IF p = "overview" THEN 1 ELSE 0]
  BY DEF Init
<1>4. StateTypes
  BY <1>1 DEF Init, StateTypes, Nothing
<1>5. RequestTypes
  BY <1>1, <1>2, <1>3 DEF RequestTypes
<1>6. Orders
  BY <1>1, <1>2, <1>3 DEF Orders
<1>7. Numbers
  BY <1>1, <1>2, <1>3 DEF Numbers
<1>8. IsLast(first)
  BY <1>1, <1>3 DEF IsLast
<1>9. Chosen
  BY DEF Init, Chosen
<1>10. LastAsks
  BY <1>2, <1>3 DEF Init, LastAsks
<1>11. LastShown
  BY <1>2, <1>8 DEF LastShown
<1> QED BY <1>4, <1>5, <1>6, <1>7, <1>9, <1>10, <1>11 DEF DashboardInv

LEMMA StepInv == DashboardInv /\ [Next]_vars => DashboardInv'
<1> SUFFICES ASSUME DashboardInv, [Next]_vars PROVE DashboardInv'
  OBVIOUS
<1>1. CASE UNCHANGED vars
  BY <1>1 DEF vars, state, DashboardInv, StateTypes, RequestTypes, Orders, Numbers, Outdated,
     Chosen, LastAsks, LastShown, IsLast, SiteOf
<1> QED BY <1>1, Steps, AskStep, RepairStep, AnswerStep, RepairAnswerStep DEF DashboardInv

(* The inductive invariant: the answer still to come that carries the last *)
(* number is the one to what the user asked for last.                      *)
THEOREM DashboardInvariant == Spec => []DashboardInv
  BY InitInv, StepInv, PTL DEF Spec

(* The variables keep their types, and no request carries a number or a    *)
(* place in the order that was not given out yet.                          *)
THEOREM TypeCorrect == Spec => []TypeOK
<1>1. DashboardInv => TypeOK
  BY DEF DashboardInv, StateTypes, RequestTypes, Orders, TypeOK
<1> QED BY <1>1, DashboardInvariant, PTL

(* When nothing is on its way, the page shows the page, site and period    *)
(* the user asked for last - or the overview, if the timer of a repair     *)
(* went off since and the page was another - unless an answer came that    *)
(* the numbers cannot tell from an old one, or an error.                   *)
THEOREM PageSettles == Spec => []Settles
<1>1. DashboardInv => Settles
  <2> SUFFICES ASSUME DashboardInv, \A r \in pending : r.kind = "repair", ~astray
               PROVE  /\ page = Wanted /\ period = wish.period /\ ~loading
                      /\ page \in OfSite =>
                           siteId = Selected(wish) /\ shown[page].site = siteId
                      /\ page # "settings" => shown[page].period = period
    BY DEF Settles
  <2>1. \A r \in pending : ~IsLast(r)
    BY PageNames DEF IsLast
  <2> QED BY <2>1 DEF DashboardInv, LastShown, Chosen, Selected, SiteOf
<1> QED BY <1>1, DashboardInvariant, PTL
=============================================================================
